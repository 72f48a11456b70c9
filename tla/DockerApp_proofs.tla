-------------------------- MODULE DockerApp_proofs --------------------------
(***************************************************************************)
(* Proofs about DockerApp.  The invariant has five levels: what holds in   *)
(* every behaviour, and what holds besides where nothing but callbacks, or *)
(* nothing at all, overlaps, and where no handler is cut off.              *)
(***************************************************************************)
EXTENDS DockerApp, TLAPS

----------------------------------------------------------------------------
(* In every behaviour *)

\* Where an apply has made its container, where an apply is, where it has put
\* the container into dockerApps; where a stop, a removal or an expiry has taken
\* one out, and where such a call is once it acts.
MadePC  == {"install", "armTtl", "armIdle", "remember", "record"}
ApplyPC == {"move", "create", "start", "drop", "rollback"} \cup MadePC
DonePC  == {"armTtl", "armIdle", "remember", "record"}
TakenPC == {"files", "reads", "writes", "finish"}
StopPC  == {"withdraw", "take", "remove"} \cup TakenPC
Applying(t) == op[t] = "apply"
Stopping(t) == op[t] \in {"stop", "remove", "expire"}
Moved(t) == Applying(t) /\ pc[t] # "move"

\* Which program points each operation has, and each thread.
PlaceInv ==
    /\ op[Expirer] \in {"none", "expire"} /\ op[Idler] \in {"none", "suspend"}
    /\ \A t \in Admin : op[t] \in {"none", "apply", "stop", "remove"}
    /\ \A t \in Thread :
        /\ op[t] = "none" <=> pc[t] = "idle"
        /\ op[t] = "apply" => pc[t] \in ApplyPC
        /\ op[t] = "stop" => pc[t] \in StopPC \ {"files"}
        /\ op[t] = "remove" => pc[t] \in StopPC
        /\ op[t] = "expire" => pc[t] \in StopPC \cup {"check"}
        /\ op[t] = "suspend" => pc[t] \in {"lookup", "check", "pause", "reads", "writes", "flag"}

\* Two threads are under way together only if both are in overlap.
OverlapInv == \A t, u \in Busy : t # u => t \in overlap /\ u \in overlap

\* While the server is down nothing is under way and its memory is empty.
DownInv == ~up => Busy = {} /\ dockerApp = None /\ idleApp = None /\ ttlArmed = 0 /\ idleArmed = 0

\* A record that says running names a container, and every record but the empty
\* one has a generation; a copy is never one of a running app.
WholeInv ==
    /\ record.status = "running" => record.container # None
    /\ record = NoRecord \/ record.gen # 0
    /\ \A t \in Thread :
        /\ copy[t].status # "running"
        /\ pc[t] = "idle" => copy[t] = NoRecord
        /\ pc[t] = "writes" => copy[t].gen # 0
    /\ pc[Idler] = "writes" => copy[Idler].suspended
    /\ pc[Expirer] \in StopPC => old[Expirer].gen # 0

\* An apply has a document and a generation, and its container is of that one; a
\* thread that has no container yet, or no longer, holds none.
LocalInv ==
    \A t \in Thread :
        /\ held[t] # None =>
            /\ t # Idler
            /\ pc[t] \in {"start", "drop", "rollback", "remove"} \cup MadePC \cup TakenPC
        /\ Applying(t) => /\ doc[t] # None /\ gen[t] # 0
                          /\ held[t] # None => held[t].gen = gen[t]

\* A container that a record, dockerApps or a thread names was made for the
\* generation named with it.
Labelled(r) == r.container # None => label[r.container] = r.gen
LabelInv ==
    /\ Labelled(record)
    /\ dockerApp # None => label[dockerApp.container] = dockerApp.gen
    /\ \A t \in Thread :
        /\ Labelled(copy[t]) /\ Labelled(old[t])
        /\ held[t] # None => label[held[t].container] = held[t].gen

Base == TypeOK /\ PlaceInv /\ OverlapInv /\ DownInv /\ WholeInv /\ LocalInv /\ LabelInv

----------------------------------------------------------------------------
(* With callbacks overlapping only *)

Apart == overlap \cap Admin = {}
\* An apply has put its container into dockerApps and not yet into the record.
Installed(t) == pc[t] \in DonePC /\ dockerApp = held[t]

\* What a thread acts on is of the generation that the record has, or of the next
\* one if it is an apply; while the app is being ended dockerApps is empty.
GenInv ==
    /\ dockerApp # None => dockerApp.gen = record.gen \/ \E t \in Admin : Installed(t)
    /\ \A t \in Thread :
        /\ Applying(t) => gen[t] = record.gen + 1
        /\ pc[t] \in DonePC => dockerApp = held[t]
        /\ pc[t] = "writes" => copy[t].gen = record.gen
        /\ Stopping(t) /\ held[t] # None => held[t].gen = record.gen /\ dockerApp = None
        /\ pc[t] \in StopPC \ {"withdraw", "take"} /\ t # Idler => dockerApp = None
    /\ pc[Expirer] \in StopPC =>
        gen[Expirer] = record.gen /\ old[Expirer].gen = record.gen

----------------------------------------------------------------------------
(* No call overlapping a callback, and no crash in the middle of a handler *)

\* No container is lost with c: there is none, or Docker refused to remove it.
Safe(c) == c = None \/ docker[c] = "none" \/ c \in orphaned

\* What dockerApps holds exists, and is the container of the record unless an
\* apply is about to record it.
InstalledInv ==
    dockerApp # None =>
        /\ docker[dockerApp.container] # "none"
        /\ (\A t \in Admin : pc[t] \notin DonePC) => dockerApp.container = record.container

\* The container an apply has made exists until it is rolled back; the one before
\* it is kept in the record or was let go.
ApplyInv ==
    \A t \in Admin : Applying(t) =>
        /\ old[t] = record
        /\ held[t] # None => IF pc[t] = "rollback" THEN Safe(held[t].container)
                             ELSE docker[held[t].container] # "none"
        /\ held[t] # None => held[t].container # record.container
        /\ Moved(t) => record.container = None \/ record.container \in orphaned

\* What ends an app lets its container go before it clears the record.
StopInv ==
    \A t \in Admin \cup {Expirer} : Stopping(t) =>
        /\ copy[t].container = None
        /\ pc[t] = "remove" => record.container = held[t].container \/ Safe(record.container)
        /\ pc[t] \in TakenPC =>
            Safe(record.container) /\ (held[t] # None => Safe(held[t].container))

\* A suspension writes back the container of the record, or one that was removed.
SuspendInv ==
    pc[Idler] = "writes" =>
        \/ copy[Idler].container = record.container
        \/ record.container = None /\ dockerApp = None /\ Safe(copy[Idler].container)

KnownInv == EveryContainerIsKnown /\ InstalledInv /\ ApplyInv /\ StopInv /\ SuspendInv

----------------------------------------------------------------------------
(* Nothing overlapping *)

\* The scheduler has the deadline of the record exactly if its document has a TTL.
LeaseSet == ttlArmed = record.gen <=> record.doc \in Leased
\* The app is being ended.
Ending(t) == Stopping(t) /\ pc[t] \in StopPC

\* The deadline is of no later generation than the record, or of the one an apply
\* is about to record; ending an app withdraws it first.
ArmedInv ==
    /\ (\A t \in Admin : pc[t] \notin DonePC \ {"armTtl"}) => ttlArmed <= record.gen
    /\ \A t \in Admin :
        /\ pc[t] = "armTtl" => doc[t] \in Leased
        /\ pc[t] \in DonePC \ {"armTtl"} =>
            (ttlArmed = gen[t] <=> doc[t] \in Leased) /\ ttlArmed <= gen[t]
    /\ \A t \in Thread : Ending(t) /\ pc[t] # "withdraw" => ttlArmed = 0

\* While an app runs its deadline is right, unless it is being ended.
RunningInv ==
    /\ \A t \in Thread : Applying(t) \/ pc[t] = "finish" => record.status # "running"
    /\ up /\ record.status = "running" =>
        /\ (\A t \in Thread : ~Stopping(t)) => LeaseSet
        /\ \A t \in Admin : pc[t] = "withdraw" => LeaseSet
        /\ op[Expirer] = "expire" /\ pc[Expirer] = "check" =>
            (gen[Expirer] = record.gen <=> record.doc \in Leased) /\ ttlArmed = 0

LeaseInv == ArmedInv /\ RunningInv

----------------------------------------------------------------------------
(* Nothing overlapping, and no crash in the middle of a handler *)

\* The directory is the one of the document under way, or of the record.
DirInv ==
    /\ \A t \in Thread : pc[t] \in ApplyPC \ {"move"} => appDir = doc[t]
    /\ (\A t \in Thread : ~Moved(t)) => appDir = record.doc \/ Safe(record.container)
    /\ pc[Idler] = "writes" => copy[Idler].doc = record.doc

\* A backup exists only in the middle of an apply.
BackupInv ==
    backup = None \/ \E t \in Thread : pc[t] \in {"create", "start", "drop", "rollback", "install"}

\* The record says running exactly while dockerApps has its container.
RunsInv ==
    /\ record.status = "running" /\ up
       /\ (\A t \in Thread : Stopping(t) => pc[t] \in {"check", "withdraw", "take"}) =>
        dockerApp # None /\ dockerApp.container = record.container /\ dockerApp.gen = record.gen
    /\ dockerApp # None => record.status = "running" \/ record.suspended \/ \E t \in Admin : Installed(t)

AgreeInv == DirInv /\ BackupInv /\ RunsInv

\* The inductive invariant.
IInv ==
    /\ Base
    /\ Apart => GenInv
    /\ Apart /\ ~CrashAnywhere => KnownInv
    /\ overlap = {} => LeaseInv
    /\ overlap = {} /\ ~CrashAnywhere => AgreeInv

----------------------------------------------------------------------------
(* What the handlers do, for the proofs *)

USE ConstantsAssumption DEF Thread, armVars, daemon, disk, local, memory

\* What the EXCEPT of a suspension makes of a record.
LEMMA SuspendedCopied ==
    ASSUME NEW r \in Record, NEW c, c = [r EXCEPT !.status = "stopped", !.suspended = TRUE]
    PROVE  /\ c \in Record /\ c.status = "stopped" /\ c.suspended
           /\ c.gen = r.gen /\ c.doc = r.doc /\ c.container = r.container
BY DEF Record

\* The fields of records.
LEMMA Fields ==
    ASSUME NEW r \in Record
    PROVE  /\ r.gen \in Gen /\ r.gen \in Nat /\ r.doc \in Document \cup {None}
           /\ r.container \in Container \cup {None} /\ r.suspended \in BOOLEAN
BY DEF Record, Gen

\* The fields of what dockerApps and the handlers hold.
LEMMA HeldFields ==
    ASSUME NEW h \in AppRecord
    PROVE  /\ h.container \in Container /\ h.gen \in Gen /\ h # None
           /\ h = [container |-> h.container, gen |-> h.gen]
BY DEF AppRecord

\* A container and a generation make such a pair.
LEMMA HeldIs ==
    ASSUME NEW c \in Container, NEW g \in Gen, NEW h, h = [container |-> c, gen |-> g]
    PROVE  h \in AppRecord /\ h.container = c /\ h.gen = g /\ h # None
BY DEF AppRecord

\* The empty record.
LEMMA NoFields ==
    /\ NoRecord \in Record /\ NoRecord.status = "none" /\ NoRecord.gen = 0 /\ NoRecord.doc = None
    /\ NoRecord.container = None /\ ~NoRecord.suspended
BY DEF NoRecord, Record, Gen

\* Constants are of the types.
LEMMA Types == NoRecord \in Record /\ 0 \in Gen /\ Gen \subseteq Nat
BY DEF NoRecord, Record, Gen

\* What a handler does, with what it makes of a record or of dockerApps named by
\* its fields: the copy a stop reads,
StopReadsCopy(t) ==
    /\ copy' = [copy EXCEPT ![t] = copy'[t]] /\ record # NoRecord
    /\ copy'[t] \in Record /\ copy'[t].status = "stopped" /\ copy'[t].container = None
    /\ copy'[t].gen = record.gen /\ copy'[t].doc = record.doc /\ copy'[t].suspended = record.suspended

StopReadsDo(t) ==
    /\ pc[t] = "reads"
    /\ UNCHANGED <<overlap, up, record, memory, daemon, disk, gen, doc, old, held, failed>>
    /\ \/ Goto(t, "writes") /\ record.gen = held[t].gen /\ StopReadsCopy(t)
       \/ Goto(t, "finish") /\ copy' = copy /\ (record = NoRecord \/ record.gen # held[t].gen)

\* StopReads, whose EXCEPT stands in the copy, is such a step.
LEMMA StopReadsIs == ASSUME Base, NEW t \in Admin \cup {Expirer}, StopReads(t) PROVE StopReadsDo(t)
<1>1. CASE record # NoRecord /\ record.gen = held[t].gen
  <2>1. PICK c : c = [record EXCEPT !.status = "stopped", !.container = None]
    OBVIOUS
  <2>2. copy' = [copy EXCEPT ![t] = c] /\ Goto(t, "writes")
    BY <1>1, <2>1 DEF StopReads
  <2>3. copy'[t] = c
    BY <2>2 DEF Base, TypeOK, LocalsOK
  <2>4. record \in Record
    BY DEF Base, TypeOK, LocalsOK
  <2>5. StopReadsCopy(t)
    <3>1. /\ c \in Record /\ c.status = "stopped" /\ c.container = None
          /\ c.gen = record.gen /\ c.doc = record.doc /\ c.suspended = record.suspended
      BY <2>1, <2>4 DEF Record
    <3>. QED
      BY <1>1, <2>2, <2>3, <3>1 DEF StopReadsCopy
  <2>. QED
    BY <1>1, <2>2, <2>5 DEF StopReads, StopReadsDo
<1>2. CASE ~(record # NoRecord /\ record.gen = held[t].gen)
  BY <1>2 DEF StopReads, StopReadsDo
<1>. QED
  BY <1>1, <1>2 DEF StopReadsDo

\* the one a suspension reads,
SuspendReadsCopy ==
    /\ copy' = [copy EXCEPT ![Idler] = copy'[Idler]] /\ record # NoRecord
    /\ copy'[Idler] \in Record /\ copy'[Idler].status = "stopped"
    /\ copy'[Idler].container = record.container
    /\ copy'[Idler].gen = record.gen /\ copy'[Idler].doc = record.doc /\ copy'[Idler].suspended

SuspendReadsDo ==
    /\ pc[Idler] = "reads"
    /\ UNCHANGED <<overlap, up, record, memory, daemon, disk, gen, doc, old, held, failed>>
    /\ \/ Goto(Idler, "writes") /\ SuspendReadsCopy
       \/ Goto(Idler, "flag") /\ copy' = copy /\ record = NoRecord

\* SuspendReads is such a step.
LEMMA SuspendReadsIs == ASSUME Base, SuspendReads PROVE SuspendReadsDo
<1>1. CASE record # NoRecord
  <2>1. PICK c : c = [record EXCEPT !.status = "stopped", !.suspended = TRUE]
    OBVIOUS
  <2>2. copy' = [copy EXCEPT ![Idler] = c] /\ Goto(Idler, "writes")
    BY <1>1, <2>1 DEF SuspendReads
  <2>3. copy'[Idler] = c
    BY <2>2 DEF Base, TypeOK, LocalsOK
  <2>4. record \in Record
    BY DEF Base, TypeOK, LocalsOK
  <2>5. SuspendReadsCopy
    BY <1>1, <2>1, <2>2, <2>3, <2>4, SuspendedCopied DEF SuspendReadsCopy
  <2>. QED
    BY <1>1, <2>2, <2>5 DEF SuspendReads, SuspendReadsDo
<1>2. CASE record = NoRecord
  BY <1>2 DEF SuspendReads, SuspendReadsDo
<1>. QED
  BY <1>1, <1>2 DEF SuspendReadsDo

\* the record that an expiry or a boot ends,
Ended(r, s) ==
    /\ record' \in Record /\ record'.status = s /\ record'.container = None
    /\ record'.gen = r.gen /\ record'.doc = r.doc /\ record'.suspended = r.suspended

\* The EXCEPT of an expiry or a boot makes such a record.
LEMMA EndedIs ==
    ASSUME NEW r \in Record, NEW s \in {"failed", "expired"},
           record' = [r EXCEPT !.status = s, !.container = None]
    PROVE  Ended(r, s)
<1>1. PICK c : c = [r EXCEPT !.status = s, !.container = None]
  OBVIOUS
<1>2. /\ c \in Record /\ c.status = s /\ c.container = None
      /\ c.gen = r.gen /\ c.doc = r.doc /\ c.suspended = r.suspended
  BY <1>1 DEF Record
<1>. QED
  BY <1>1, <1>2 DEF Ended

\* the last step of a stop, a removal or an expiry,
FinishesDo(t) ==
    /\ pc[t] = "finish" /\ Leave(t) /\ UNCHANGED <<overlap, up, memory, daemon, disk>>
    /\ \/ op[t] = "stop" /\ record' = record
       \/ op[t] = "remove" /\ record' \in {record, NoRecord}
       \/ op[t] = "expire" /\ \E s \in {"failed", "expired"} : Ended(old[t], s)

\* Finishes is such a step, since of the operations only these three come to it.
LEMMA FinishesIs == ASSUME Base, NEW t \in Admin \cup {Expirer}, Finishes(t) PROVE FinishesDo(t)
<1>1. op[t] \in {"stop", "remove", "expire"}
  BY DEF Finishes, Base, PlaceInv, ApplyPC, MadePC, StopPC
<1>2. CASE op[t] = "expire"
  <2>1. PICK s \in {"failed", "expired"} : record' = [old[t] EXCEPT !.status = s, !.container = None]
    BY <1>2 DEF Finishes
  <2>2. old[t] \in Record
    BY DEF Base, TypeOK, LocalsOK
  <2>3. Ended(old[t], s)
    BY <2>1, <2>2, EndedIs
  <2>. QED
    BY <1>2, <2>3 DEF Finishes, FinishesDo
<1>3. CASE op[t] \in {"stop", "remove"}
  BY <1>3 DEF Finishes, FinishesDo
<1>. QED
  BY <1>1, <1>2, <1>3 DEF FinishesDo

\* a boot, which finds nothing under way,
Quiet == dockerApp = None /\ ttlArmed = 0 /\ \A u \in Thread : pc[u] = "idle" /\ op[u] = "none"

\* A server that is down has lost its threads and its maps.
LEMMA QuietIs == ASSUME Base, ~up PROVE Quiet
BY DEF Base, DownInv, PlaceInv, Busy, Quiet

BootFailsDo ==
    /\ Quiet
    /\ Restorable /\ up' = TRUE /\ UNCHANGED <<overlap, memory, docker, label, disk, pc, op, local>>
    /\ Ended(record, "failed") /\ orphaned' = orphaned \cup {record.container}

\* A boot that gives the app up is such a step.
LEMMA BootFailsIs == ASSUME Base, BootFails PROVE BootFailsDo
<1>1. record \in Record
  BY DEF Base, TypeOK, LocalsOK
<1>2. Quiet
  BY QuietIs DEF BootFails, Restorable
<1>. QED
  BY <1>1, <1>2, EndedIs DEF BootFails, BootFailsDo

BootExpiresDo ==
    /\ Quiet
    /\ Restorable /\ up' = TRUE /\ UNCHANGED <<overlap, memory, backup, pc, op, local>>
    /\ Ended(record, "expired") /\ appDir' = None
    /\ Removed(record.container) \/ NotRemoved(record.container)

\* A boot after the deadline is such a step.
LEMMA BootExpiresIs == ASSUME Base, BootExpires PROVE BootExpiresDo
<1>1. record \in Record
  BY DEF Base, TypeOK, LocalsOK
<1>2. Quiet
  BY QuietIs DEF BootExpires, Restorable
<1>. QED
  BY <1>1, <1>2, EndedIs DEF BootExpires, BootExpiresDo

BootStartsDo ==
    /\ Quiet
    /\ Restorable /\ up' = TRUE
    /\ docker[record.container] = "running" \/ (docker[record.container] = "exited" /\ appDir # None)
    /\ docker' = [docker EXCEPT ![record.container] = "running"]
    /\ dockerApp' \in AppRecord /\ dockerApp'.container = record.container /\ dockerApp'.gen = record.gen
    /\ ttlArmed' = IF record.doc \in Leased THEN record.gen ELSE 0
    /\ UNCHANGED <<overlap, record, label, orphaned, disk, pc, op, local>>

\* A boot that finds the container or starts it is such a step.
LEMMA BootStartsIs == ASSUME Base, BootStarts PROVE BootStartsDo
<1>1. record.container \in Container /\ record.gen \in Gen
  BY Fields DEF Base, TypeOK, BootStarts, Restorable
<1>2. dockerApp' \in AppRecord /\ dockerApp'.container = record.container /\ dockerApp'.gen = record.gen
  BY <1>1, HeldIs DEF BootStarts
<1>3. Quiet
  BY QuietIs DEF BootStarts, Restorable
<1>. QED
  BY <1>2, <1>3 DEF BootStarts, Becomes, BootStartsDo

\* a container nobody knows, which an apply makes,
Fresh(c) ==
    /\ c \in Container /\ docker[c] = "none" /\ c \notin orphaned /\ record.container # c
    /\ dockerApp # None => dockerApp.container # c
    /\ \A t \in Thread :
        /\ copy[t].container # c /\ old[t].container # c
        /\ held[t] # None => held[t].container # c

\* What docker create returns is such a container.
LEMMA FreshIs == ASSUME Unused # {} PROVE Fresh(NewContainer)
<1>1. NewContainer \in Unused
  BY DEF NewContainer
<1>. QED
  BY <1>1 DEF Unused, Known, Fresh

CreatesDo(t) ==
    /\ pc[t] = "create" /\ Goto(t, "start")
    /\ UNCHANGED <<overlap, up, record, memory, orphaned, disk, gen, doc, old, copy, failed>>
    /\ held' = [held EXCEPT ![t] = held'[t]] /\ held'[t] \in AppRecord /\ held'[t].gen = gen[t]
    /\ Fresh(held'[t].container)
    /\ docker' = [docker EXCEPT ![held'[t].container] = "created"]
    /\ label' = [label EXCEPT ![held'[t].container] = gen[t]]

\* Creates is such a step; it holds the container it chose.
LEMMA CreatesIs == ASSUME Base, NEW t \in Admin, Creates(t) PROVE CreatesDo(t)
<1>1. Fresh(NewContainer) /\ NewContainer \in Container
  BY FreshIs DEF Creates, Fresh
<1>2. PICK h : h = [container |-> NewContainer, gen |-> gen[t]]
  OBVIOUS
<1>3. h \in AppRecord /\ h.container = NewContainer /\ h.gen = gen[t]
  BY <1>1, <1>2, HeldIs DEF Base, TypeOK, LocalsOK
<1>4. held' = [held EXCEPT ![t] = h]
  BY <1>2 DEF Creates
<1>5. held'[t] = h
  BY <1>4 DEF Base, TypeOK, LocalsOK
<1>. QED
  BY <1>1, <1>3, <1>4, <1>5 DEF Creates, CreatesDo

CreateFailsDo(t) ==
    /\ pc[t] = "create" /\ GoOn(t, "rollback") /\ UNCHANGED <<overlap, up, record, memory, disk>>
    /\ \/ UNCHANGED daemon
       \/ \E c \in Container : /\ Fresh(c) /\ docker' = [docker EXCEPT ![c] = "created"]
              /\ label' = [label EXCEPT ![c] = gen[t]] /\ orphaned' = orphaned \cup {c}

\* CreateFails is such a step.
LEMMA CreateFailsIs == ASSUME Base, NEW t \in Admin, CreateFails(t) PROVE CreateFailsDo(t)
BY FreshIs DEF CreateFails, Fresh, CreateFailsDo

\* and what ends an app taking its container out of dockerApps.
TakesDo(t) ==
    /\ pc[t] = "take" /\ Goto(t, "remove") /\ dockerApp' = None
    /\ UNCHANGED <<overlap, up, record, idleApp, armVars, daemon, disk, gen, doc, old, copy, failed>>
    /\ held' = [held EXCEPT ![t] = held'[t]] /\ held'[t] \in AppRecord
    /\ \/ dockerApp # None /\ held'[t] = dockerApp
       \/ /\ dockerApp = None /\ record.container # None
          /\ held'[t].container = record.container /\ held'[t].gen = record.gen

\* Takes is such a step, wherever it finds the container.
LEMMA TakesIs == ASSUME Base, NEW t \in Admin \cup {Expirer}, Takes(t) PROVE TakesDo(t)
<1>1. CASE dockerApp # None
  <2>1. held' = [held EXCEPT ![t] = dockerApp]
    BY <1>1 DEF Takes
  <2>2. held'[t] = dockerApp
    BY <2>1 DEF Base, TypeOK, LocalsOK
  <2>. QED
    BY <1>1, <2>1, <2>2 DEF Takes, Base, TypeOK, LocalsOK, TakesDo
<1>2. CASE dockerApp = None
  <2>1. PICK h : h = [container |-> record.container, gen |-> record.gen]
    OBVIOUS
  <2>2. held' = [held EXCEPT ![t] = h]
    BY <1>2, <2>1 DEF Takes
  <2>3. record.container \in Container /\ record.gen \in Gen
    BY <1>2, Fields DEF Takes, Base, TypeOK
  <2>4. h \in AppRecord /\ h.container = record.container /\ h.gen = record.gen
    BY <2>1, <2>3, HeldIs
  <2>5. held'[t] = h
    BY <2>2 DEF Base, TypeOK, LocalsOK
  <2>. QED
    BY <1>2, <2>2, <2>3, <2>4, <2>5 DEF Takes, TakesDo
<1>. QED
  BY <1>1, <1>2 DEF TakesDo

\* With whom a thread is under way.
OneAdmin == \A t \in Admin, u \in Thread : t # u /\ pc[t] # "idle" => pc[u] = "idle"
OneThread == \A t, u \in Thread : t # u /\ pc[t] # "idle" => pc[u] = "idle"

\* Where at most callbacks overlap, a call runs alone.
LEMMA Company == ASSUME Base, Apart PROVE OneAdmin
BY DEF Base, OverlapInv, Apart, Busy, OneAdmin

\* Where nothing overlaps, every thread does.
LEMMA Alone == ASSUME Base, overlap = {} PROVE OneThread
BY DEF Base, OverlapInv, Busy, OneThread

\* The steps most handlers end with keep the local variables of their types.
LEMMA LeaveTyped == ASSUME LocalsOK, NEW t \in Thread, Leave(t) PROVE LocalsOK'
BY Types DEF LocalsOK, Leave, PC

\* A step that goes on to where a container is needed has to have one.
LEMMA GoOnTyped ==
    ASSUME LocalsOK, NEW t \in Thread, NEW l \in PC, GoOn(t, l),
           l \in {"start", "drop", "install", "armTtl", "armIdle", "remember", "record", "remove",
                  "files", "reads"}
              /\ t # Idler => held[t] # None
    PROVE  LocalsOK'
BY DEF LocalsOK, GoOn, Goto

----------------------------------------------------------------------------
(* Every step keeps the invariant *)

\* Base is inductive on its own.
LEMMA BaseStep ==
    ASSUME Base, [Next]_vars
    PROVE  Base'
<1>1. ASSUME NEW t \in Admin, Apply(t) PROVE Base'
  <2>1. LocalInv'
    BY <1>1, Fields
       DEF Apply, Begin, MayBegin, Busy, Base, TypeOK, LocalsOK, LocalInv, Applying, MadePC,
           TakenPC
  <2>2. OverlapInv' /\ DownInv' /\ WholeInv' /\ PlaceInv' /\ LabelInv'
    BY <1>1
       DEF Apply, Begin, MayBegin, Busy, OverlapInv, DownInv, Base, TypeOK, LocalsOK, WholeInv,
           PlaceInv, ApplyPC, LabelInv, Labelled
  <2>3. TypeOK'
    <3>1. record.gen + 1 \in Gen /\ record \in Record
      BY <1>1, Fields DEF Apply, Base, TypeOK, Gen
    <3>2. LocalsOK'
      BY <1>1, <3>1 DEF Apply, Begin, Base, TypeOK, LocalsOK, PC
    <3>. QED
      BY <1>1, <3>2 DEF Apply, Base, TypeOK
  <2>. QED
    BY <2>1, <2>2, <2>3 DEF Base
<1>2. ASSUME NEW t \in Admin, ApplyMoves(t) PROVE Base'
  <2>1. LabelInv'
    BY <1>2 DEF ApplyMoves, GoOn, Goto, Base, TypeOK, LocalsOK, LabelInv, Labelled
  <2>2. WholeInv' /\ PlaceInv' /\ OverlapInv' /\ DownInv' /\ LocalInv'
    BY <1>2
       DEF ApplyMoves, GoOn, Goto, Base, TypeOK, LocalsOK, WholeInv, PlaceInv, ApplyPC, TakenPC,
           StopPC, OverlapInv, Busy, DownInv, LocalInv, Applying, MadePC
  <2>3. TypeOK'
    <3>1. LocalsOK'
      BY <1>2, LeaveTyped, GoOnTyped DEF ApplyMoves, Base, TypeOK, PC
    <3>. QED
      BY <1>2, <3>1, Types, Fields
         DEF ApplyMoves, GoOn, Goto, Base, TypeOK, LocalsOK, IdleApp, AppRecord
  <2>. QED
    BY <2>1, <2>2, <2>3 DEF Base
<1>3. ASSUME NEW t \in Admin, Creates(t) PROVE Base'
  <2>1. CreatesDo(t)
    BY <1>3, CreatesIs
  <2>2. LabelInv'
    BY <1>3, <2>1 DEF CreatesDo, Fresh, Goto, Base, TypeOK, LocalsOK, LabelInv, Labelled
  <2>3. WholeInv' /\ PlaceInv' /\ OverlapInv' /\ DownInv' /\ LocalInv'
    BY <1>3, <2>1
       DEF CreatesDo, Fresh, Goto, Base, TypeOK, LocalsOK, WholeInv, PlaceInv, ApplyPC, TakenPC,
           StopPC, OverlapInv, Busy, DownInv, LocalInv, Applying
  <2>4. TypeOK'
    <3>1. LocalsOK'
      BY <1>3, <2>1 DEF CreatesDo, Fresh, Goto, Base, TypeOK, LocalsOK, PC
    <3>. QED
      BY <1>3, <2>1, <3>1 DEF CreatesDo, Fresh, Goto, Base, TypeOK, LocalsOK
  <2>. QED
    BY <2>2, <2>3, <2>4 DEF Base
<1>4. ASSUME NEW t \in Admin, CreateFails(t) PROVE Base'
  <2>1. CreateFailsDo(t)
    BY <1>4, CreateFailsIs
  <2>2. LocalInv'
    BY <1>4, <2>1
       DEF CreateFailsDo, Fresh, GoOn, Goto, Base, TypeOK, LocalsOK, LocalInv, Applying
  <2>3. WholeInv' /\ PlaceInv' /\ OverlapInv' /\ DownInv'
    BY <1>4, <2>1
       DEF CreateFailsDo, Fresh, GoOn, Goto, Base, TypeOK, LocalsOK, WholeInv, PlaceInv, ApplyPC,
           TakenPC, StopPC, OverlapInv, Busy, DownInv
  <2>4. TypeOK'
    <3>1. LocalsOK'
      BY <1>4, <2>1, LeaveTyped, GoOnTyped DEF CreateFailsDo, Fresh, Base, TypeOK, PC
    <3>. QED
      BY <1>4, <2>1, <3>1 DEF CreateFailsDo, Fresh, GoOn, Goto, Base, TypeOK, LocalsOK
  <2>5. LabelInv'
    <3>1. CASE UNCHANGED daemon
      BY <1>4, <2>1, <3>1 DEF CreateFailsDo, GoOn, LabelInv, Labelled, Base
    <3>2. ASSUME NEW c \in Container, Fresh(c), label' = [label EXCEPT ![c] = gen[t]] PROVE LabelInv'
      BY <1>4, <2>1, <3>2
         DEF CreateFailsDo, GoOn, LabelInv, Labelled, Base, Fresh, TypeOK, LocalsOK
    <3>. QED
      BY <1>4, <2>1, <3>1, <3>2 DEF CreateFailsDo
  <2>. QED
    BY <2>2, <2>3, <2>4, <2>5 DEF Base
<1>5. ASSUME NEW t \in Admin, Starts(t) PROVE Base'
  <2>1. PlaceInv'
    BY <1>5 DEF Starts, Becomes, GoOn, Goto, Base, PlaceInv, MadePC, ApplyPC, TakenPC, StopPC
  <2>2. WholeInv' /\ LocalInv' /\ OverlapInv' /\ DownInv' /\ LabelInv'
    BY <1>5
       DEF Starts, Becomes, GoOn, Goto, Base, TypeOK, LocalsOK, WholeInv, LocalInv, Applying,
           MadePC, OverlapInv, Busy, DownInv, LabelInv, Labelled
  <2>3. TypeOK'
    <3>1. LocalsOK'
      BY <1>5, LeaveTyped, GoOnTyped DEF Starts, Becomes, Base, TypeOK, LocalsOK, PC
    <3>. QED
      BY <1>5, <3>1 DEF Starts, Becomes, GoOn, Goto, Base, TypeOK, LocalsOK, IdleApp, AppRecord
  <2>. QED
    BY <2>1, <2>2, <2>3 DEF Base
<1>6. ASSUME NEW t \in Admin, StartFails(t) PROVE Base'
  <2>1. LabelInv'
    BY <1>6 DEF StartFails, Becomes, GoOn, Goto, Base, TypeOK, LocalsOK, LabelInv, Labelled
  <2>2. WholeInv' /\ PlaceInv' /\ OverlapInv' /\ DownInv' /\ LocalInv'
    BY <1>6
       DEF StartFails, Becomes, GoOn, Goto, Base, TypeOK, LocalsOK, WholeInv, PlaceInv, ApplyPC,
           TakenPC, StopPC, OverlapInv, Busy, DownInv, LocalInv, Applying
  <2>3. TypeOK'
    <3>1. LocalsOK'
      BY <1>6, LeaveTyped, GoOnTyped DEF StartFails, Becomes, Base, TypeOK, LocalsOK, PC
    <3>. QED
      BY <1>6, <3>1
         DEF StartFails, Becomes, GoOn, Goto, Base, TypeOK, LocalsOK, IdleApp, AppRecord
  <2>. QED
    BY <2>1, <2>2, <2>3 DEF Base
<1>7. ASSUME NEW t \in Admin, Drops(t) PROVE Base'
  <2>1. LabelInv'
    BY <1>7 DEF Drops, Becomes, GoOn, Goto, Base, TypeOK, LocalsOK, LabelInv, Labelled
  <2>2. WholeInv' /\ PlaceInv' /\ OverlapInv' /\ DownInv' /\ LocalInv'
    BY <1>7
       DEF Drops, Becomes, GoOn, Goto, Base, TypeOK, LocalsOK, WholeInv, PlaceInv, ApplyPC,
           TakenPC, StopPC, OverlapInv, Busy, DownInv, LocalInv, Applying
  <2>3. TypeOK'
    <3>1. LocalsOK'
      BY <1>7, LeaveTyped, GoOnTyped DEF Drops, Becomes, Base, TypeOK, PC
    <3>. QED
      BY <1>7, <3>1 DEF Drops, Becomes, GoOn, Goto, Base, TypeOK, LocalsOK, IdleApp, AppRecord
  <2>. QED
    BY <2>1, <2>2, <2>3 DEF Base
<1>8. ASSUME NEW t \in Admin, RollsBack(t) PROVE Base'
  <2>1. PlaceInv' /\ LabelInv' /\ OverlapInv' /\ DownInv' /\ WholeInv' /\ LocalInv'
    BY <1>8, NoFields
       DEF RollsBack, Leave, Base, TypeOK, LocalsOK, PlaceInv, LabelInv, Labelled, OverlapInv,
           Busy, DownInv, WholeInv, LocalInv, Applying
  <2>2. TypeOK'
    <3>1. LocalsOK'
      BY <1>8, LeaveTyped, GoOnTyped DEF RollsBack, Base, TypeOK, PC
    <3>. QED
      BY <1>8, <3>1 DEF RollsBack, Leave, Base, TypeOK
  <2>. QED
    BY <2>1, <2>2 DEF Base
<1>9. ASSUME NEW t \in Admin, Installs(t) PROVE Base'
  <2>1. PlaceInv'
    BY <1>9 DEF Installs, GoOn, Goto, Base, PlaceInv, MadePC, ApplyPC, TakenPC, StopPC
  <2>2. WholeInv' /\ LocalInv' /\ OverlapInv' /\ DownInv' /\ LabelInv'
    BY <1>9
       DEF Installs, GoOn, Goto, Base, TypeOK, LocalsOK, WholeInv, LocalInv, Applying, MadePC,
           OverlapInv, Busy, DownInv, LabelInv, Labelled
  <2>3. TypeOK'
    <3>1. LocalsOK'
      BY <1>9, LeaveTyped, GoOnTyped DEF Installs, Base, TypeOK, LocalsOK, PC
    <3>. QED
      BY <1>9, <3>1 DEF Installs, GoOn, Goto, Base, TypeOK, LocalsOK
  <2>. QED
    BY <2>1, <2>2, <2>3 DEF Base
<1>10. ASSUME NEW t \in Admin, ArmsTtl(t) PROVE Base'
  <2>1. PlaceInv'
    BY <1>10 DEF ArmsTtl, GoOn, Goto, Base, PlaceInv, MadePC, ApplyPC, TakenPC, StopPC
  <2>2. WholeInv' /\ LocalInv' /\ OverlapInv' /\ DownInv' /\ LabelInv'
    BY <1>10
       DEF ArmsTtl, GoOn, Goto, Base, TypeOK, LocalsOK, WholeInv, LocalInv, Applying, MadePC,
           OverlapInv, Busy, DownInv, LabelInv, Labelled
  <2>3. TypeOK'
    <3>1. LocalsOK'
      BY <1>10, LeaveTyped, GoOnTyped DEF ArmsTtl, Base, TypeOK, LocalsOK, PC
    <3>. QED
      BY <1>10, <3>1 DEF ArmsTtl, GoOn, Goto, Base, TypeOK, LocalsOK
  <2>. QED
    BY <2>1, <2>2, <2>3 DEF Base
<1>11. ASSUME NEW t \in Admin, ArmsIdle(t) PROVE Base'
  <2>1. PlaceInv'
    BY <1>11 DEF ArmsIdle, GoOn, Goto, Base, PlaceInv, MadePC, ApplyPC, TakenPC, StopPC
  <2>2. WholeInv' /\ LocalInv' /\ OverlapInv' /\ DownInv' /\ LabelInv'
    BY <1>11
       DEF ArmsIdle, GoOn, Goto, Base, TypeOK, LocalsOK, WholeInv, LocalInv, Applying, MadePC,
           OverlapInv, Busy, DownInv, LabelInv, Labelled
  <2>3. TypeOK'
    <3>1. LocalsOK'
      BY <1>11, LeaveTyped, GoOnTyped DEF ArmsIdle, Base, TypeOK, LocalsOK, PC
    <3>. QED
      BY <1>11, <3>1 DEF ArmsIdle, GoOn, Goto, Base, TypeOK, LocalsOK
  <2>. QED
    BY <2>1, <2>2, <2>3 DEF Base
<1>12. ASSUME NEW t \in Admin, Remembers(t) PROVE Base'
  <2>1. PlaceInv'
    BY <1>12 DEF Remembers, GoOn, Goto, Base, PlaceInv, MadePC, ApplyPC, TakenPC, StopPC
  <2>2. WholeInv' /\ LocalInv' /\ OverlapInv' /\ DownInv' /\ LabelInv'
    BY <1>12
       DEF Remembers, GoOn, Goto, Base, TypeOK, LocalsOK, WholeInv, LocalInv, Applying, MadePC,
           OverlapInv, Busy, DownInv, LabelInv, Labelled
  <2>3. TypeOK'
    <3>1. LocalsOK'
      BY <1>12, LeaveTyped, GoOnTyped DEF Remembers, Base, TypeOK, LocalsOK, PC
    <3>. QED
      BY <1>12, <3>1 DEF Remembers, GoOn, Goto, Base, TypeOK, LocalsOK, IdleApp, AppRecord
  <2>. QED
    BY <2>1, <2>2, <2>3 DEF Base
<1>13. ASSUME NEW t \in Admin, Records(t) PROVE Base'
  <2>1. PlaceInv' /\ OverlapInv' /\ DownInv' /\ LocalInv' /\ LabelInv'
    BY <1>13, NoFields
       DEF Records, Leave, Base, TypeOK, LocalsOK, PlaceInv, OverlapInv, Busy, DownInv, LocalInv,
           Applying, LabelInv, Labelled, TakenPC, StopPC
  <2>2. TypeOK'
    <3>1. held[t] \in AppRecord /\ gen[t] \in Gen /\ doc[t] \in Document \cup {None}
      BY <1>13 DEF Base, TypeOK, LocalsOK, Records
    <3>2. held[t].container \in Container
      BY <1>13, <3>1, HeldFields
    <3>3. record' \in Record
      BY <1>13, <3>1, <3>2 DEF Records, Record
    <3>4. LocalsOK'
      BY <1>13, LeaveTyped DEF Records, Base, TypeOK
    <3>. QED
      BY <1>13, <3>3, <3>4 DEF Records, Base, TypeOK
  <2>3. WholeInv'
    <3>1. held[t] \in AppRecord /\ gen[t] # 0
      BY <1>13 DEF Base, TypeOK, LocalsOK, Records, PlaceInv, TakenPC, StopPC, LocalInv, Applying
    <3>2. held[t].container # None
      BY <1>13, <3>1, HeldFields
    <3>3. record'.container # None /\ record'.gen # 0
      BY <1>13, <3>1, <3>2 DEF Records
    <3>. QED
      BY <1>13, <3>3, NoFields DEF Records, Leave, Base, TypeOK, LocalsOK, WholeInv
  <2>. QED
    BY <2>1, <2>2, <2>3 DEF Base
<1>14. ASSUME NEW t \in Admin, Stop(t) PROVE Base'
  <2>1. LabelInv'
    BY <1>14 DEF Stop, Begin, MayBegin, Busy, Base, TypeOK, LocalsOK, LabelInv, Labelled
  <2>2. OverlapInv' /\ DownInv' /\ WholeInv' /\ PlaceInv' /\ LocalInv'
    BY <1>14
       DEF Stop, Begin, MayBegin, Busy, OverlapInv, DownInv, Base, TypeOK, LocalsOK, WholeInv,
           PlaceInv, StopPC, LocalInv, Applying, MadePC, TakenPC
  <2>3. TypeOK'
    <3>1. LocalsOK'
      BY <1>14 DEF Stop, Begin, MayBegin, Busy, Base, TypeOK, LocalsOK, PC
    <3>. QED
      BY <1>14, <3>1 DEF Stop, Begin, MayBegin, Busy, Base, TypeOK
  <2>. QED
    BY <2>1, <2>2, <2>3 DEF Base
<1>15. ASSUME NEW t \in Admin, Remove(t) PROVE Base'
  <2>1. LabelInv'
    BY <1>15 DEF Remove, Begin, MayBegin, Busy, Base, TypeOK, LocalsOK, LabelInv, Labelled
  <2>2. OverlapInv' /\ DownInv' /\ WholeInv' /\ PlaceInv' /\ LocalInv'
    BY <1>15
       DEF Remove, Begin, MayBegin, Busy, OverlapInv, DownInv, Base, TypeOK, LocalsOK, WholeInv,
           PlaceInv, StopPC, LocalInv, Applying, MadePC, TakenPC
  <2>3. TypeOK'
    <3>1. LocalsOK'
      BY <1>15 DEF Remove, Begin, MayBegin, Busy, Base, TypeOK, LocalsOK, PC
    <3>. QED
      BY <1>15, <3>1 DEF Remove, Begin, MayBegin, Busy, Base, TypeOK
  <2>. QED
    BY <2>1, <2>2, <2>3 DEF Base
<1>16. ASSUME NEW t \in Admin \cup {Expirer}, Withdraws(t) PROVE Base'
  <2>1. LabelInv'
    BY <1>16 DEF Withdraws, GoOn, Goto, Base, TypeOK, LocalsOK, LabelInv, Labelled
  <2>2. PlaceInv' /\ OverlapInv' /\ DownInv' /\ WholeInv' /\ LocalInv'
    BY <1>16
       DEF Withdraws, GoOn, Goto, Base, PlaceInv, MadePC, ApplyPC, StopPC, TypeOK, LocalsOK,
           OverlapInv, Busy, DownInv, WholeInv, LocalInv, Applying, TakenPC
  <2>3. TypeOK'
    <3>1. LocalsOK'
      BY <1>16, LeaveTyped, GoOnTyped DEF Withdraws, Base, TypeOK, PC
    <3>. QED
      BY <1>16, <3>1, Types, Fields
         DEF Withdraws, GoOn, Goto, Base, TypeOK, LocalsOK, IdleApp, AppRecord
  <2>. QED
    BY <2>1, <2>2, <2>3 DEF Base
<1>17. ASSUME NEW t \in Admin \cup {Expirer}, Takes(t) PROVE Base'
  <2>1. TakesDo(t)
    BY <1>17, TakesIs
  <2>2. LocalInv'
    BY <1>17, <2>1
       DEF TakesDo, Goto, Base, TypeOK, LocalsOK, PlaceInv, LocalInv, Applying, MadePC, ApplyPC
  <2>3. PlaceInv' /\ OverlapInv' /\ DownInv' /\ WholeInv' /\ LabelInv'
    BY <1>17, <2>1
       DEF TakesDo, Goto, Base, PlaceInv, MadePC, ApplyPC, StopPC, TypeOK, LocalsOK, OverlapInv,
           Busy, DownInv, WholeInv, LabelInv, Labelled
  <2>4. TypeOK'
    <3>1. LocalsOK'
      BY <1>17, <2>1 DEF TakesDo, Goto, Base, TypeOK, LocalsOK, PC
    <3>. QED
      BY <1>17, <2>1, <3>1 DEF TakesDo, Goto, Base, TypeOK
  <2>. QED
    BY <2>2, <2>3, <2>4 DEF Base
<1>18. ASSUME NEW t \in Admin \cup {Expirer}, NothingToTake(t) PROVE Base'
  <2>1. OverlapInv' /\ DownInv' /\ WholeInv' /\ LocalInv'
    BY <1>18, NoFields
       DEF NothingToTake, Leave, GoOn, Goto, Base, TypeOK, LocalsOK, OverlapInv, Busy, DownInv,
           PlaceInv, WholeInv, LocalInv, Applying, TakenPC
  <2>2. LabelInv' /\ PlaceInv'
    BY <1>18, NoFields
       DEF NothingToTake, Leave, GoOn, Goto, Base, TypeOK, LocalsOK, LabelInv, Labelled,
           PlaceInv, MadePC, ApplyPC, TakenPC, StopPC
  <2>3. TypeOK'
    <3>1. LocalsOK'
      BY <1>18, LeaveTyped, GoOnTyped DEF NothingToTake, Base, TypeOK, PC
    <3>. QED
      BY <1>18, <3>1 DEF NothingToTake, Leave, GoOn, Goto, Base, TypeOK
  <2>. QED
    BY <2>1, <2>2, <2>3 DEF Base
<1>19. ASSUME NEW t \in Admin \cup {Expirer}, RemovesContainer(t) PROVE Base'
  <2>1. LocalInv' /\ OverlapInv' /\ DownInv' /\ WholeInv'
    BY <1>19
       DEF RemovesContainer, Removed, NotRemoved, Becomes, Goto, Base, LocalInv, Applying,
           TakenPC, TypeOK, LocalsOK, OverlapInv, Busy, DownInv, PlaceInv, WholeInv
  <2>2. LabelInv' /\ PlaceInv'
    BY <1>19
       DEF RemovesContainer, Removed, NotRemoved, Becomes, Goto, Base, TypeOK, LocalsOK,
           LabelInv, Labelled, PlaceInv, MadePC, ApplyPC, TakenPC, StopPC
  <2>3. TypeOK'
    <3>1. failed' \in [Thread -> BOOLEAN]
      BY <1>19, Zenon DEF RemovesContainer, Base, TypeOK, LocalsOK
    <3>2. UNCHANGED <<op, gen, doc, old, copy, held>> /\ pc[t] = "remove"
      BY <1>19, Zenon DEF RemovesContainer, Goto
    <3>3. \E l \in {"reads", "files"} : pc' = [pc EXCEPT ![t] = l]
      BY <1>19, Zenon DEF RemovesContainer, Goto
    <3>4. LocalsOK'
      BY <1>19, <3>1, <3>2, <3>3 DEF Base, TypeOK, LocalsOK, PC
    <3>5. held[t] # None /\ held[t] \in AppRecord
      BY <1>19, <3>2 DEF Base, TypeOK, LocalsOK
    <3>. QED
      BY <1>19, <3>4, <3>5, HeldFields
         DEF RemovesContainer, Removed, NotRemoved, Becomes, Base, TypeOK
  <2>. QED
    BY <2>1, <2>2, <2>3 DEF Base
<1>20. ASSUME NEW t \in Admin \cup {Expirer}, RemovesFiles(t) PROVE Base'
  <2>1. PlaceInv'
    BY <1>20 DEF RemovesFiles, GoOn, Goto, Base, PlaceInv, MadePC, ApplyPC, TakenPC, StopPC
  <2>2. LocalInv' /\ OverlapInv' /\ DownInv' /\ WholeInv' /\ LabelInv'
    BY <1>20
       DEF RemovesFiles, GoOn, Goto, Base, LocalInv, Applying, TakenPC, TypeOK, LocalsOK,
           OverlapInv, Busy, DownInv, PlaceInv, WholeInv, LabelInv, Labelled
  <2>3. TypeOK'
    <3>1. LocalsOK'
      BY <1>20, LeaveTyped, GoOnTyped DEF RemovesFiles, Base, TypeOK, LocalsOK, PC
    <3>. QED
      BY <1>20, <3>1 DEF RemovesFiles, GoOn, Goto, Base, TypeOK
  <2>. QED
    BY <2>1, <2>2, <2>3 DEF Base
<1>21. ASSUME NEW t \in Admin \cup {Expirer}, StopReads(t) PROVE Base'
  <2>1. StopReadsDo(t)
    BY <1>21, StopReadsIs
  <2>2. PlaceInv'
    BY <1>21, <2>1
       DEF StopReadsDo, StopReadsCopy, Goto, Base, TypeOK, LocalsOK, PlaceInv, MadePC, ApplyPC,
           TakenPC, StopPC
  <2>3. OverlapInv' /\ DownInv'
    BY <1>21, <2>1
       DEF StopReadsDo, StopReadsCopy, Goto, Base, TypeOK, LocalsOK, OverlapInv, Busy, DownInv
  <2>4. WholeInv'
    BY <1>21, <2>1
       DEF StopReadsDo, StopReadsCopy, Goto, Base, TypeOK, LocalsOK, PlaceInv, WholeInv
  <2>5. LabelInv' /\ LocalInv'
    BY <1>21, <2>1
       DEF StopReadsDo, StopReadsCopy, Goto, Base, TypeOK, LocalsOK, LabelInv, Labelled,
           LocalInv, Applying, TakenPC
  <2>6. TypeOK'
    <3>1. LocalsOK'
      BY <1>21, <2>1 DEF StopReadsDo, StopReadsCopy, Goto, Base, TypeOK, LocalsOK, PC
    <3>. QED
      BY <1>21, <2>1, <3>1 DEF StopReadsDo, StopReadsCopy, Goto, Base, TypeOK
  <2>. QED
    BY <2>2, <2>3, <2>4, <2>5, <2>6 DEF Base
<1>22. ASSUME NEW t \in Admin \cup {Expirer}, StopWrites(t) PROVE Base'
  <2>1. PlaceInv'
    BY <1>22 DEF StopWrites, GoOn, Goto, Base, PlaceInv, MadePC, ApplyPC, TakenPC, StopPC
  <2>2. LocalInv' /\ OverlapInv' /\ DownInv' /\ WholeInv' /\ LabelInv'
    BY <1>22
       DEF StopWrites, GoOn, Goto, Base, LocalInv, Applying, TakenPC, TypeOK, LocalsOK,
           OverlapInv, Busy, DownInv, PlaceInv, WholeInv, LabelInv, Labelled
  <2>3. TypeOK'
    <3>1. LocalsOK'
      BY <1>22, LeaveTyped, GoOnTyped DEF StopWrites, Base, TypeOK, PC
    <3>. QED
      BY <1>22, <3>1 DEF StopWrites, GoOn, Goto, Base, TypeOK, LocalsOK
  <2>. QED
    BY <2>1, <2>2, <2>3 DEF Base
<1>23. ASSUME NEW t \in Admin \cup {Expirer}, Finishes(t) PROVE Base'
  <2>1. FinishesDo(t)
    BY <1>23, FinishesIs
  <2>2. WholeInv'
    BY <1>23, <2>1, NoFields
       DEF FinishesDo, Leave, Ended, Base, TypeOK, LocalsOK, PlaceInv, WholeInv, TakenPC, StopPC
  <2>3. PlaceInv' /\ LabelInv' /\ OverlapInv' /\ DownInv' /\ LocalInv'
    BY <1>23, <2>1, NoFields
       DEF FinishesDo, Leave, Ended, Base, TypeOK, LocalsOK, PlaceInv, LabelInv, Labelled,
           OverlapInv, Busy, DownInv, LocalInv, Applying
  <2>4. TypeOK'
    <3>1. LocalsOK'
      BY <1>23, <2>1, LeaveTyped, GoOnTyped DEF FinishesDo, Ended, Base, TypeOK, PC
    <3>. QED
      BY <1>23, <2>1, <3>1 DEF FinishesDo, Leave, Ended, Base, TypeOK, LocalsOK
  <2>. QED
    BY <2>2, <2>3, <2>4 DEF Base
<1>24. CASE TtlFires
  <2>1. LabelInv'
    BY <1>24 DEF TtlFires, Begin, MayBegin, Busy, Base, TypeOK, LocalsOK, LabelInv, Labelled
  <2>2. OverlapInv' /\ DownInv' /\ PlaceInv' /\ WholeInv' /\ LocalInv'
    BY <1>24
       DEF TtlFires, Begin, MayBegin, Busy, OverlapInv, DownInv, Base, TypeOK, LocalsOK,
           PlaceInv, WholeInv, TakenPC, StopPC, LocalInv, Applying, MadePC
  <2>3. TypeOK'
    <3>1. LocalsOK'
      BY <1>24 DEF TtlFires, Begin, MayBegin, Busy, Base, TypeOK, LocalsOK, PC
    <3>. QED
      BY <1>24, <3>1, Types, Fields
         DEF TtlFires, Begin, MayBegin, Busy, Base, TypeOK, LocalsOK, IdleApp, AppRecord
  <2>. QED
    BY <2>1, <2>2, <2>3 DEF Base
<1>25. CASE ExpireChecks
  <2>1. LocalInv'
    BY <1>25
       DEF ExpireChecks, Goto, Leave, Base, TypeOK, LocalsOK, LocalInv, Applying, MadePC, TakenPC
  <2>2. PlaceInv' /\ OverlapInv' /\ DownInv' /\ LabelInv' /\ WholeInv'
    BY <1>25, NoFields
       DEF ExpireChecks, Goto, Leave, Base, TypeOK, LocalsOK, PlaceInv, StopPC, OverlapInv, Busy,
           DownInv, LabelInv, Labelled, WholeInv, TakenPC
  <2>3. TypeOK'
    <3>1. CASE Leave(Expirer)
      BY <1>25, <3>1, LeaveTyped DEF ExpireChecks, Base, TypeOK
    <3>2. CASE ~Leave(Expirer)
      BY <1>25, <3>2 DEF ExpireChecks, Goto, Base, TypeOK, LocalsOK, PC
    <3>. QED
      BY <3>1, <3>2
  <2>. QED
    BY <2>1, <2>2, <2>3 DEF Base
<1>26. CASE IdleFires
  <2>1. OverlapInv' /\ DownInv' /\ PlaceInv' /\ WholeInv' /\ LocalInv' /\ LabelInv'
    BY <1>26
       DEF IdleFires, Begin, MayBegin, Busy, OverlapInv, DownInv, Base, TypeOK, LocalsOK,
           PlaceInv, WholeInv, LocalInv, Applying, LabelInv, Labelled
  <2>2. TypeOK'
    <3>1. LocalsOK'
      BY <1>26 DEF IdleFires, Begin, MayBegin, Busy, Base, TypeOK, LocalsOK, PC
    <3>. QED
      BY <1>26, <3>1, Types, Fields
         DEF IdleFires, Begin, MayBegin, Busy, Base, TypeOK, LocalsOK, IdleApp, AppRecord
  <2>. QED
    BY <2>1, <2>2 DEF Base
<1>27. CASE SuspendLooksUp
  <2>1. PlaceInv' /\ OverlapInv' /\ DownInv' /\ WholeInv' /\ LocalInv' /\ LabelInv'
    BY <1>27, NoFields
       DEF SuspendLooksUp, GoOn, Leave, Goto, Base, TypeOK, LocalsOK, PlaceInv, OverlapInv, Busy,
           DownInv, WholeInv, LocalInv, Applying, LabelInv, Labelled
  <2>2. TypeOK'
    <3>1. LocalsOK'
      BY <1>27, LeaveTyped, GoOnTyped DEF SuspendLooksUp, Base, TypeOK, PC
    <3>. QED
      BY <1>27, <3>1 DEF SuspendLooksUp, GoOn, Leave, Goto, Base, TypeOK
  <2>. QED
    BY <2>1, <2>2 DEF Base
<1>28. CASE SuspendChecks
  <2>1. PlaceInv' /\ OverlapInv' /\ DownInv' /\ WholeInv' /\ LocalInv' /\ LabelInv'
    BY <1>28, NoFields
       DEF SuspendChecks, GoOn, Leave, Goto, Base, TypeOK, LocalsOK, PlaceInv, OverlapInv, Busy,
           DownInv, WholeInv, LocalInv, Applying, LabelInv, Labelled
  <2>2. TypeOK'
    <3>1. LocalsOK'
      BY <1>28, LeaveTyped, GoOnTyped DEF SuspendChecks, Base, TypeOK, PC
    <3>. QED
      BY <1>28, <3>1 DEF SuspendChecks, GoOn, Leave, Goto, Base, TypeOK
  <2>. QED
    BY <2>1, <2>2 DEF Base
<1>29. CASE SuspendPauses
  <2>1. PlaceInv' /\ WholeInv' /\ OverlapInv' /\ DownInv' /\ LocalInv' /\ LabelInv'
    BY <1>29
       DEF SuspendPauses, Becomes, GoOn, Goto, Base, TypeOK, LocalsOK, PlaceInv, WholeInv,
           OverlapInv, Busy, DownInv, LocalInv, Applying, LabelInv, Labelled
  <2>2. TypeOK'
    <3>1. LocalsOK'
      BY <1>29, LeaveTyped, GoOnTyped DEF SuspendPauses, Becomes, Base, TypeOK, PC
    <3>. QED
      BY <1>29, <3>1, Types, Fields
         DEF SuspendPauses, Becomes, GoOn, Goto, Base, TypeOK, LocalsOK, IdleApp, AppRecord
  <2>. QED
    BY <2>1, <2>2 DEF Base
<1>30. CASE SuspendReads
  <2>1. SuspendReadsDo
    BY <1>30, SuspendReadsIs
  <2>2. PlaceInv' /\ WholeInv' /\ OverlapInv' /\ DownInv' /\ LocalInv' /\ LabelInv'
    BY <1>30, <2>1
       DEF SuspendReadsDo, SuspendReadsCopy, Goto, Base, TypeOK, LocalsOK, PlaceInv, WholeInv,
           OverlapInv, Busy, DownInv, LocalInv, Applying, LabelInv, Labelled
  <2>3. TypeOK'
    <3>1. LocalsOK'
      BY <1>30, <2>1 DEF SuspendReadsDo, SuspendReadsCopy, Goto, Base, TypeOK, LocalsOK, PC
    <3>. QED
      BY <1>30, <2>1, <3>1 DEF SuspendReadsDo, SuspendReadsCopy, Goto, Base, TypeOK
  <2>. QED
    BY <2>2, <2>3 DEF Base
<1>31. CASE SuspendWrites
  <2>1. PlaceInv' /\ WholeInv' /\ OverlapInv' /\ DownInv' /\ LocalInv' /\ LabelInv'
    BY <1>31
       DEF SuspendWrites, GoOn, Goto, Base, TypeOK, LocalsOK, PlaceInv, WholeInv, OverlapInv,
           Busy, DownInv, LocalInv, Applying, LabelInv, Labelled
  <2>2. TypeOK'
    <3>1. LocalsOK'
      BY <1>31, LeaveTyped, GoOnTyped DEF SuspendWrites, Base, TypeOK, PC
    <3>. QED
      BY <1>31, <3>1 DEF SuspendWrites, GoOn, Goto, Base, TypeOK, LocalsOK
  <2>. QED
    BY <2>1, <2>2 DEF Base
<1>32. CASE SuspendFlags
  <2>1. PlaceInv' /\ LabelInv' /\ OverlapInv' /\ DownInv' /\ WholeInv' /\ LocalInv'
    BY <1>32, NoFields
       DEF SuspendFlags, Leave, Base, TypeOK, LocalsOK, PlaceInv, LabelInv, Labelled, OverlapInv,
           Busy, DownInv, WholeInv, LocalInv, Applying
  <2>2. TypeOK'
    <3>1. idleApp' \in IdleApp \cup {None}
      BY <1>32, Zenon DEF SuspendFlags, Base, TypeOK, IdleApp
    <3>2. LocalsOK'
      BY <1>32, LeaveTyped DEF SuspendFlags, Base, TypeOK
    <3>. QED
      BY <1>32, <3>1, <3>2 DEF SuspendFlags, Base, TypeOK
  <2>. QED
    BY <2>1, <2>2 DEF Base
<1>33. CASE ContainerExits
  <2>1. PlaceInv' /\ WholeInv' /\ OverlapInv' /\ DownInv' /\ LocalInv' /\ LabelInv'
    BY <1>33
       DEF ContainerExits, Becomes, Base, TypeOK, LocalsOK, PlaceInv, WholeInv, OverlapInv, Busy,
           DownInv, LocalInv, Applying, LabelInv, Labelled
  <2>2. TypeOK'
    <3>1. LocalsOK'
      BY <1>33 DEF ContainerExits, Becomes, Base, TypeOK, LocalsOK, PC
    <3>. QED
      BY <1>33, <3>1 DEF ContainerExits, Becomes, Base, TypeOK
  <2>. QED
    BY <2>1, <2>2 DEF Base
<1>34. CASE Crash
  <2>1. PlaceInv' /\ OverlapInv' /\ DownInv' /\ LocalInv' /\ LabelInv' /\ WholeInv'
    BY <1>34, NoFields
       DEF Crash, Ends, Busy, PlaceInv, OverlapInv, DownInv, LocalInv, Applying, Base, LabelInv,
           Labelled, WholeInv, TakenPC, StopPC
  <2>2. TypeOK'
    <3>1. up' \in BOOLEAN
      BY <1>34, Zenon DEF Crash, Ends
    <3>2. dockerApp' = None /\ idleApp' = None /\ ttlArmed' \in Gen /\ idleArmed' \in Gen
      BY <1>34, Types DEF Crash, Ends
    <3>3. UNCHANGED <<overlap, record, backup, daemon, appDir>>
      BY <1>34 DEF Crash, Ends
    <3>4. LocalsOK'
      BY <1>34, Types DEF Crash, Ends, LocalsOK, PC
    <3>. QED
      BY <1>34, <3>1, <3>2, <3>3, <3>4 DEF Base, TypeOK
  <2>. QED
    BY <2>1, <2>2 DEF Base
<1>35. CASE Shutdown
  <2>1. WholeInv'
    BY <1>35, NoFields
       DEF Shutdown, Ends, Busy, Removed, NotRemoved, Becomes, Base, WholeInv, TakenPC, StopPC
  <2>2. PlaceInv' /\ OverlapInv' /\ DownInv' /\ LocalInv' /\ LabelInv'
    BY <1>35, NoFields
       DEF Shutdown, Ends, Busy, Removed, NotRemoved, Becomes, PlaceInv, OverlapInv, DownInv,
           LocalInv, Applying, Base, LabelInv, Labelled
  <2>3. TypeOK'
    <3>1. up' \in BOOLEAN
      BY <1>35, Zenon DEF Shutdown, Ends
    <3>2. dockerApp' = None /\ idleApp' = None /\ ttlArmed' \in Gen /\ idleArmed' \in Gen
      BY <1>35, Types DEF Shutdown, Ends
    <3>3. UNCHANGED <<overlap, record, backup>>
      BY <1>35 DEF Shutdown, Ends
    <3>4. orphaned' \subseteq Container /\ label' = label /\ appDir' \in {None, appDir}
      BY <1>35, HeldFields DEF Shutdown, Removed, NotRemoved, Becomes, Base, TypeOK
    <3>5. docker' \in [Container -> {"none", "created", "running", "paused", "exited"}]
      BY <1>35 DEF Shutdown, Removed, NotRemoved, Becomes, Base, TypeOK
    <3>6. LocalsOK'
      BY <1>35, Types DEF Shutdown, Ends, LocalsOK, PC
    <3>. QED
      BY <1>35, <3>1, <3>2, <3>3, <3>4, <3>5, <3>6 DEF Base, TypeOK
  <2>. QED
    BY <2>1, <2>2, <2>3 DEF Base
<1>36. CASE BootStarts
  <2>1. DownInv' /\ PlaceInv' /\ WholeInv' /\ OverlapInv' /\ LocalInv' /\ LabelInv'
    BY <1>36
       DEF BootStarts, Restorable, Becomes, DownInv, Busy, Base, TypeOK, LocalsOK, PlaceInv,
           WholeInv, OverlapInv, LocalInv, Applying, LabelInv, Labelled
  <2>2. TypeOK'
    <3>1. LocalsOK'
      BY <1>36 DEF BootStarts, Restorable, Becomes, Base, TypeOK, LocalsOK, PC
    <3>. QED
      BY <1>36, <3>1, Types, Fields
         DEF BootStarts, Restorable, Becomes, Base, TypeOK, LocalsOK, IdleApp, AppRecord
  <2>. QED
    BY <2>1, <2>2 DEF Base
<1>37. CASE BootFails
  <2>1. BootFailsDo
    BY <1>37, BootFailsIs
  <2>2. DownInv' /\ WholeInv' /\ PlaceInv' /\ OverlapInv' /\ LocalInv' /\ LabelInv'
    BY <1>37, <2>1, NoFields
       DEF BootFailsDo, Restorable, Ended, DownInv, Busy, Base, WholeInv, TypeOK, LocalsOK,
           PlaceInv, OverlapInv, LocalInv, Applying, LabelInv, Labelled
  <2>3. TypeOK'
    <3>1. LocalsOK'
      BY <1>37, <2>1 DEF BootFailsDo, Restorable, Ended, Base, TypeOK, LocalsOK, PC
    <3>. QED
      BY <1>37, <2>1, <3>1, Fields DEF BootFailsDo, Restorable, Ended, Base, TypeOK
  <2>. QED
    BY <2>2, <2>3 DEF Base
<1>38. CASE BootExpires
  <2>1. BootExpiresDo
    BY <1>38, BootExpiresIs
  <2>2. DownInv' /\ WholeInv' /\ PlaceInv' /\ OverlapInv'
    BY <1>38, <2>1, NoFields
       DEF BootExpiresDo, Restorable, Ended, Removed, NotRemoved, Becomes, DownInv, Busy, Base,
           WholeInv, TypeOK, LocalsOK, PlaceInv, OverlapInv
  <2>3. LocalInv' /\ LabelInv'
    BY <1>38, <2>1
       DEF BootExpiresDo, Restorable, Ended, Removed, NotRemoved, Becomes, Base, TypeOK,
           LocalsOK, LocalInv, Applying, LabelInv, Labelled
  <2>4. TypeOK'
    <3>1. LocalsOK'
      BY <1>38, <2>1
         DEF BootExpiresDo, Restorable, Ended, Removed, NotRemoved, Becomes, Base, TypeOK,
             LocalsOK, PC
    <3>. QED
      BY <1>38, <2>1, <3>1, Fields
         DEF BootExpiresDo, Restorable, Ended, Removed, NotRemoved, Becomes, Base, TypeOK
  <2>. QED
    BY <2>2, <2>3, <2>4 DEF Base
<1>39. CASE BootSkips
  <2>1. DownInv' /\ PlaceInv' /\ WholeInv' /\ OverlapInv' /\ LocalInv' /\ LabelInv'
    BY <1>39
       DEF BootSkips, Restorable, DownInv, Busy, Base, TypeOK, LocalsOK, PlaceInv, WholeInv,
           OverlapInv, LocalInv, Applying, LabelInv, Labelled
  <2>2. TypeOK'
    <3>1. LocalsOK'
      BY <1>39 DEF BootSkips, Restorable, Base, TypeOK, LocalsOK, PC
    <3>. QED
      BY <1>39, <3>1 DEF BootSkips, Restorable, Base, TypeOK
  <2>. QED
    BY <2>1, <2>2 DEF Base
<1>40. CASE UNCHANGED vars
  BY <1>40
     DEF vars, TypeOK, PlaceInv, OverlapInv, DownInv, WholeInv, LocalInv, LabelInv, LocalsOK,
         Busy, Applying, Labelled, Base
<1>. QED
  BY <1>1, <1>2, <1>3, <1>4, <1>5, <1>6, <1>7, <1>8, <1>9, <1>10, <1>11, <1>12, <1>13, <1>14,
     <1>15, <1>16, <1>17, <1>18, <1>19, <1>20, <1>21, <1>22, <1>23, <1>24, <1>25, <1>26, <1>27,
     <1>28, <1>29, <1>30, <1>31, <1>32, <1>33, <1>34, <1>35, <1>36, <1>37, <1>38, <1>39, <1>40
     DEF Next, ApplyStep, StopStep, SuspendStep

\* GenInv is kept with Base.
LEMMA GenStep ==
    ASSUME Base, Apart, GenInv, [Next]_vars
    PROVE  GenInv'
<1>1. OneAdmin
  BY Company
<1>2. ASSUME NEW t \in Admin, Apply(t) PROVE GenInv'
  BY <1>2
     DEF Apply, Begin, MayBegin, Busy, Base, TypeOK, LocalsOK, GenInv, Applying, Stopping,
         Installed, DonePC, TakenPC, StopPC
<1>3. ASSUME NEW t \in Admin, ApplyMoves(t) PROVE GenInv'
  BY <1>3
     DEF ApplyMoves, GoOn, Goto, GenInv, Applying, Stopping, Installed, DonePC, TakenPC, StopPC
<1>4. ASSUME NEW t \in Admin, Creates(t) PROVE GenInv'
  <2>1. CreatesDo(t)
    BY <1>4, CreatesIs
  <2>. QED
    BY <1>4, <2>1, <1>1
       DEF CreatesDo, Fresh, Goto, Base, PlaceInv, GenInv, Applying, Stopping, Installed, DonePC,
           TakenPC, StopPC, OneAdmin
<1>5. ASSUME NEW t \in Admin, CreateFails(t) PROVE GenInv'
  <2>1. CreateFailsDo(t)
    BY <1>5, CreateFailsIs
  <2>. QED
    BY <1>5, <2>1
       DEF CreateFailsDo, Fresh, GoOn, Goto, GenInv, Applying, Stopping, Installed, DonePC,
           TakenPC, StopPC
<1>6. ASSUME NEW t \in Admin, Starts(t) PROVE GenInv'
  BY <1>6
     DEF Starts, Becomes, GoOn, Goto, GenInv, Applying, Stopping, Installed, DonePC, TakenPC,
         StopPC
<1>7. ASSUME NEW t \in Admin, StartFails(t) PROVE GenInv'
  BY <1>7
     DEF StartFails, Becomes, GoOn, Goto, GenInv, Applying, Stopping, Installed, DonePC, TakenPC,
         StopPC
<1>8. ASSUME NEW t \in Admin, Drops(t) PROVE GenInv'
  BY <1>8
     DEF Drops, Becomes, GoOn, Goto, GenInv, Applying, Stopping, Installed, DonePC, TakenPC,
         StopPC
<1>9. ASSUME NEW t \in Admin, RollsBack(t) PROVE GenInv'
  BY <1>9, <1>1
     DEF RollsBack, Leave, Base, TypeOK, LocalsOK, GenInv, Applying, Stopping, Installed, DonePC,
         OneAdmin
<1>10. ASSUME NEW t \in Admin, Installs(t) PROVE GenInv'
  BY <1>10, <1>1
     DEF Installs, GoOn, Goto, Base, TypeOK, LocalsOK, PlaceInv, GenInv, Applying, Stopping,
         Installed, DonePC, TakenPC, StopPC, OneAdmin
<1>11. ASSUME NEW t \in Admin, ArmsTtl(t) PROVE GenInv'
  BY <1>11
     DEF ArmsTtl, GoOn, Goto, GenInv, Applying, Stopping, Installed, DonePC, TakenPC, StopPC
<1>12. ASSUME NEW t \in Admin, ArmsIdle(t) PROVE GenInv'
  BY <1>12
     DEF ArmsIdle, GoOn, Goto, GenInv, Applying, Stopping, Installed, DonePC, TakenPC, StopPC
<1>13. ASSUME NEW t \in Admin, Remembers(t) PROVE GenInv'
  BY <1>13
     DEF Remembers, GoOn, Goto, GenInv, Applying, Stopping, Installed, DonePC, TakenPC, StopPC
<1>14. ASSUME NEW t \in Admin, Records(t) PROVE GenInv'
  BY <1>14, <1>1
     DEF Records, Leave, Base, TypeOK, LocalsOK, PlaceInv, GenInv, Applying, MadePC, DonePC,
         StopPC, LocalInv, OneAdmin
<1>15. ASSUME NEW t \in Admin, Stop(t) PROVE GenInv'
  BY <1>15
     DEF Stop, Begin, MayBegin, Busy, Base, GenInv, Applying, Stopping, Installed, MadePC,
         DonePC, TakenPC, LocalInv
<1>16. ASSUME NEW t \in Admin, Remove(t) PROVE GenInv'
  BY <1>16
     DEF Remove, Begin, MayBegin, Busy, Base, GenInv, Applying, Stopping, Installed, MadePC,
         DonePC, TakenPC, LocalInv
<1>17. ASSUME NEW t \in Admin \cup {Expirer}, Withdraws(t) PROVE GenInv'
  BY <1>17 DEF Withdraws, GoOn, Goto, GenInv, Applying, Stopping, Installed, DonePC, StopPC
<1>18. ASSUME NEW t \in Admin \cup {Expirer}, Takes(t) PROVE GenInv'
  <2>1. TakesDo(t)
    BY <1>18, TakesIs
  <2>. QED
    BY <1>18, <2>1, <1>1
       DEF TakesDo, Goto, Base, PlaceInv, GenInv, Applying, Stopping, Installed, DonePC, OneAdmin
<1>19. ASSUME NEW t \in Admin \cup {Expirer}, NothingToTake(t) PROVE GenInv'
  BY <1>19
     DEF NothingToTake, Leave, GoOn, Goto, Base, TypeOK, LocalsOK, PlaceInv, GenInv, Applying,
         Stopping, DonePC
<1>20. ASSUME NEW t \in Admin \cup {Expirer}, RemovesContainer(t) PROVE GenInv'
  BY <1>20
     DEF RemovesContainer, Removed, NotRemoved, Becomes, Goto, GenInv, Applying, Stopping,
         DonePC, StopPC
<1>21. ASSUME NEW t \in Admin \cup {Expirer}, RemovesFiles(t) PROVE GenInv'
  BY <1>21 DEF RemovesFiles, GoOn, Goto, GenInv, Applying, Stopping, DonePC, TakenPC, StopPC
<1>22. ASSUME NEW t \in Admin \cup {Expirer}, StopReads(t) PROVE GenInv'
  <2>1. StopReadsDo(t)
    BY <1>22, StopReadsIs
  <2>. QED
    BY <1>22, <2>1
       DEF StopReadsDo, StopReadsCopy, Goto, Base, TypeOK, LocalsOK, GenInv, Applying, Stopping,
           DonePC, TakenPC, StopPC
<1>23. ASSUME NEW t \in Admin \cup {Expirer}, StopWrites(t) PROVE GenInv'
  BY <1>23 DEF StopWrites, GoOn, Goto, GenInv, Applying, Stopping, DonePC, TakenPC, StopPC
<1>24. ASSUME NEW t \in Admin \cup {Expirer}, Finishes(t) PROVE GenInv'
  <2>1. FinishesDo(t)
    BY <1>24, FinishesIs
  <2>. QED
    BY <1>24, <2>1, <1>1
       DEF FinishesDo, Leave, Ended, Base, TypeOK, LocalsOK, PlaceInv, GenInv, Applying,
           Stopping, TakenPC, StopPC, OneAdmin
<1>25. CASE TtlFires
  BY <1>25
     DEF TtlFires, Begin, MayBegin, Busy, Base, PlaceInv, GenInv, Applying, Stopping, Installed,
         MadePC, DonePC, TakenPC, StopPC, LocalInv
<1>26. CASE ExpireChecks
  BY <1>26
     DEF ExpireChecks, Goto, Leave, Base, TypeOK, LocalsOK, GenInv, Applying, Stopping,
         Installed, DonePC, TakenPC, StopPC
<1>27. CASE IdleFires
  BY <1>27
     DEF IdleFires, Begin, MayBegin, Busy, Base, PlaceInv, GenInv, Applying, Stopping, Installed,
         DonePC
<1>28. CASE SuspendLooksUp
  BY <1>28
     DEF SuspendLooksUp, GoOn, Leave, Goto, Base, TypeOK, LocalsOK, GenInv, Applying, Stopping,
         Installed, DonePC
<1>29. CASE SuspendChecks
  BY <1>29
     DEF SuspendChecks, GoOn, Leave, Goto, Base, TypeOK, LocalsOK, GenInv, Applying, Stopping,
         Installed, DonePC
<1>30. CASE SuspendPauses
  BY <1>30 DEF SuspendPauses, Becomes, GoOn, Goto, GenInv, Applying, Stopping, Installed, DonePC
<1>31. CASE SuspendReads
  <2>1. SuspendReadsDo
    BY <1>31, SuspendReadsIs
  <2>. QED
    BY <1>31, <2>1
       DEF SuspendReadsDo, SuspendReadsCopy, Goto, Base, TypeOK, LocalsOK, GenInv, Applying,
           Stopping, Installed, DonePC
<1>32. CASE SuspendWrites
  BY <1>32 DEF SuspendWrites, GoOn, Goto, GenInv, Applying, Stopping, Installed, DonePC
<1>33. CASE SuspendFlags
  BY <1>33 DEF SuspendFlags, Leave, Base, PlaceInv, GenInv, Applying, Stopping, Installed, DonePC
<1>34. CASE ContainerExits
  BY <1>34, <1>1 DEF ContainerExits, Becomes, GenInv, Applying, Stopping, Installed, OneAdmin
<1>35. CASE Crash
  BY <1>35 DEF Crash, Ends, Busy, GenInv, Applying, TakenPC, StopPC
<1>36. CASE Shutdown
  BY <1>36
     DEF Shutdown, Ends, Busy, Removed, NotRemoved, Becomes, GenInv, Applying, TakenPC, StopPC
<1>37. CASE BootStarts
  <2>1. BootStartsDo
    BY <1>37, BootStartsIs
  <2>. QED
    BY <1>37, <2>1
       DEF BootStartsDo, Quiet, Restorable, GenInv, Applying, Stopping, DonePC, TakenPC, StopPC
<1>38. CASE BootFails
  <2>1. BootFailsDo
    BY <1>38, BootFailsIs
  <2>. QED
    BY <1>38, <2>1, <1>1
       DEF BootFailsDo, Quiet, Restorable, Ended, GenInv, Applying, Stopping, Installed, OneAdmin
<1>39. CASE BootExpires
  <2>1. BootExpiresDo
    BY <1>39, BootExpiresIs
  <2>. QED
    BY <1>39, <2>1, <1>1
       DEF BootExpiresDo, Quiet, Restorable, Ended, Removed, NotRemoved, Becomes, GenInv,
           Applying, Stopping, Installed, OneAdmin
<1>40. CASE BootSkips
  BY <1>40, <1>1 DEF BootSkips, Restorable, GenInv, Applying, Stopping, Installed, OneAdmin
<1>41. CASE UNCHANGED vars
  BY <1>41 DEF vars, GenInv, Applying, Stopping, Installed
<1>. QED
  BY <1>2, <1>3, <1>4, <1>5, <1>6, <1>7, <1>8, <1>9, <1>10, <1>11, <1>12, <1>13, <1>14, <1>15,
     <1>16, <1>17, <1>18, <1>19, <1>20, <1>21, <1>22, <1>23, <1>24, <1>25, <1>26, <1>27, <1>28,
     <1>29, <1>30, <1>31, <1>32, <1>33, <1>34, <1>35, <1>36, <1>37, <1>38, <1>39, <1>40, <1>41
     DEF Next, ApplyStep, StopStep, SuspendStep

\* KnownInv is kept with them, unless a handler is cut off.
LEMMA KnownStep ==
    ASSUME Base, Apart, ~CrashAnywhere, GenInv, EveryContainerIsKnown, InstalledInv, ApplyInv,
           StopInv, SuspendInv, [Next]_vars
    PROVE  KnownInv'
<1>1. OneAdmin
  BY Company
<1>2. ASSUME NEW t \in Admin, Apply(t) PROVE KnownInv'
  <2>1. StopInv'
    BY <1>2, <1>1
       DEF Apply, Begin, MayBegin, Busy, Base, TypeOK, LocalsOK, StopInv, Stopping, Safe,
           OneAdmin
  <2>2. ApplyInv'
    BY <1>2
       DEF Apply, Begin, MayBegin, Busy, Base, TypeOK, LocalsOK, ApplyInv, Applying, Moved, Safe,
           MadePC, TakenPC, LocalInv
  <2>3. InstalledInv' /\ SuspendInv' /\ EveryContainerIsKnown'
    BY <1>2, <1>1
       DEF Apply, Begin, MayBegin, Busy, InstalledInv, DonePC, OneAdmin, SuspendInv, Safe,
           EveryContainerIsKnown, InHand, Existing
  <2>. QED
    BY <2>1, <2>2, <2>3 DEF KnownInv
<1>3. ASSUME NEW t \in Admin, ApplyMoves(t) PROVE KnownInv'
  <2>1. ApplyInv'
    BY <1>3, <1>1 DEF ApplyMoves, GoOn, Goto, ApplyInv, Applying, Moved, Safe, OneAdmin
  <2>2. InstalledInv' /\ SuspendInv' /\ EveryContainerIsKnown' /\ StopInv'
    BY <1>3, <1>1
       DEF ApplyMoves, GoOn, Goto, InstalledInv, DonePC, OneAdmin, SuspendInv, Safe,
           EveryContainerIsKnown, InHand, Existing, StopInv, Stopping, TakenPC
  <2>. QED
    BY <2>1, <2>2 DEF KnownInv
<1>4. ASSUME NEW t \in Admin, Creates(t) PROVE KnownInv'
  <2>1. CreatesDo(t)
    BY <1>4, CreatesIs
  <2>2. ApplyInv'
    BY <1>4, <2>1, <1>1
       DEF CreatesDo, Fresh, Goto, Base, TypeOK, LocalsOK, ApplyInv, Applying, Moved, OneAdmin
  <2>3. EveryContainerIsKnown'
    BY <1>4, <2>1
       DEF CreatesDo, Fresh, Goto, Base, TypeOK, LocalsOK, EveryContainerIsKnown, InHand,
           Existing, MadePC, TakenPC, LocalInv
  <2>4. InstalledInv' /\ SuspendInv' /\ StopInv'
    BY <1>4, <2>1, <1>1
       DEF CreatesDo, Fresh, Goto, InstalledInv, DonePC, OneAdmin, SuspendInv, Safe, StopInv,
           Stopping, TakenPC
  <2>. QED
    BY <2>2, <2>3, <2>4 DEF KnownInv
<1>5. ASSUME NEW t \in Admin, CreateFails(t) PROVE KnownInv'
  <2>1. CreateFailsDo(t)
    BY <1>5, CreateFailsIs
  <2>2. EveryContainerIsKnown'
    BY <1>5, <2>1, <1>1
       DEF CreateFailsDo, Fresh, GoOn, Goto, Base, TypeOK, LocalsOK, EveryContainerIsKnown,
           InHand, Existing, OneAdmin
  <2>3. ApplyInv'
    BY <1>5, <2>1, <1>1
       DEF CreateFailsDo, Fresh, GoOn, Goto, Base, ApplyInv, Applying, Moved, MadePC, TakenPC,
           LocalInv, OneAdmin
  <2>4. SuspendInv' /\ StopInv'
    BY <1>5, <2>1, <1>1
       DEF CreateFailsDo, Fresh, GoOn, Goto, SuspendInv, Safe, OneAdmin, StopInv, Stopping,
           TakenPC
  <2>5. InstalledInv'
    <3>1. /\ dockerApp' = dockerApp /\ record' = record
          /\ pc' = [pc EXCEPT ![t] = "rollback"] /\ pc[t] = "create"
      BY <1>5, <2>1 DEF CreateFailsDo, GoOn, Goto
    <3>2. dockerApp # None => docker'[dockerApp.container] = docker[dockerApp.container]
      BY <1>5, <2>1, HeldFields DEF CreateFailsDo, Fresh, Base, TypeOK
    <3>. QED
      BY <1>5, <3>1, <3>2 DEF InstalledInv, DonePC, Base, TypeOK, LocalsOK
  <2>. QED
    BY <2>2, <2>3, <2>4, <2>5 DEF KnownInv
<1>6. ASSUME NEW t \in Admin, Starts(t) PROVE KnownInv'
  <2>1. EveryContainerIsKnown'
    BY <1>6, <1>1
       DEF Starts, Becomes, GoOn, Goto, Base, TypeOK, LocalsOK, EveryContainerIsKnown, InHand,
           Existing, OneAdmin
  <2>2. InstalledInv' /\ SuspendInv' /\ StopInv' /\ ApplyInv'
    BY <1>6, <1>1
       DEF Starts, Becomes, GoOn, Goto, InstalledInv, DonePC, OneAdmin, SuspendInv, Safe,
           StopInv, Stopping, TakenPC, ApplyInv, Applying, Moved
  <2>. QED
    BY <2>1, <2>2 DEF KnownInv
<1>7. ASSUME NEW t \in Admin, StartFails(t) PROVE KnownInv'
  <2>1. EveryContainerIsKnown'
    BY <1>7, <1>1
       DEF StartFails, Becomes, GoOn, Goto, Base, TypeOK, LocalsOK, EveryContainerIsKnown,
           InHand, Existing, OneAdmin
  <2>2. InstalledInv' /\ SuspendInv' /\ StopInv' /\ ApplyInv'
    BY <1>7, <1>1
       DEF StartFails, Becomes, GoOn, Goto, InstalledInv, DonePC, OneAdmin, SuspendInv, Safe,
           StopInv, Stopping, TakenPC, ApplyInv, Applying, Moved
  <2>. QED
    BY <2>1, <2>2 DEF KnownInv
<1>8. ASSUME NEW t \in Admin, Drops(t) PROVE KnownInv'
  <2>1. SuspendInv' /\ StopInv' /\ EveryContainerIsKnown'
    BY <1>8, <1>1
       DEF Drops, Becomes, GoOn, Goto, SuspendInv, Safe, OneAdmin, StopInv, Stopping, TakenPC,
           Base, TypeOK, LocalsOK, EveryContainerIsKnown, InHand, Existing
  <2>2. InstalledInv'
    <3>1. pc[t] = "drop" /\ op[t] = "apply" /\ held[t] # None /\ held[t] \in AppRecord
      BY <1>8 DEF Drops, Base, PlaceInv, MadePC, StopPC, TakenPC, TypeOK, LocalsOK
    <3>2. held[t].container # record.container
      BY <1>8, <3>1 DEF ApplyInv, Applying
    <3>3. dockerApp # None =>
              dockerApp.container = record.container /\ docker[dockerApp.container] # "none"
      BY <1>8, <1>1, <3>1 DEF InstalledInv, OneAdmin, DonePC
    <3>4. UNCHANGED <<dockerApp, record>> /\ pc' = [pc EXCEPT ![t] = "rollback"]
      BY <1>8 DEF Drops, GoOn, Goto
    <3>5. docker' = docker \/ docker' = [docker EXCEPT ![held[t].container] = "none"]
      BY <1>8 DEF Drops, Becomes
    <3>. QED
      BY <1>8, <3>3, <3>2, <3>4, <3>5, HeldFields DEF InstalledInv, Base, TypeOK
  <2>3. ApplyInv'
    <3>1. pc[t] = "drop" /\ op[t] = "apply" /\ held[t] # None /\ held[t] \in AppRecord
      BY <1>8 DEF Drops, Base, PlaceInv, MadePC, StopPC, TakenPC, TypeOK, LocalsOK
    <3>2. UNCHANGED <<op, old, held, record>> /\ pc' = [pc EXCEPT ![t] = "rollback"]
      BY <1>8 DEF Drops, GoOn, Goto
    <3>3. Safe(held[t].container)' /\ orphaned \subseteq orphaned'
      BY <1>8, <3>1, <3>2, HeldFields DEF Drops, Becomes, Safe, Base, TypeOK
    <3>4. \A u \in Admin : u # t => ~Applying(u)
      BY <1>8, <1>1, <3>1 DEF OneAdmin, Applying, Base, PlaceInv
    <3>. QED
      BY <1>8, <3>1, <3>2, <3>3, <3>4 DEF ApplyInv, Applying, Moved, Base, TypeOK, LocalsOK
  <2>. QED
    BY <2>1, <2>2, <2>3 DEF KnownInv
<1>9. ASSUME NEW t \in Admin, RollsBack(t) PROVE KnownInv'
  <2>1. EveryContainerIsKnown'
    BY <1>9
       DEF RollsBack, Leave, Base, PlaceInv, EveryContainerIsKnown, InHand, Existing, StopPC,
           Applying, Stopping, ApplyInv, Safe, StopInv
  <2>2. InstalledInv' /\ SuspendInv' /\ StopInv' /\ ApplyInv'
    BY <1>9, <1>1
       DEF RollsBack, Leave, InstalledInv, DonePC, OneAdmin, SuspendInv, Safe, Base, TypeOK,
           LocalsOK, StopInv, Stopping, ApplyInv, Applying, Moved
  <2>. QED
    BY <2>1, <2>2 DEF KnownInv
<1>10. ASSUME NEW t \in Admin, Installs(t) PROVE KnownInv'
  <2>1. SuspendInv' /\ StopInv' /\ EveryContainerIsKnown'
    BY <1>10, <1>1
       DEF Installs, GoOn, Goto, SuspendInv, Safe, OneAdmin, StopInv, Stopping, TakenPC,
           EveryContainerIsKnown, InHand, Existing, GenInv, InstalledInv
  <2>2. ApplyInv' /\ InstalledInv'
    BY <1>10, <1>1
       DEF Installs, GoOn, Goto, ApplyInv, Applying, Moved, Safe, OneAdmin, Base, TypeOK,
           LocalsOK, PlaceInv, InstalledInv, DonePC, TakenPC, StopPC
  <2>. QED
    BY <2>1, <2>2 DEF KnownInv
<1>11. ASSUME NEW t \in Admin, ArmsTtl(t) PROVE KnownInv'
  <2>1. ApplyInv'
    BY <1>11, <1>1 DEF ArmsTtl, GoOn, Goto, ApplyInv, Applying, Moved, Safe, OneAdmin
  <2>2. InstalledInv' /\ SuspendInv' /\ EveryContainerIsKnown' /\ StopInv'
    BY <1>11, <1>1
       DEF ArmsTtl, GoOn, Goto, InstalledInv, DonePC, OneAdmin, SuspendInv, Safe,
           EveryContainerIsKnown, InHand, Existing, StopInv, Stopping, TakenPC
  <2>. QED
    BY <2>1, <2>2 DEF KnownInv
<1>12. ASSUME NEW t \in Admin, ArmsIdle(t) PROVE KnownInv'
  <2>1. ApplyInv'
    BY <1>12, <1>1 DEF ArmsIdle, GoOn, Goto, ApplyInv, Applying, Moved, Safe, OneAdmin
  <2>2. InstalledInv' /\ SuspendInv' /\ EveryContainerIsKnown' /\ StopInv'
    BY <1>12, <1>1
       DEF ArmsIdle, GoOn, Goto, InstalledInv, DonePC, OneAdmin, SuspendInv, Safe,
           EveryContainerIsKnown, InHand, Existing, StopInv, Stopping, TakenPC
  <2>. QED
    BY <2>1, <2>2 DEF KnownInv
<1>13. ASSUME NEW t \in Admin, Remembers(t) PROVE KnownInv'
  <2>1. ApplyInv'
    BY <1>13, <1>1 DEF Remembers, GoOn, Goto, ApplyInv, Applying, Moved, Safe, OneAdmin
  <2>2. InstalledInv' /\ SuspendInv' /\ EveryContainerIsKnown' /\ StopInv'
    BY <1>13, <1>1
       DEF Remembers, GoOn, Goto, InstalledInv, DonePC, OneAdmin, SuspendInv, Safe,
           EveryContainerIsKnown, InHand, Existing, StopInv, Stopping, TakenPC
  <2>. QED
    BY <2>1, <2>2 DEF KnownInv
<1>14. ASSUME NEW t \in Admin, Records(t) PROVE KnownInv'
  <2>1. EveryContainerIsKnown'
    BY <1>14
       DEF Records, Leave, Base, PlaceInv, EveryContainerIsKnown, InHand, Existing, StopPC,
           Applying, Stopping, Moved, ApplyInv, Safe, StopInv
  <2>2. InstalledInv' /\ SuspendInv' /\ ApplyInv' /\ StopInv'
    BY <1>14, <1>1
       DEF Records, Leave, InstalledInv, DonePC, GenInv, OneAdmin, SuspendInv, Safe, Base,
           TypeOK, LocalsOK, PlaceInv, ApplyInv, Applying, StopInv, Stopping
  <2>. QED
    BY <2>1, <2>2 DEF KnownInv
<1>15. ASSUME NEW t \in Admin, Stop(t) PROVE KnownInv'
  <2>1. StopInv'
    BY <1>15, NoFields
       DEF Stop, Begin, MayBegin, Busy, Base, StopInv, Stopping, Safe, TakenPC, WholeInv
  <2>2. InstalledInv' /\ SuspendInv' /\ EveryContainerIsKnown' /\ ApplyInv'
    BY <1>15, <1>1
       DEF Stop, Begin, MayBegin, Busy, InstalledInv, DonePC, OneAdmin, SuspendInv, Safe,
           EveryContainerIsKnown, InHand, Existing, ApplyInv, Applying, Moved
  <2>. QED
    BY <2>1, <2>2 DEF KnownInv
<1>16. ASSUME NEW t \in Admin, Remove(t) PROVE KnownInv'
  <2>1. StopInv'
    BY <1>16, NoFields
       DEF Remove, Begin, MayBegin, Busy, Base, StopInv, Stopping, Safe, TakenPC, WholeInv
  <2>2. InstalledInv' /\ SuspendInv' /\ EveryContainerIsKnown' /\ ApplyInv'
    BY <1>16, <1>1
       DEF Remove, Begin, MayBegin, Busy, InstalledInv, DonePC, OneAdmin, SuspendInv, Safe,
           EveryContainerIsKnown, InHand, Existing, ApplyInv, Applying, Moved
  <2>. QED
    BY <2>1, <2>2 DEF KnownInv
<1>17. ASSUME NEW t \in Admin \cup {Expirer}, Withdraws(t) PROVE KnownInv'
  <2>1. ApplyInv'
    BY <1>17, <1>1 DEF Withdraws, GoOn, Goto, ApplyInv, Applying, Moved, Safe, OneAdmin
  <2>2. InstalledInv' /\ SuspendInv' /\ EveryContainerIsKnown' /\ StopInv'
    BY <1>17, <1>1
       DEF Withdraws, GoOn, Goto, InstalledInv, DonePC, OneAdmin, SuspendInv, Safe,
           EveryContainerIsKnown, InHand, Existing, StopInv, Stopping, TakenPC
  <2>. QED
    BY <2>1, <2>2 DEF KnownInv
<1>18. ASSUME NEW t \in Admin \cup {Expirer}, Takes(t) PROVE KnownInv'
  <2>1. TakesDo(t)
    BY <1>18, TakesIs
  <2>2. ApplyInv'
    BY <1>18, <2>1, <1>1
       DEF TakesDo, Goto, Base, PlaceInv, ApplyInv, Applying, MadePC, ApplyPC, OneAdmin
  <2>3. EveryContainerIsKnown'
    BY <1>18, <2>1
       DEF TakesDo, Goto, Base, TypeOK, LocalsOK, EveryContainerIsKnown, InHand, Existing,
           MadePC, TakenPC, LocalInv
  <2>4. InstalledInv' /\ SuspendInv' /\ StopInv'
    BY <1>18, <2>1, <1>1
       DEF TakesDo, Goto, InstalledInv, OneAdmin, SuspendInv, Safe, StopInv, Stopping, DonePC,
           TakenPC
  <2>. QED
    BY <2>2, <2>3, <2>4 DEF KnownInv
<1>19. ASSUME NEW t \in Admin \cup {Expirer}, NothingToTake(t) PROVE KnownInv'
  <2>1. InstalledInv' /\ SuspendInv' /\ ApplyInv'
    BY <1>19, <1>1
       DEF NothingToTake, Leave, GoOn, Goto, InstalledInv, OneAdmin, Base, TypeOK, LocalsOK,
           SuspendInv, Safe, ApplyInv, Applying, Moved
  <2>2. StopInv' /\ EveryContainerIsKnown'
    BY <1>19
       DEF NothingToTake, Leave, GoOn, Goto, Base, TypeOK, LocalsOK, StopInv, Stopping, Safe,
           MadePC, LocalInv, EveryContainerIsKnown, InHand, Existing, TakenPC
  <2>. QED
    BY <2>1, <2>2 DEF KnownInv
<1>20. ASSUME NEW t \in Admin \cup {Expirer}, RemovesContainer(t) PROVE KnownInv'
  <2>1. EveryContainerIsKnown'
    BY <1>20, <1>1
       DEF RemovesContainer, Removed, NotRemoved, Becomes, Goto, Base, TypeOK, LocalsOK,
           EveryContainerIsKnown, InHand, Existing, OneAdmin
  <2>2. ApplyInv'
    BY <1>20, <1>1
       DEF RemovesContainer, Removed, NotRemoved, Becomes, Goto, Base, PlaceInv, ApplyInv,
           Applying, MadePC, ApplyPC, OneAdmin
  <2>3. InstalledInv' /\ SuspendInv'
    BY <1>20, Fields
       DEF RemovesContainer, Removed, NotRemoved, Becomes, Goto, Base, PlaceInv, InstalledInv,
           MadePC, ApplyPC, GenInv, TypeOK, LocalsOK, SuspendInv, Safe
  <2>4. StopInv'
    <3>1. pc[t] = "remove" /\ Stopping(t) /\ held[t] # None /\ held[t] \in AppRecord
      BY <1>20 DEF RemovesContainer, Base, PlaceInv, MadePC, ApplyPC, TypeOK, LocalsOK, Stopping
    <3>2. UNCHANGED <<op, copy, held, record>> /\ \E l \in {"reads", "files"} : pc' = [pc EXCEPT ![t] = l]
      BY <1>20, Zenon DEF RemovesContainer, Goto
    <3>3. \A c \in Container \cup {None} : Safe(c) => Safe(c)'
      BY <1>20, <3>1 DEF RemovesContainer, Removed, NotRemoved, Becomes, Safe, Base, TypeOK
    <3>4. Safe(held[t].container)'
      BY <1>20, <3>1, HeldFields
         DEF RemovesContainer, Removed, NotRemoved, Becomes, Safe, Base, TypeOK
    <3>5. Safe(record.container)'
      BY <1>20, <3>1, <3>2, <3>3, <3>4, Fields DEF StopInv, Base, TypeOK
    <3>6. /\ record.container \in Container \cup {None}
          /\ \A u \in Thread : held[u] # None => held[u].container \in Container
      BY <1>20, Fields, HeldFields DEF Base, TypeOK, LocalsOK
    <3>. QED
      BY <1>20, <3>2, <3>3, <3>4, <3>5, <3>6 DEF StopInv, Stopping
  <2>. QED
    BY <2>1, <2>2, <2>3, <2>4 DEF KnownInv
<1>21. ASSUME NEW t \in Admin \cup {Expirer}, RemovesFiles(t) PROVE KnownInv'
  <2>1. ApplyInv'
    BY <1>21, <1>1 DEF RemovesFiles, GoOn, Goto, ApplyInv, Applying, Moved, Safe, OneAdmin
  <2>2. InstalledInv' /\ SuspendInv' /\ EveryContainerIsKnown' /\ StopInv'
    BY <1>21, <1>1
       DEF RemovesFiles, GoOn, Goto, InstalledInv, DonePC, OneAdmin, SuspendInv, Safe,
           EveryContainerIsKnown, InHand, Existing, StopInv, Stopping, TakenPC
  <2>. QED
    BY <2>1, <2>2 DEF KnownInv
<1>22. ASSUME NEW t \in Admin \cup {Expirer}, StopReads(t) PROVE KnownInv'
  <2>1. StopReadsDo(t)
    BY <1>22, StopReadsIs
  <2>2. InstalledInv' /\ EveryContainerIsKnown' /\ SuspendInv'
    BY <1>22, <2>1, <1>1
       DEF StopReadsDo, StopReadsCopy, Goto, InstalledInv, DonePC, OneAdmin,
           EveryContainerIsKnown, InHand, Existing, Base, TypeOK, LocalsOK, SuspendInv, Safe
  <2>3. ApplyInv' /\ StopInv'
    BY <1>22, <2>1, <1>1
       DEF StopReadsDo, StopReadsCopy, Goto, Base, TypeOK, LocalsOK, ApplyInv, Applying, Moved,
           OneAdmin, PlaceInv, StopInv, Stopping, Safe, StopPC
  <2>. QED
    BY <2>2, <2>3 DEF KnownInv
<1>23. ASSUME NEW t \in Admin \cup {Expirer}, StopWrites(t) PROVE KnownInv'
  <2>1. SuspendInv'
    BY <1>23, <1>1
       DEF StopWrites, GoOn, Goto, Base, PlaceInv, SuspendInv, Safe, StopPC, Stopping, GenInv,
           StopInv, OneAdmin
  <2>2. EveryContainerIsKnown'
    BY <1>23
       DEF StopWrites, GoOn, Goto, Base, PlaceInv, EveryContainerIsKnown, InHand, Existing,
           StopPC, Applying, Stopping, Moved, ApplyInv, Safe, StopInv
  <2>3. StopInv' /\ InstalledInv' /\ ApplyInv'
    BY <1>23, <1>1
       DEF StopWrites, GoOn, Goto, StopInv, Stopping, Safe, TakenPC, OneAdmin, Base, PlaceInv,
           InstalledInv, MadePC, ApplyPC, GenInv, ApplyInv, Applying
  <2>. QED
    BY <2>1, <2>2, <2>3 DEF KnownInv
<1>24. ASSUME NEW t \in Admin \cup {Expirer}, Finishes(t) PROVE KnownInv'
  <2>1. FinishesDo(t)
    BY <1>24, FinishesIs
  <2>2. SuspendInv'
    BY <1>24, <2>1, NoFields
       DEF FinishesDo, Leave, Ended, SuspendInv, Safe, TakenPC, StopPC, Stopping, GenInv, StopInv
  <2>3. InstalledInv' /\ ApplyInv'
    BY <1>24, <2>1, <1>1
       DEF FinishesDo, Leave, Ended, InstalledInv, TakenPC, StopPC, GenInv, OneAdmin, Base,
           PlaceInv, ApplyInv, Applying
  <2>4. EveryContainerIsKnown' /\ StopInv'
    BY <1>24, <2>1, <1>1
       DEF FinishesDo, Leave, Ended, EveryContainerIsKnown, InHand, Existing, TakenPC, Stopping,
           Safe, StopInv, OneAdmin, Base, TypeOK, LocalsOK, PlaceInv
  <2>. QED
    BY <2>2, <2>3, <2>4 DEF KnownInv
<1>25. CASE TtlFires
  <2>1. StopInv'
    BY <1>25, NoFields
       DEF TtlFires, Begin, MayBegin, Busy, Base, StopInv, Stopping, Safe, TakenPC, WholeInv
  <2>2. InstalledInv' /\ SuspendInv' /\ EveryContainerIsKnown' /\ ApplyInv'
    BY <1>25, <1>1
       DEF TtlFires, Begin, MayBegin, Busy, InstalledInv, OneAdmin, SuspendInv, Safe,
           EveryContainerIsKnown, InHand, Existing, ApplyInv, Applying, Moved
  <2>. QED
    BY <2>1, <2>2 DEF KnownInv
<1>26. CASE ExpireChecks
  <2>1. EveryContainerIsKnown'
    BY <1>26
       DEF ExpireChecks, Goto, Leave, Base, TypeOK, LocalsOK, EveryContainerIsKnown, InHand,
           Existing, MadePC, TakenPC, LocalInv
  <2>2. InstalledInv' /\ SuspendInv' /\ StopInv' /\ ApplyInv'
    BY <1>26, <1>1
       DEF ExpireChecks, Goto, Leave, Base, TypeOK, LocalsOK, InstalledInv, OneAdmin, SuspendInv,
           Safe, StopInv, Stopping, TakenPC, ApplyInv, Applying, Moved
  <2>. QED
    BY <2>1, <2>2 DEF KnownInv
<1>27. CASE IdleFires
  BY <1>27, <1>1
     DEF IdleFires, Begin, MayBegin, Busy, InstalledInv, OneAdmin, SuspendInv, Safe,
         EveryContainerIsKnown, InHand, Existing, StopInv, Stopping, ApplyInv, Applying, Moved,
         KnownInv
<1>28. CASE SuspendLooksUp
  <2>1. InstalledInv' /\ SuspendInv' /\ EveryContainerIsKnown'
    BY <1>28, <1>1
       DEF SuspendLooksUp, GoOn, Leave, Goto, Base, TypeOK, LocalsOK, InstalledInv, OneAdmin,
           SuspendInv, Safe, EveryContainerIsKnown, InHand, Existing, LocalInv
  <2>2. StopInv' /\ ApplyInv'
    BY <1>28, <1>1
       DEF SuspendLooksUp, GoOn, Leave, Goto, Base, TypeOK, LocalsOK, StopInv, Stopping, Safe,
           OneAdmin, ApplyInv, Applying, Moved
  <2>. QED
    BY <2>1, <2>2 DEF KnownInv
<1>29. CASE SuspendChecks
  <2>1. InstalledInv' /\ SuspendInv' /\ EveryContainerIsKnown'
    BY <1>29, <1>1
       DEF SuspendChecks, GoOn, Leave, Goto, Base, TypeOK, LocalsOK, InstalledInv, OneAdmin,
           SuspendInv, Safe, EveryContainerIsKnown, InHand, Existing, LocalInv
  <2>2. StopInv' /\ ApplyInv'
    BY <1>29, <1>1
       DEF SuspendChecks, GoOn, Leave, Goto, Base, TypeOK, LocalsOK, StopInv, Stopping, Safe,
           OneAdmin, ApplyInv, Applying, Moved
  <2>. QED
    BY <2>1, <2>2 DEF KnownInv
<1>30. CASE SuspendPauses
  <2>1. EveryContainerIsKnown'
    BY <1>30, <1>1
       DEF SuspendPauses, Becomes, GoOn, Goto, Base, TypeOK, LocalsOK, EveryContainerIsKnown,
           InHand, Existing, OneAdmin
  <2>2. SuspendInv' /\ InstalledInv' /\ ApplyInv'
    BY <1>30, <1>1
       DEF SuspendPauses, Becomes, GoOn, Goto, SuspendInv, Safe, OneAdmin, Base, TypeOK,
           InstalledInv, DonePC, PlaceInv, ApplyInv, Applying
  <2>3. StopInv'
    <3>1. \A c \in Container \cup {None} : Safe(c) => Safe(c)'
      BY <1>30 DEF SuspendPauses, Becomes, Safe, Base, TypeOK
    <3>2. UNCHANGED <<op, copy, held, record>> /\ pc' = [pc EXCEPT ![Idler] = "reads"]
      BY <1>30 DEF SuspendPauses, GoOn, Goto
    <3>3. /\ record.container \in Container \cup {None}
          /\ \A u \in Thread : held[u] # None => held[u].container \in Container
      BY <1>30, Fields, HeldFields DEF Base, TypeOK, LocalsOK
    <3>. QED
      BY <1>30, <3>1, <3>2, <3>3 DEF StopInv, Stopping
  <2>. QED
    BY <2>1, <2>2, <2>3 DEF KnownInv
<1>31. CASE SuspendReads
  <2>1. SuspendReadsDo
    BY <1>31, SuspendReadsIs
  <2>2. ApplyInv'
    BY <1>31, <2>1, <1>1
       DEF SuspendReadsDo, SuspendReadsCopy, Goto, Base, TypeOK, LocalsOK, ApplyInv, Applying,
           Moved, OneAdmin
  <2>3. EveryContainerIsKnown' /\ InstalledInv' /\ SuspendInv' /\ StopInv'
    BY <1>31, <2>1, <1>1
       DEF SuspendReadsDo, SuspendReadsCopy, Goto, EveryContainerIsKnown, InHand, Existing,
           OneAdmin, Base, TypeOK, LocalsOK, InstalledInv, SuspendInv, Safe, StopInv, Stopping
  <2>. QED
    BY <2>2, <2>3 DEF KnownInv
<1>32. CASE SuspendWrites
  BY <1>32, <1>1
     DEF SuspendWrites, GoOn, Goto, InstalledInv, SuspendInv, OneAdmin, Safe,
         EveryContainerIsKnown, InHand, Existing, StopInv, Stopping, Base, PlaceInv, ApplyInv,
         Applying, KnownInv
<1>33. CASE SuspendFlags
  BY <1>33, <1>1
     DEF SuspendFlags, Leave, InstalledInv, OneAdmin, SuspendInv, Safe, StopInv, Stopping, Base,
         EveryContainerIsKnown, InHand, Existing, LocalInv, ApplyInv, Applying, Moved, KnownInv
<1>34. CASE ContainerExits
  BY <1>34, <1>1
     DEF ContainerExits, Becomes, InstalledInv, OneAdmin, SuspendInv, Safe,
         EveryContainerIsKnown, InHand, Existing, StopInv, Stopping, ApplyInv, Applying, Moved,
         KnownInv
<1>35. CASE Crash
  <2>1. EveryContainerIsKnown'
    BY <1>35
       DEF Crash, Ends, Busy, Base, EveryContainerIsKnown, InHand, Existing, MadePC, TakenPC,
           LocalInv, GenInv, InstalledInv
  <2>2. InstalledInv' /\ SuspendInv' /\ StopInv' /\ ApplyInv'
    BY <1>35, <1>1
       DEF Crash, Ends, Busy, InstalledInv, OneAdmin, SuspendInv, Safe, StopInv, Stopping,
           ApplyInv, Applying, Moved
  <2>. QED
    BY <2>1, <2>2 DEF KnownInv
<1>36. CASE Shutdown
  <2>1. EveryContainerIsKnown'
    BY <1>36
       DEF Shutdown, Ends, Busy, Removed, NotRemoved, Becomes, Base, TypeOK,
           EveryContainerIsKnown, InHand, Existing, MadePC, TakenPC, LocalInv
  <2>2. InstalledInv' /\ SuspendInv' /\ StopInv' /\ ApplyInv'
    BY <1>36, <1>1
       DEF Shutdown, Ends, Busy, Removed, NotRemoved, Becomes, InstalledInv, OneAdmin,
           SuspendInv, Safe, StopInv, Stopping, ApplyInv, Applying, Moved
  <2>. QED
    BY <2>1, <2>2 DEF KnownInv
<1>37. CASE BootStarts
  <2>1. BootStartsDo
    BY <1>37, BootStartsIs
  <2>. QED
    BY <1>37, <2>1, <1>1
       DEF BootStartsDo, Quiet, Restorable, InstalledInv, OneAdmin, SuspendInv, Safe,
           EveryContainerIsKnown, InHand, Existing, StopInv, Stopping, ApplyInv, Applying, Moved,
           KnownInv
<1>38. CASE BootFails
  <2>1. BootFailsDo
    BY <1>38, BootFailsIs
  <2>2. ApplyInv'
    BY <1>38, <2>1, <1>1
       DEF BootFailsDo, Quiet, Restorable, Ended, ApplyInv, Applying, Moved, Safe, OneAdmin
  <2>3. InstalledInv' /\ SuspendInv' /\ EveryContainerIsKnown' /\ StopInv'
    BY <1>38, <2>1, <1>1
       DEF BootFailsDo, Quiet, Restorable, Ended, InstalledInv, OneAdmin, SuspendInv, Safe,
           EveryContainerIsKnown, InHand, Existing, StopInv, Stopping
  <2>. QED
    BY <2>2, <2>3 DEF KnownInv
<1>39. CASE BootExpires
  <2>1. BootExpiresDo
    BY <1>39, BootExpiresIs
  <2>2. ApplyInv'
    BY <1>39, <2>1, <1>1
       DEF BootExpiresDo, Quiet, Restorable, Ended, Removed, NotRemoved, Becomes, ApplyInv,
           Applying, Moved, Safe, OneAdmin
  <2>3. EveryContainerIsKnown'
    BY <1>39, <2>1, <1>1
       DEF BootExpiresDo, Quiet, Restorable, Ended, Removed, NotRemoved, Becomes, Base, TypeOK,
           LocalsOK, EveryContainerIsKnown, InHand, Existing, OneAdmin
  <2>4. InstalledInv' /\ SuspendInv' /\ StopInv'
    BY <1>39, <2>1, <1>1
       DEF BootExpiresDo, Quiet, Restorable, Ended, Removed, NotRemoved, Becomes, InstalledInv,
           OneAdmin, SuspendInv, Safe, StopInv, Stopping
  <2>. QED
    BY <2>2, <2>3, <2>4 DEF KnownInv
<1>40. CASE BootSkips
  BY <1>40, <1>1
     DEF BootSkips, Restorable, InstalledInv, OneAdmin, SuspendInv, Safe, EveryContainerIsKnown,
         InHand, Existing, StopInv, Stopping, ApplyInv, Applying, Moved, KnownInv
<1>41. CASE UNCHANGED vars
  BY <1>41
     DEF vars, EveryContainerIsKnown, InstalledInv, ApplyInv, StopInv, SuspendInv, Existing,
         InHand, Applying, Stopping, Moved, Safe, KnownInv
<1>. QED
  BY <1>2, <1>3, <1>4, <1>5, <1>6, <1>7, <1>8, <1>9, <1>10, <1>11, <1>12, <1>13, <1>14, <1>15,
     <1>16, <1>17, <1>18, <1>19, <1>20, <1>21, <1>22, <1>23, <1>24, <1>25, <1>26, <1>27, <1>28,
     <1>29, <1>30, <1>31, <1>32, <1>33, <1>34, <1>35, <1>36, <1>37, <1>38, <1>39, <1>40, <1>41
     DEF Next, ApplyStep, StopStep, SuspendStep

\* LeaseInv is kept with Base and GenInv.
LEMMA LeaseStep ==
    ASSUME Base, overlap = {}, GenInv, ArmedInv, RunningInv, [Next]_vars
    PROVE  LeaseInv'
<1>1. OneThread
  BY Alone
<1>2. ASSUME NEW t \in Admin, Apply(t) PROVE LeaseInv'
  BY <1>2, <1>1
     DEF Apply, Begin, MayBegin, Busy, ArmedInv, Ending, DonePC, TakenPC, StopPC, OneThread,
         RunningInv, Applying, Stopping, LeaseSet, LeaseInv
<1>3. ASSUME NEW t \in Admin, ApplyMoves(t) PROVE LeaseInv'
  BY <1>3, <1>1
     DEF ApplyMoves, GoOn, Goto, RunningInv, Applying, Stopping, LeaseSet, OneThread, ArmedInv,
         Ending, DonePC, TakenPC, StopPC, LeaseInv
<1>4. ASSUME NEW t \in Admin, Creates(t) PROVE LeaseInv'
  <2>1. CreatesDo(t)
    BY <1>4, CreatesIs
  <2>. QED
    BY <1>4, <2>1, <1>1
       DEF CreatesDo, Fresh, Goto, RunningInv, Applying, Stopping, LeaseSet, OneThread, ArmedInv,
           Ending, DonePC, TakenPC, StopPC, LeaseInv
<1>5. ASSUME NEW t \in Admin, CreateFails(t) PROVE LeaseInv'
  <2>1. CreateFailsDo(t)
    BY <1>5, CreateFailsIs
  <2>. QED
    BY <1>5, <2>1, <1>1
       DEF CreateFailsDo, Fresh, GoOn, Goto, RunningInv, Applying, Stopping, LeaseSet, OneThread,
           ArmedInv, Ending, DonePC, TakenPC, StopPC, LeaseInv
<1>6. ASSUME NEW t \in Admin, Starts(t) PROVE LeaseInv'
  BY <1>6, <1>1
     DEF Starts, Becomes, GoOn, Goto, RunningInv, Applying, Stopping, LeaseSet, OneThread,
         ArmedInv, Ending, DonePC, TakenPC, StopPC, LeaseInv
<1>7. ASSUME NEW t \in Admin, StartFails(t) PROVE LeaseInv'
  BY <1>7, <1>1
     DEF StartFails, Becomes, GoOn, Goto, RunningInv, Applying, Stopping, LeaseSet, OneThread,
         ArmedInv, Ending, DonePC, TakenPC, StopPC, LeaseInv
<1>8. ASSUME NEW t \in Admin, Drops(t) PROVE LeaseInv'
  BY <1>8, <1>1
     DEF Drops, Becomes, GoOn, Goto, RunningInv, Applying, Stopping, LeaseSet, OneThread,
         ArmedInv, Ending, DonePC, TakenPC, StopPC, LeaseInv
<1>9. ASSUME NEW t \in Admin, RollsBack(t) PROVE LeaseInv'
  BY <1>9, <1>1
     DEF RollsBack, Leave, ArmedInv, Ending, DonePC, TakenPC, StopPC, OneThread, Base, PlaceInv,
         RunningInv, Applying, LeaseInv
<1>10. ASSUME NEW t \in Admin, Installs(t) PROVE LeaseInv'
  <2>1. RunningInv'
    BY <1>10, <1>1 DEF Installs, GoOn, Goto, RunningInv, Applying, Stopping, LeaseSet, OneThread
  <2>2. ArmedInv'
    <3>1. pc[t] = "install" /\ op[t] = "apply" /\ gen[t] = record.gen + 1 /\ ttlArmed <= record.gen
      BY <1>10, <1>1
         DEF Installs, Base, PlaceInv, StopPC, TakenPC, GenInv, Applying, ArmedInv, OneThread,
             DonePC
    <3>2. /\ UNCHANGED <<op, ttlArmed, record, gen, doc>> 
          /\ pc' = [pc EXCEPT ![t] = IF doc[t] \in Leased THEN "armTtl"
                                  ELSE IF doc[t] \in Idle THEN "armIdle" ELSE "remember"]
      BY <1>10 DEF Installs, GoOn, Goto
    <3>3. record.gen \in Nat /\ ttlArmed \in Nat
      BY <1>10, Fields, Types DEF Base, TypeOK
    <3>. QED
      BY <1>10, <3>1, <3>2, <3>3 DEF ArmedInv, Ending, Stopping
  <2>. QED
    BY <2>1, <2>2 DEF LeaseInv
<1>11. ASSUME NEW t \in Admin, ArmsTtl(t) PROVE LeaseInv'
  <2>1. RunningInv'
    BY <1>11, <1>1
       DEF ArmsTtl, GoOn, Goto, Base, PlaceInv, RunningInv, Applying, Stopping, OneThread
  <2>2. ArmedInv'
    BY <1>11, <1>1, Fields
       DEF ArmsTtl, GoOn, Goto, Base, TypeOK, LocalsOK, PlaceInv, ArmedInv, Ending, DonePC,
           TakenPC, StopPC, Applying, GenInv, OneThread
  <2>. QED
    BY <2>1, <2>2 DEF LeaseInv
<1>12. ASSUME NEW t \in Admin, ArmsIdle(t) PROVE LeaseInv'
  BY <1>12, <1>1
     DEF ArmsIdle, GoOn, Goto, RunningInv, Applying, Stopping, LeaseSet, OneThread, ArmedInv,
         Ending, DonePC, TakenPC, StopPC, LeaseInv
<1>13. ASSUME NEW t \in Admin, Remembers(t) PROVE LeaseInv'
  BY <1>13, <1>1
     DEF Remembers, GoOn, Goto, RunningInv, Applying, Stopping, LeaseSet, OneThread, ArmedInv,
         Ending, DonePC, TakenPC, StopPC, LeaseInv
<1>14. ASSUME NEW t \in Admin, Records(t) PROVE LeaseInv'
  BY <1>14, <1>1
     DEF Records, Leave, Base, TypeOK, LocalsOK, ArmedInv, Ending, Stopping, DonePC, OneThread,
         PlaceInv, RunningInv, Applying, LeaseSet, LeaseInv
<1>15. ASSUME NEW t \in Admin, Stop(t) PROVE LeaseInv'
  BY <1>15
     DEF Stop, Begin, MayBegin, Busy, ArmedInv, Ending, DonePC, TakenPC, StopPC, Base, PlaceInv,
         RunningInv, Applying, Stopping, LeaseSet, LeaseInv
<1>16. ASSUME NEW t \in Admin, Remove(t) PROVE LeaseInv'
  BY <1>16
     DEF Remove, Begin, MayBegin, Busy, ArmedInv, Ending, DonePC, TakenPC, StopPC, Base,
         PlaceInv, RunningInv, Applying, Stopping, LeaseSet, LeaseInv
<1>17. ASSUME NEW t \in Admin \cup {Expirer}, Withdraws(t) PROVE LeaseInv'
  BY <1>17, <1>1, Fields
     DEF Withdraws, GoOn, Goto, Base, TypeOK, ArmedInv, DonePC, OneThread, LocalsOK, PlaceInv,
         RunningInv, Applying, Stopping, LeaseInv
<1>18. ASSUME NEW t \in Admin \cup {Expirer}, Takes(t) PROVE LeaseInv'
  <2>1. TakesDo(t)
    BY <1>18, TakesIs
  <2>. QED
    BY <1>18, <2>1, <1>1
       DEF TakesDo, Goto, ArmedInv, Ending, Stopping, DonePC, StopPC, OneThread, RunningInv,
           Applying, LeaseSet, LeaseInv
<1>19. ASSUME NEW t \in Admin \cup {Expirer}, NothingToTake(t) PROVE LeaseInv'
  BY <1>19
     DEF NothingToTake, Leave, GoOn, Goto, Base, RunningInv, WholeInv, TypeOK, LocalsOK,
         ArmedInv, Ending, Stopping, DonePC, StopPC, LeaseInv
<1>20. ASSUME NEW t \in Admin \cup {Expirer}, RemovesContainer(t) PROVE LeaseInv'
  BY <1>20, <1>1
     DEF RemovesContainer, Removed, NotRemoved, Becomes, Goto, ArmedInv, Ending, Stopping,
         DonePC, StopPC, OneThread, RunningInv, Applying, LeaseSet, LeaseInv
<1>21. ASSUME NEW t \in Admin \cup {Expirer}, RemovesFiles(t) PROVE LeaseInv'
  BY <1>21, <1>1
     DEF RemovesFiles, GoOn, Goto, RunningInv, Applying, Stopping, LeaseSet, OneThread, ArmedInv,
         Ending, DonePC, TakenPC, StopPC, LeaseInv
<1>22. ASSUME NEW t \in Admin \cup {Expirer}, StopReads(t) PROVE LeaseInv'
  <2>1. StopReadsDo(t)
    BY <1>22, StopReadsIs
  <2>2. ArmedInv'
    BY <1>22, <2>1
       DEF StopReadsDo, StopReadsCopy, Goto, Base, TypeOK, LocalsOK, ArmedInv, Ending, Stopping,
           DonePC, TakenPC, StopPC
  <2>3. RunningInv'
    BY <1>22, <2>1, <1>1, NoFields
       DEF StopReadsDo, StopReadsCopy, Goto, Base, TypeOK, LocalsOK, PlaceInv, RunningInv,
           Applying, Stopping, GenInv, OneThread
  <2>. QED
    BY <2>2, <2>3 DEF LeaseInv
<1>23. ASSUME NEW t \in Admin \cup {Expirer}, StopWrites(t) PROVE LeaseInv'
  BY <1>23, Fields
     DEF StopWrites, GoOn, Goto, Base, RunningInv, WholeInv, TypeOK, LocalsOK, PlaceInv,
         ArmedInv, Ending, Stopping, MadePC, ApplyPC, DonePC, LeaseInv
<1>24. ASSUME NEW t \in Admin \cup {Expirer}, Finishes(t) PROVE LeaseInv'
  <2>1. FinishesDo(t)
    BY <1>24, FinishesIs
  <2>. QED
    BY <1>24, <2>1, NoFields, Fields
       DEF FinishesDo, Leave, Ended, RunningInv, Base, PlaceInv, ArmedInv, Ending, Stopping,
           DonePC, LeaseInv
<1>25. CASE TtlFires
  BY <1>25, Fields
     DEF TtlFires, Begin, MayBegin, Busy, Base, TypeOK, ArmedInv, DonePC, LocalsOK, PlaceInv,
         RunningInv, Applying, Stopping, LeaseSet, LeaseInv
<1>26. CASE ExpireChecks
  BY <1>26, <1>1, NoFields
     DEF ExpireChecks, Goto, Leave, Base, TypeOK, LocalsOK, ArmedInv, Ending, Stopping,
         OneThread, PlaceInv, RunningInv, Applying, LeaseSet, WholeInv, LeaseInv
<1>27. CASE IdleFires
  BY <1>27, <1>1
     DEF IdleFires, Begin, MayBegin, Busy, Base, PlaceInv, RunningInv, Applying, Stopping,
         LeaseSet, OneThread, TypeOK, LocalsOK, ArmedInv, Ending, LeaseInv
<1>28. CASE SuspendLooksUp
  BY <1>28, <1>1
     DEF SuspendLooksUp, GoOn, Leave, Goto, Base, TypeOK, LocalsOK, PlaceInv, ArmedInv, Ending,
         Stopping, OneThread, RunningInv, Applying, LeaseSet, LeaseInv
<1>29. CASE SuspendChecks
  BY <1>29, <1>1
     DEF SuspendChecks, GoOn, Leave, Goto, Base, TypeOK, LocalsOK, PlaceInv, ArmedInv, Ending,
         Stopping, OneThread, RunningInv, Applying, LeaseSet, LeaseInv
<1>30. CASE SuspendPauses
  BY <1>30, <1>1
     DEF SuspendPauses, Becomes, GoOn, Goto, RunningInv, Applying, Stopping, LeaseSet, OneThread,
         Base, TypeOK, LocalsOK, PlaceInv, ArmedInv, Ending, LeaseInv
<1>31. CASE SuspendReads
  <2>1. SuspendReadsDo
    BY <1>31, SuspendReadsIs
  <2>. QED
    BY <1>31, <2>1
       DEF SuspendReadsDo, SuspendReadsCopy, Goto, Base, TypeOK, LocalsOK, PlaceInv, ArmedInv,
           Ending, Stopping, RunningInv, Applying, LeaseSet, LeaseInv
<1>32. CASE SuspendWrites
  BY <1>32
     DEF SuspendWrites, GoOn, Goto, Base, RunningInv, WholeInv, PlaceInv, ArmedInv, Ending,
         Stopping, GenInv, LeaseInv
<1>33. CASE SuspendFlags
  BY <1>33, <1>1
     DEF SuspendFlags, Leave, Base, PlaceInv, RunningInv, Applying, Stopping, LeaseSet,
         OneThread, TypeOK, LocalsOK, ArmedInv, Ending, LeaseInv
<1>34. CASE ContainerExits
  BY <1>34, <1>1
     DEF ContainerExits, Becomes, ArmedInv, Ending, Stopping, OneThread, RunningInv, Applying,
         LeaseSet, LeaseInv
<1>35. CASE Crash
  BY <1>35, Fields, <1>1
     DEF Crash, Ends, Busy, Base, TypeOK, ArmedInv, DonePC, OneThread, RunningInv, Applying,
         Stopping, LeaseSet, LeaseInv
<1>36. CASE Shutdown
  BY <1>36, Fields, <1>1
     DEF Shutdown, Ends, Busy, Removed, NotRemoved, Becomes, Base, TypeOK, ArmedInv, DonePC,
         OneThread, RunningInv, Applying, Stopping, LeaseSet, LeaseInv
<1>37. CASE BootStarts
  <2>1. BootStartsDo
    BY <1>37, BootStartsIs
  <2>. QED
    BY <1>37, <2>1, Fields
       DEF BootStartsDo, Quiet, Restorable, Base, RunningInv, Applying, LeaseSet, WholeInv,
           TypeOK, ArmedInv, Ending, Stopping, DonePC, LeaseInv
<1>38. CASE BootFails
  <2>1. BootFailsDo
    BY <1>38, BootFailsIs
  <2>. QED
    BY <1>38, <2>1, <1>1
       DEF BootFailsDo, Quiet, Restorable, Ended, ArmedInv, Ending, Stopping, OneThread,
           RunningInv, Applying, LeaseSet, LeaseInv
<1>39. CASE BootExpires
  <2>1. BootExpiresDo
    BY <1>39, BootExpiresIs
  <2>. QED
    BY <1>39, <2>1, <1>1
       DEF BootExpiresDo, Quiet, Restorable, Ended, Removed, NotRemoved, Becomes, ArmedInv,
           Ending, Stopping, OneThread, RunningInv, Applying, LeaseSet, LeaseInv
<1>40. CASE BootSkips
  BY <1>40, <1>1
     DEF BootSkips, Restorable, Base, RunningInv, WholeInv, OneThread, ArmedInv, Ending,
         Stopping, LeaseInv
<1>41. CASE UNCHANGED vars
  BY <1>41 DEF vars, ArmedInv, RunningInv, Ending, Applying, Stopping, LeaseSet, LeaseInv
<1>. QED
  BY <1>2, <1>3, <1>4, <1>5, <1>6, <1>7, <1>8, <1>9, <1>10, <1>11, <1>12, <1>13, <1>14, <1>15,
     <1>16, <1>17, <1>18, <1>19, <1>20, <1>21, <1>22, <1>23, <1>24, <1>25, <1>26, <1>27, <1>28,
     <1>29, <1>30, <1>31, <1>32, <1>33, <1>34, <1>35, <1>36, <1>37, <1>38, <1>39, <1>40, <1>41
     DEF Next, ApplyStep, StopStep, SuspendStep

\* AgreeInv is kept with the others.
LEMMA AgreeStep ==
    ASSUME Base, overlap = {}, ~CrashAnywhere, GenInv, RunningInv, EveryContainerIsKnown,
           InstalledInv, ApplyInv, StopInv, SuspendInv, DirInv, BackupInv, RunsInv, [Next]_vars
    PROVE  AgreeInv'
<1>1. OneThread
  BY Alone
<1>2. ASSUME NEW t \in Admin, Apply(t) PROVE AgreeInv'
  <2>1. DirInv'
    BY <1>2
       DEF Apply, Begin, MayBegin, Busy, Base, TypeOK, LocalsOK, PlaceInv, DirInv, Applying,
           Moved, Safe
  <2>2. BackupInv' /\ RunsInv'
    BY <1>2, <1>1
       DEF Apply, Begin, MayBegin, Busy, BackupInv, OneThread, RunsInv, Installed, DonePC
  <2>. QED
    BY <2>1, <2>2 DEF AgreeInv
<1>3. ASSUME NEW t \in Admin, ApplyMoves(t) PROVE AgreeInv'
  <2>1. DirInv'
    BY <1>3, <1>1
       DEF ApplyMoves, GoOn, Goto, Base, TypeOK, LocalsOK, PlaceInv, DirInv, Applying, Moved,
           MadePC, ApplyPC, TakenPC, StopPC, OneThread
  <2>2. RunsInv' /\ BackupInv'
    BY <1>3, <1>1
       DEF ApplyMoves, GoOn, Goto, RunsInv, Stopping, Installed, DonePC, OneThread, Base, TypeOK,
           LocalsOK, BackupInv
  <2>. QED
    BY <2>1, <2>2 DEF AgreeInv
<1>4. ASSUME NEW t \in Admin, Creates(t) PROVE AgreeInv'
  <2>1. CreatesDo(t)
    BY <1>4, CreatesIs
  <2>. QED
    BY <1>4, <2>1, <1>1
       DEF CreatesDo, Fresh, Goto, BackupInv, OneThread, DirInv, Applying, Moved, Safe, ApplyPC,
           RunsInv, Stopping, Installed, DonePC, AgreeInv
<1>5. ASSUME NEW t \in Admin, CreateFails(t) PROVE AgreeInv'
  <2>1. CreateFailsDo(t)
    BY <1>5, CreateFailsIs
  <2>2. DirInv'
    BY <1>5, <2>1
       DEF CreateFailsDo, Fresh, GoOn, Goto, Base, PlaceInv, DirInv, Applying, Moved, TakenPC,
           StopPC
  <2>3. BackupInv' /\ RunsInv'
    BY <1>5, <2>1, <1>1
       DEF CreateFailsDo, Fresh, GoOn, Goto, BackupInv, OneThread, RunsInv, Stopping, Installed,
           DonePC
  <2>. QED
    BY <2>2, <2>3 DEF AgreeInv
<1>6. ASSUME NEW t \in Admin, Starts(t) PROVE AgreeInv'
  <2>1. DirInv'
    BY <1>6
       DEF Starts, Becomes, GoOn, Goto, Base, PlaceInv, DirInv, Applying, Moved, TakenPC, StopPC
  <2>2. BackupInv' /\ RunsInv'
    BY <1>6, <1>1
       DEF Starts, Becomes, GoOn, Goto, BackupInv, OneThread, RunsInv, Stopping, Installed,
           DonePC
  <2>. QED
    BY <2>1, <2>2 DEF AgreeInv
<1>7. ASSUME NEW t \in Admin, StartFails(t) PROVE AgreeInv'
  <2>1. DirInv'
    BY <1>7
       DEF StartFails, Becomes, GoOn, Goto, Base, PlaceInv, DirInv, Applying, Moved, TakenPC,
           StopPC
  <2>2. BackupInv' /\ RunsInv'
    BY <1>7, <1>1
       DEF StartFails, Becomes, GoOn, Goto, BackupInv, OneThread, RunsInv, Stopping, Installed,
           DonePC
  <2>. QED
    BY <2>1, <2>2 DEF AgreeInv
<1>8. ASSUME NEW t \in Admin, Drops(t) PROVE AgreeInv'
  <2>1. DirInv'
    BY <1>8
       DEF Drops, Becomes, GoOn, Goto, Base, PlaceInv, DirInv, Applying, Moved, TakenPC, StopPC
  <2>2. BackupInv' /\ RunsInv'
    BY <1>8, <1>1
       DEF Drops, Becomes, GoOn, Goto, BackupInv, OneThread, RunsInv, Stopping, Installed, DonePC
  <2>. QED
    BY <2>1, <2>2 DEF AgreeInv
<1>9. ASSUME NEW t \in Admin, RollsBack(t) PROVE AgreeInv'
  <2>1. DirInv'
    BY <1>9, <1>1
       DEF RollsBack, Leave, Base, TypeOK, LocalsOK, PlaceInv, DirInv, Applying, Moved, Safe,
           MadePC, ApplyPC, StopPC, Stopping, ApplyInv, StopInv, OneThread
  <2>2. BackupInv' /\ RunsInv'
    BY <1>9, <1>1
       DEF RollsBack, Leave, BackupInv, OneThread, Base, PlaceInv, RunsInv, Stopping, Installed,
           DonePC, TakenPC, StopPC
  <2>. QED
    BY <2>1, <2>2 DEF AgreeInv
<1>10. ASSUME NEW t \in Admin, Installs(t) PROVE AgreeInv'
  <2>1. RunsInv'
    BY <1>10
       DEF Installs, GoOn, Goto, Base, TypeOK, LocalsOK, PlaceInv, RunsInv, Installed, DonePC,
           TakenPC, StopPC, Applying, RunningInv
  <2>2. BackupInv' /\ DirInv'
    BY <1>10, <1>1
       DEF Installs, GoOn, Goto, BackupInv, OneThread, DirInv, Applying, Moved, Safe, MadePC,
           ApplyPC
  <2>. QED
    BY <2>1, <2>2 DEF AgreeInv
<1>11. ASSUME NEW t \in Admin, ArmsTtl(t) PROVE AgreeInv'
  BY <1>11, <1>1
     DEF ArmsTtl, GoOn, Goto, BackupInv, OneThread, RunsInv, Stopping, Installed, DonePC, DirInv,
         Applying, Moved, Safe, MadePC, ApplyPC, AgreeInv
<1>12. ASSUME NEW t \in Admin, ArmsIdle(t) PROVE AgreeInv'
  BY <1>12, <1>1
     DEF ArmsIdle, GoOn, Goto, BackupInv, OneThread, RunsInv, Stopping, Installed, DonePC,
         DirInv, Applying, Moved, Safe, MadePC, ApplyPC, AgreeInv
<1>13. ASSUME NEW t \in Admin, Remembers(t) PROVE AgreeInv'
  BY <1>13, <1>1
     DEF Remembers, GoOn, Goto, BackupInv, OneThread, RunsInv, Stopping, Installed, DonePC,
         DirInv, Applying, Moved, Safe, MadePC, ApplyPC, AgreeInv
<1>14. ASSUME NEW t \in Admin, Records(t) PROVE AgreeInv'
  BY <1>14, <1>1
     DEF Records, Leave, BackupInv, OneThread, Base, TypeOK, LocalsOK, DirInv, MadePC, ApplyPC,
         PlaceInv, RunsInv, DonePC, LocalInv, Applying, GenInv, AgreeInv
<1>15. ASSUME NEW t \in Admin, Stop(t) PROVE AgreeInv'
  <2>1. DirInv'
    BY <1>15
       DEF Stop, Begin, MayBegin, Busy, Base, PlaceInv, DirInv, Applying, Moved, Safe, MadePC,
           ApplyPC
  <2>2. BackupInv' /\ RunsInv'
    BY <1>15, <1>1
       DEF Stop, Begin, MayBegin, Busy, BackupInv, OneThread, Base, PlaceInv, RunsInv, Stopping,
           Installed, DonePC
  <2>. QED
    BY <2>1, <2>2 DEF AgreeInv
<1>16. ASSUME NEW t \in Admin, Remove(t) PROVE AgreeInv'
  <2>1. DirInv'
    BY <1>16
       DEF Remove, Begin, MayBegin, Busy, Base, PlaceInv, DirInv, Applying, Moved, Safe, MadePC,
           ApplyPC
  <2>2. BackupInv' /\ RunsInv'
    BY <1>16, <1>1
       DEF Remove, Begin, MayBegin, Busy, BackupInv, OneThread, Base, PlaceInv, RunsInv,
           Stopping, Installed, DonePC
  <2>. QED
    BY <2>1, <2>2 DEF AgreeInv
<1>17. ASSUME NEW t \in Admin \cup {Expirer}, Withdraws(t) PROVE AgreeInv'
  BY <1>17, <1>1
     DEF Withdraws, GoOn, Goto, BackupInv, OneThread, RunsInv, Stopping, Installed, DonePC,
         DirInv, Applying, Moved, Safe, MadePC, ApplyPC, AgreeInv
<1>18. ASSUME NEW t \in Admin \cup {Expirer}, Takes(t) PROVE AgreeInv'
  <2>1. TakesDo(t)
    BY <1>18, TakesIs
  <2>2. RunsInv'
    BY <1>18, <2>1
       DEF TakesDo, Goto, Base, TypeOK, LocalsOK, PlaceInv, RunsInv, Stopping, MadePC, ApplyPC
  <2>3. BackupInv' /\ DirInv'
    BY <1>18, <2>1, <1>1
       DEF TakesDo, Goto, BackupInv, OneThread, DirInv, Applying, Moved, Safe, MadePC, ApplyPC
  <2>. QED
    BY <2>2, <2>3 DEF AgreeInv
<1>19. ASSUME NEW t \in Admin \cup {Expirer}, NothingToTake(t) PROVE AgreeInv'
  BY <1>19, <1>1
     DEF NothingToTake, Leave, GoOn, Goto, BackupInv, OneThread, Base, TypeOK, LocalsOK, RunsInv,
         Stopping, Installed, DirInv, Safe, MadePC, ApplyPC, AgreeInv
<1>20. ASSUME NEW t \in Admin \cup {Expirer}, RemovesContainer(t) PROVE AgreeInv'
  <2>1. DirInv'
    BY <1>20, Fields
       DEF RemovesContainer, Removed, NotRemoved, Becomes, Goto, Base, TypeOK, DirInv, Applying,
           Moved, Safe, MadePC, ApplyPC
  <2>2. BackupInv' /\ RunsInv'
    BY <1>20, <1>1
       DEF RemovesContainer, Removed, NotRemoved, Becomes, Goto, BackupInv, OneThread, RunsInv,
           Stopping, Installed, DonePC
  <2>. QED
    BY <2>1, <2>2 DEF AgreeInv
<1>21. ASSUME NEW t \in Admin \cup {Expirer}, RemovesFiles(t) PROVE AgreeInv'
  <2>1. DirInv'
    BY <1>21, <1>1
       DEF RemovesFiles, GoOn, Goto, Base, PlaceInv, DirInv, Safe, MadePC, ApplyPC, StopPC,
           Stopping, StopInv, OneThread
  <2>2. BackupInv' /\ RunsInv'
    BY <1>21, <1>1
       DEF RemovesFiles, GoOn, Goto, BackupInv, OneThread, RunsInv, Stopping, Installed, DonePC
  <2>. QED
    BY <2>1, <2>2 DEF AgreeInv
<1>22. ASSUME NEW t \in Admin \cup {Expirer}, StopReads(t) PROVE AgreeInv'
  <2>1. StopReadsDo(t)
    BY <1>22, StopReadsIs
  <2>2. DirInv'
    BY <1>22, <2>1
       DEF StopReadsDo, StopReadsCopy, Goto, Base, TypeOK, LocalsOK, DirInv, Applying, Moved,
           Safe, MadePC, ApplyPC
  <2>3. BackupInv' /\ RunsInv'
    BY <1>22, <2>1, <1>1
       DEF StopReadsDo, StopReadsCopy, Goto, BackupInv, OneThread, Base, TypeOK, LocalsOK,
           RunsInv, Stopping, Installed, DonePC
  <2>. QED
    BY <2>2, <2>3 DEF AgreeInv
<1>23. ASSUME NEW t \in Admin \cup {Expirer}, StopWrites(t) PROVE AgreeInv'
  <2>1. DirInv'
    BY <1>23, <1>1
       DEF StopWrites, GoOn, Goto, Base, PlaceInv, DirInv, Safe, MadePC, ApplyPC, Stopping,
           StopInv, OneThread
  <2>2. BackupInv' /\ RunsInv'
    BY <1>23, <1>1
       DEF StopWrites, GoOn, Goto, BackupInv, OneThread, Base, RunsInv, TakenPC, StopPC,
           WholeInv, GenInv
  <2>. QED
    BY <2>1, <2>2 DEF AgreeInv
<1>24. ASSUME NEW t \in Admin \cup {Expirer}, Finishes(t) PROVE AgreeInv'
  <2>1. FinishesDo(t)
    BY <1>24, FinishesIs
  <2>2. DirInv'
    BY <1>24, <2>1, <1>1, NoFields
       DEF FinishesDo, Leave, Ended, DirInv, Applying, Moved, Safe, MadePC, ApplyPC, OneThread
  <2>3. BackupInv' /\ RunsInv'
    BY <1>24, <2>1, <1>1, NoFields
       DEF FinishesDo, Leave, Ended, BackupInv, OneThread, RunsInv, TakenPC, StopPC, GenInv,
           RunningInv
  <2>. QED
    BY <2>2, <2>3 DEF AgreeInv
<1>25. CASE TtlFires
  <2>1. RunsInv'
    BY <1>25, <1>1
       DEF TtlFires, Begin, MayBegin, Busy, Base, TypeOK, LocalsOK, PlaceInv, RunsInv, Stopping,
           Installed, OneThread
  <2>2. BackupInv' /\ DirInv'
    BY <1>25, <1>1
       DEF TtlFires, Begin, MayBegin, Busy, BackupInv, OneThread, Base, PlaceInv, DirInv,
           Applying, Moved, Safe, MadePC, ApplyPC
  <2>. QED
    BY <2>1, <2>2 DEF AgreeInv
<1>26. CASE ExpireChecks
  <2>1. DirInv'
    BY <1>26
       DEF ExpireChecks, Goto, Leave, Base, TypeOK, LocalsOK, PlaceInv, DirInv, Applying, Moved,
           Safe, MadePC, ApplyPC
  <2>2. BackupInv' /\ RunsInv'
    BY <1>26, <1>1
       DEF ExpireChecks, Goto, Leave, BackupInv, OneThread, Base, TypeOK, LocalsOK, RunsInv,
           Stopping, Installed
  <2>. QED
    BY <2>1, <2>2 DEF AgreeInv
<1>27. CASE IdleFires
  <2>1. RunsInv'
    BY <1>27, <1>1
       DEF IdleFires, Begin, MayBegin, Busy, Base, TypeOK, LocalsOK, PlaceInv, RunsInv, Stopping,
           Installed, OneThread
  <2>2. BackupInv' /\ DirInv'
    BY <1>27, <1>1
       DEF IdleFires, Begin, MayBegin, Busy, BackupInv, OneThread, Base, PlaceInv, DirInv,
           Applying, Moved, Safe, MadePC, ApplyPC
  <2>. QED
    BY <2>1, <2>2 DEF AgreeInv
<1>28. CASE SuspendLooksUp
  <2>1. DirInv'
    BY <1>28
       DEF SuspendLooksUp, GoOn, Leave, Goto, Base, TypeOK, LocalsOK, PlaceInv, DirInv, Applying,
           Moved, Safe, MadePC, ApplyPC
  <2>2. BackupInv' /\ RunsInv'
    BY <1>28, <1>1
       DEF SuspendLooksUp, GoOn, Leave, Goto, BackupInv, OneThread, Base, TypeOK, LocalsOK,
           PlaceInv, RunsInv, Stopping, Installed
  <2>. QED
    BY <2>1, <2>2 DEF AgreeInv
<1>29. CASE SuspendChecks
  <2>1. DirInv'
    BY <1>29
       DEF SuspendChecks, GoOn, Leave, Goto, Base, TypeOK, LocalsOK, PlaceInv, DirInv, Applying,
           Moved, Safe, MadePC, ApplyPC
  <2>2. BackupInv' /\ RunsInv'
    BY <1>29, <1>1
       DEF SuspendChecks, GoOn, Leave, Goto, BackupInv, OneThread, Base, TypeOK, LocalsOK,
           RunsInv, Stopping, Installed
  <2>. QED
    BY <2>1, <2>2 DEF AgreeInv
<1>30. CASE SuspendPauses
  BY <1>30, <1>1
     DEF SuspendPauses, Becomes, GoOn, Goto, BackupInv, OneThread, RunsInv, Stopping, Installed,
         DirInv, Applying, Moved, Safe, MadePC, ApplyPC, AgreeInv
<1>31. CASE SuspendReads
  <2>1. SuspendReadsDo
    BY <1>31, SuspendReadsIs
  <2>2. DirInv'
    BY <1>31, <2>1
       DEF SuspendReadsDo, SuspendReadsCopy, Goto, Base, TypeOK, LocalsOK, DirInv, Applying,
           Moved, Safe, MadePC, ApplyPC
  <2>3. BackupInv' /\ RunsInv'
    BY <1>31, <2>1, <1>1
       DEF SuspendReadsDo, SuspendReadsCopy, Goto, BackupInv, OneThread, Base, TypeOK, LocalsOK,
           RunsInv, Stopping, Installed
  <2>. QED
    BY <2>2, <2>3 DEF AgreeInv
<1>32. CASE SuspendWrites
  BY <1>32, <1>1
     DEF SuspendWrites, GoOn, Goto, BackupInv, OneThread, Base, RunsInv, WholeInv, DirInv,
         Applying, Moved, Safe, MadePC, ApplyPC, SuspendInv, AgreeInv
<1>33. CASE SuspendFlags
  <2>1. RunsInv'
    BY <1>33, <1>1
       DEF SuspendFlags, Leave, Base, TypeOK, LocalsOK, PlaceInv, RunsInv, Stopping, Installed,
           OneThread
  <2>2. BackupInv' /\ DirInv'
    BY <1>33, <1>1
       DEF SuspendFlags, Leave, BackupInv, OneThread, Base, PlaceInv, DirInv, Applying, Moved,
           Safe, MadePC, ApplyPC
  <2>. QED
    BY <2>1, <2>2 DEF AgreeInv
<1>34. CASE ContainerExits
  BY <1>34, <1>1
     DEF ContainerExits, Becomes, BackupInv, OneThread, RunsInv, Stopping, Installed, DirInv,
         Applying, Moved, Safe, AgreeInv
<1>35. CASE Crash
  BY <1>35, <1>1
     DEF Crash, Ends, Busy, BackupInv, OneThread, RunsInv, Stopping, Installed, Base, PlaceInv,
         DirInv, Applying, Moved, Safe, MadePC, ApplyPC, AgreeInv
<1>36. CASE Shutdown
  <2>1. DirInv'
    BY <1>36, Fields
       DEF Shutdown, Ends, Busy, Removed, NotRemoved, Becomes, Base, TypeOK, PlaceInv, DirInv,
           Applying, Moved, Safe, MadePC, ApplyPC, LocalInv, GenInv, InstalledInv
  <2>2. BackupInv' /\ RunsInv'
    BY <1>36, <1>1
       DEF Shutdown, Ends, Busy, Removed, NotRemoved, Becomes, BackupInv, OneThread, RunsInv,
           Stopping, Installed
  <2>. QED
    BY <2>1, <2>2 DEF AgreeInv
<1>37. CASE BootStarts
  <2>1. BootStartsDo
    BY <1>37, BootStartsIs
  <2>. QED
    BY <1>37, <2>1, <1>1
       DEF BootStartsDo, Quiet, Restorable, BackupInv, OneThread, RunsInv, Stopping, Installed,
           DirInv, Applying, Moved, Safe, AgreeInv
<1>38. CASE BootFails
  <2>1. BootFailsDo
    BY <1>38, BootFailsIs
  <2>. QED
    BY <1>38, <2>1, <1>1
       DEF BootFailsDo, Quiet, Restorable, Ended, BackupInv, OneThread, RunsInv, Stopping,
           Installed, DirInv, Applying, Moved, Safe, AgreeInv
<1>39. CASE BootExpires
  <2>1. BootExpiresDo
    BY <1>39, BootExpiresIs
  <2>2. RunsInv'
    BY <1>39, <2>1, <1>1
       DEF BootExpiresDo, Quiet, Restorable, Ended, Removed, NotRemoved, Becomes, RunsInv,
           Stopping, Installed, OneThread
  <2>3. BackupInv' /\ DirInv'
    BY <1>39, <2>1, <1>1
       DEF BootExpiresDo, Quiet, Restorable, Ended, Removed, NotRemoved, Becomes, BackupInv,
           OneThread, DirInv, Safe, MadePC, ApplyPC
  <2>. QED
    BY <2>2, <2>3 DEF AgreeInv
<1>40. CASE BootSkips
  BY <1>40, <1>1
     DEF BootSkips, Restorable, BackupInv, OneThread, Base, RunsInv, WholeInv, DownInv, DirInv,
         Applying, Moved, Safe, AgreeInv
<1>41. CASE UNCHANGED vars
  BY <1>41
     DEF vars, DirInv, BackupInv, RunsInv, Applying, Moved, Safe, Stopping, Installed, AgreeInv
<1>. QED
  BY <1>2, <1>3, <1>4, <1>5, <1>6, <1>7, <1>8, <1>9, <1>10, <1>11, <1>12, <1>13, <1>14, <1>15,
     <1>16, <1>17, <1>18, <1>19, <1>20, <1>21, <1>22, <1>23, <1>24, <1>25, <1>26, <1>27, <1>28,
     <1>29, <1>30, <1>31, <1>32, <1>33, <1>34, <1>35, <1>36, <1>37, <1>38, <1>39, <1>40, <1>41
     DEF Next, ApplyStep, StopStep, SuspendStep

----------------------------------------------------------------------------
(* The invariant, and the properties *)

\* It holds before the first step.
LEMMA InitInv == ASSUME Init PROVE IInv
<1>1. TypeOK
  BY Types DEF Init, TypeOK, LocalsOK, PC
<1>2. \A t \in Thread : /\ pc[t] = "idle" /\ op[t] = "none" /\ held[t] = None
                        /\ old[t] = NoRecord /\ copy[t] = NoRecord
  BY DEF Init
<1>3. record = NoRecord /\ dockerApp = None /\ ttlArmed = 0 /\ up /\ backup = None
  BY DEF Init
<1>4. PlaceInv /\ OverlapInv /\ DownInv
  BY <1>2, <1>3 DEF PlaceInv, OverlapInv, DownInv, Busy
<1>5. WholeInv /\ LocalInv /\ LabelInv
  BY <1>2, <1>3, NoFields
     DEF WholeInv, LocalInv, LabelInv, Labelled, Applying, StopPC, TakenPC
<1>6. GenInv
  BY <1>2, <1>3 DEF GenInv, Applying, Stopping, DonePC, StopPC, TakenPC
<1>7. KnownInv
  BY <1>2, <1>3
     DEF Init, KnownInv, EveryContainerIsKnown, Existing, InstalledInv, ApplyInv, StopInv,
         SuspendInv, Applying, Stopping
<1>8. LeaseInv
  BY <1>2, <1>3, NoFields
     DEF LeaseInv, ArmedInv, RunningInv, Ending, Applying, Stopping, DonePC
<1>9. AgreeInv
  BY <1>2, <1>3, NoFields DEF Init, AgreeInv, DirInv, BackupInv, RunsInv, Safe, ApplyPC, MadePC
<1>. QED
  BY <1>1, <1>4, <1>5, <1>6, <1>7, <1>8, <1>9 DEF IInv, Base

\* The choice of what may overlap is made once.
LEMMA OverlapStays == ASSUME [Next]_vars PROVE UNCHANGED overlap
<1>1. ASSUME NEW t \in Admin, ApplyStep(t) \/ Stop(t) \/ Remove(t) PROVE UNCHANGED overlap
  BY <1>1
     DEF ApplyStep, Apply, ApplyMoves, Creates, CreateFails, Starts, StartFails, Drops, RollsBack,
         Installs, ArmsTtl, ArmsIdle, Remembers, Records, Stop, Remove
<1>2. ASSUME NEW t \in Thread \ {Idler}, StopStep(t) PROVE UNCHANGED overlap
  BY <1>2
     DEF StopStep, Withdraws, Takes, NothingToTake, RemovesContainer, RemovesFiles, StopReads,
         StopWrites, Finishes
<1>3. CASE TtlFires \/ ExpireChecks \/ SuspendStep
  BY <1>3
     DEF TtlFires, ExpireChecks, SuspendStep, IdleFires, SuspendLooksUp, SuspendChecks,
         SuspendPauses, SuspendReads, SuspendWrites, SuspendFlags
<1>4. CASE ContainerExits \/ Crash \/ Shutdown
  BY <1>4 DEF ContainerExits, Crash, Shutdown, Ends
<1>5. CASE BootStarts \/ BootFails \/ BootExpires \/ BootSkips
  BY <1>5 DEF BootStarts, BootFails, BootExpires, BootSkips
<1>6. CASE UNCHANGED vars
  BY <1>6 DEF vars
<1>. QED
  BY <1>1, <1>2, <1>3, <1>4, <1>5, <1>6 DEF Next

\* The five levels together are inductive.
LEMMA StepInv == ASSUME IInv, [Next]_vars PROVE IInv'
<1>1. Base /\ UNCHANGED overlap
  BY OverlapStays DEF IInv
<1>2. Base'
  BY <1>1, BaseStep
<1>3. Apart => GenInv /\ GenInv'
  BY <1>1, GenStep DEF IInv
<1>4. ASSUME Apart, ~CrashAnywhere PROVE KnownInv /\ KnownInv'
  <2>1. GenInv /\ KnownInv
    BY <1>4, <1>3 DEF IInv
  <2>2. EveryContainerIsKnown /\ InstalledInv /\ ApplyInv /\ StopInv /\ SuspendInv
    BY <2>1 DEF KnownInv
  <2>. QED
    BY <1>1, <1>4, <2>1, <2>2, KnownStep
<1>5. ASSUME overlap = {} PROVE Apart /\ LeaseInv /\ LeaseInv'
  <2>1. Apart
    BY <1>5 DEF Apart
  <2>2. GenInv /\ LeaseInv
    BY <1>5, <1>3, <2>1 DEF IInv
  <2>3. ArmedInv /\ RunningInv
    BY <2>2 DEF LeaseInv
  <2>. QED
    BY <1>1, <1>5, <2>1, <2>2, <2>3, LeaseStep
<1>6. ASSUME overlap = {}, ~CrashAnywhere PROVE AgreeInv'
  <2>1. Apart /\ RunningInv
    BY <1>5, <1>6 DEF LeaseInv
  <2>2. GenInv /\ KnownInv /\ AgreeInv
    BY <1>3, <1>4, <1>6, <2>1 DEF IInv
  <2>3. EveryContainerIsKnown /\ InstalledInv /\ ApplyInv /\ StopInv /\ SuspendInv
    BY <2>2 DEF KnownInv
  <2>4. DirInv /\ BackupInv /\ RunsInv
    BY <2>2 DEF AgreeInv
  <2>. QED
    BY <1>1, <1>6, <2>1, <2>2, <2>3, <2>4, AgreeStep
<1>7. Apart' <=> Apart
  BY <1>1 DEF Apart
<1>. QED
  BY <1>1, <1>2, <1>3, <1>4, <1>5, <1>6, <1>7 DEF IInv

\* The inductive invariant: the five levels hold in every behaviour that has the
\* threads overlap which they name.
THEOREM Invariance == Spec => []IInv
<1>1. Init => IInv
  BY InitInv
<1>2. IInv /\ [Next]_vars => IInv'
  BY StepInv
<1>. QED
  BY <1>1, <1>2, PTL DEF Spec

\* The variables keep their types, in the handlers, the callbacks, the end of the
\* server and its boot alike.
THEOREM TypeCorrect == Spec => []TypeOK
<1>1. IInv => TypeOK
  BY DEF IInv, Base
<1>. QED
  BY <1>1, Invariance, PTL

\* The label of a container that dockerApps or the record names is the generation
\* named with it, whatever overlaps and wherever the server ends.
THEOREM LabelIsTrue == Spec => []LabelInv
<1>1. IInv => LabelInv
  BY DEF IInv, Base
<1>. QED
  BY <1>1, Invariance, PTL

\* A container that exists is in dockerApps, in the record or in the hands of a
\* call, wherever one of the Docker commands of a handler fails.
THEOREM NoStray == ASSUME ~CrashAnywhere PROVE Spec => []NoStrayContainer
<1>1. IInv => NoStrayContainer
  BY DEF IInv, KnownInv, Apart, NoStrayContainer
<1>. QED
  BY <1>1, Invariance, PTL

\* At rest dockerApps, the record and the directory are of one apply, also after
\* one that failed and was rolled back.
THEOREM RunsAgree == ASSUME ~CrashAnywhere PROVE Spec => []AgreesOnWhatRuns
<1>1. ASSUME IInv PROVE AgreesOnWhatRuns
  <2> SUFFICES ASSUME overlap = {}, AtRest
               PROVE  /\ record.status = "running" =>
                          dockerApp = [container |-> record.container, gen |-> record.gen]
                      /\ dockerApp # None =>
                          /\ dockerApp.container = record.container /\ dockerApp.gen = record.gen
                          /\ appDir = record.doc \/ record.container \in orphaned
                          /\ record.status = "running" \/ record.suspended
                      /\ backup = None
    BY <1>1 DEF IInv, Base, AgreesOnWhatRuns
  <2>1. up /\ \A t \in Thread : pc[t] = "idle" /\ op[t] = "none"
    BY <1>1 DEF AtRest, Busy, IInv, Base, PlaceInv
  <2>2. Apart
    BY DEF Apart
  <2>3. GenInv /\ InstalledInv /\ DirInv /\ BackupInv /\ RunsInv
    BY <1>1, <2>2 DEF IInv, KnownInv, AgreeInv
  <2>4. dockerApp # None => dockerApp \in AppRecord
    BY <1>1 DEF IInv, Base, TypeOK
  <2>5. \A t \in Thread : ~Stopping(t) /\ ~Moved(t) /\ ~Installed(t) /\ pc[t] \notin DonePC
    BY <2>1 DEF Stopping, Moved, Applying, Installed, DonePC
  <2>6. record.status = "running" =>
            dockerApp # None /\ dockerApp.container = record.container /\ dockerApp.gen = record.gen
    BY <2>1, <2>3, <2>5 DEF RunsInv
  <2>7. ASSUME dockerApp # None
        PROVE  /\ dockerApp.container = record.container /\ dockerApp.gen = record.gen
               /\ appDir = record.doc \/ record.container \in orphaned
               /\ record.status = "running" \/ record.suspended
    <3>1. dockerApp.container = record.container /\ docker[record.container] # "none"
      BY <2>3, <2>5, <2>7 DEF InstalledInv
    <3>2. dockerApp.gen = record.gen
      BY <2>3, <2>5, <2>7 DEF GenInv
    <3>3. record.container # None
      BY <2>4, <2>7, <3>1, HeldFields
    <3>4. appDir = record.doc \/ record.container \in orphaned
      BY <2>3, <2>5, <3>1, <3>3 DEF DirInv, Safe
    <3>5. record.status = "running" \/ record.suspended
      BY <2>3, <2>5, <2>7 DEF RunsInv
    <3>. QED
      BY <3>1, <3>2, <3>4, <3>5
  <2>8. backup = None
    BY <2>1, <2>3 DEF BackupInv
  <2>9. record.status = "running" =>
            dockerApp = [container |-> record.container, gen |-> record.gen]
    BY <2>4, <2>6, HeldFields
  <2>. QED
    BY <2>7, <2>8, <2>9
<1>. QED
  BY <1>1, Invariance, PTL

\* At rest a running app has the deadline of its own generation exactly if its
\* document has a TTL.
THEOREM LeaseKept == Spec => []LeaseIsKept
<1>1. ASSUME IInv PROVE LeaseIsKept
  <2> SUFFICES ASSUME overlap = {}, AtRest, record.status = "running" PROVE LeaseSet
    BY DEF LeaseIsKept, LeaseSet
  <2>1. up /\ \A t \in Thread : ~Stopping(t)
    BY <1>1 DEF AtRest, Busy, IInv, Base, PlaceInv, Stopping
  <2>. QED
    BY <1>1, <2>1 DEF IInv, LeaseInv, RunningInv
<1>. QED
  BY <1>1, Invariance, PTL

\* Only Takes brings the callback of the scheduler from take to remove.
LEMMA OnlyTakes ==
    ASSUME Base, Next, pc[Expirer] = "take", pc'[Expirer] = "remove"
    PROVE  Takes(Expirer)
<1>1. pc \in [Thread -> PC] /\ op \in [Thread -> {"none", "apply", "stop", "remove", "expire", "suspend"}]
  BY DEF Base, TypeOK, LocalsOK
<1>2. ASSUME NEW t \in Admin, ApplyStep(t) \/ Stop(t) \/ Remove(t) PROVE FALSE
  BY <1>1, <1>2
     DEF ApplyStep, Apply, ApplyMoves, Creates, CreateFails, Starts, StartFails, Drops, RollsBack,
         Installs, ArmsTtl, ArmsIdle, Remembers, Records, Stop, Remove, Begin, Goto, GoOn, Leave
<1>3. ASSUME NEW t \in Thread \ {Idler}, StopStep(t) PROVE Takes(Expirer)
  BY <1>1, <1>3
     DEF StopStep, Withdraws, NothingToTake, RemovesContainer, RemovesFiles, StopReads,
         StopWrites, Finishes, Goto, GoOn, Leave, Takes
<1>4. CASE TtlFires \/ ExpireChecks \/ SuspendStep
  BY <1>1, <1>4
     DEF TtlFires, ExpireChecks, SuspendStep, IdleFires, SuspendLooksUp, SuspendChecks,
         SuspendPauses, SuspendReads, SuspendWrites, SuspendFlags, Begin, Goto, GoOn, Leave
<1>5. CASE ContainerExits \/ Crash \/ Shutdown
  BY <1>1, <1>5 DEF ContainerExits, Crash, Shutdown, Ends
<1>6. CASE BootStarts \/ BootFails \/ BootExpires \/ BootSkips
  BY <1>6 DEF BootStarts, BootFails, BootExpires, BootSkips
<1>. QED
  BY <1>2, <1>3, <1>4, <1>5, <1>6 DEF Next

\* The callback of the scheduler removes only a container of the generation its
\* deadline was set for.
THEOREM CallbackIsCurrent == Spec => CallbackEndsItsOwn
<1>1. ASSUME IInv, [Next]_vars
      PROVE  [overlap \cap Admin = {} /\ pc[Expirer] = "take" /\ pc'[Expirer] = "remove" =>
                  label[held'[Expirer].container] = gen[Expirer]]_vars
  <2> SUFFICES ASSUME Next, Apart, pc[Expirer] = "take", pc'[Expirer] = "remove"
               PROVE  label[held'[Expirer].container] = gen[Expirer]
    BY <1>1 DEF Apart
  <2>1. Base /\ GenInv
    BY <1>1 DEF IInv
  <2>2. LabelInv
    BY <2>1 DEF Base
  <2>3. TakesDo(Expirer)
    BY <2>1, OnlyTakes, TakesIs
  <2>4. OneAdmin
    BY <2>1, Company
  <2>5. gen[Expirer] = record.gen /\ \A t \in Admin : ~Installed(t)
    BY <2>1, <2>4 DEF GenInv, OneAdmin, Installed, StopPC, DonePC
  <2>. QED
    BY <2>1, <2>2, <2>3, <2>5 DEF TakesDo, LabelInv, Labelled, GenInv
<1>. QED
  BY <1>1, Invariance, PTL DEF Spec, CallbackEndsItsOwn
=============================================================================
