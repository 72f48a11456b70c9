----------------------- MODULE DeclarativeApp_proofs -----------------------
(***************************************************************************)
(* Proofs about DeclarativeApp, for any callers and configurations and any *)
(* number of processes, of an app that is not removed: what the record     *)
(* says between calls, and whose process an expiry ends.                   *)
(***************************************************************************)
EXTENDS DeclarativeApp, TLAPS

\* Where the handler of each operation may be.
Places(o) ==
    CASE o = "none"    -> {"idle"}
      [] o = "apply"   -> {"preserve", "activate", "launch", "rollback", "announce", "insert",
                           "inform", "record", "settle", "correct", "arm"}
      [] o = "start"   -> {"register", "launch", "announce", "insert"}
      [] o = "stop"    -> {"stop", "stopEvent"}
      [] o = "restart" -> {"stopEvent", "relaunch", "announce", "reannounce", "read", "inquire",
                           "rearm", "rewrite"}

\* A thread is at a place of its operation, a restart knows the process it has stopped or
\* started, and expireApp only expires.
ThreadInv ==
    /\ pc[Expirer] \in {"idle", "check", "stop", "stopEvent", "expired", "cleanupFailed"}
    /\ op[Expirer] = "none"
    /\ \A c \in Caller : /\ op[c] # "remove" /\ pc[c] \in Places(op[c])
                         /\ op[c] = "restart" => mine[c] # 0

\* The app lock is held just at the places between a runtime call and its end.
LockInv ==
    \A t \in Thread :
        lock = t <=> pc[t] \in {"announce", "insert", "reannounce", "stopEvent", "relaunch"}

\* Who holds the lock has stopped the process, or started the one that runs.
HolderInv ==
    \A t \in Thread :
        /\ pc[t] \in {"stopEvent", "relaunch"} => proc = 0
        /\ pc[t] \in {"announce", "insert", "reannounce"} => proc \in {0, mine[t]}

\* Only processes that were started are known to anybody.
NumberInv ==
    /\ proc <= started /\ record.pid <= started /\ record.life <= started
    /\ \A t \in Thread : /\ mine[t] <= started /\ info[t] <= started
                         /\ copy[t].pid <= started /\ copy[t].life <= started
                         /\ seen[t].pid <= started /\ seen[t].life <= started

\* The caller has started a process and has not returned.
Has(c) ==
    pc[c] \in {"announce", "insert", "inform", "record", "settle", "correct", "arm",
               "reannounce", "read", "inquire", "rearm", "rewrite"}

\* No process was started by two callers.
MineInv ==
    \A c \in Caller : Has(c) =>
        /\ mine[c] # 0
        /\ \A d \in Caller \ {c} : Has(d) => mine[d] # mine[c]

\* An apply or a restart that has started its process and has still to record it.
Renews(c) == Unrecorded(c) /\ op[c] # "start"

\* Nobody has read its life in the record before.
FreshInv ==
    \A c \in Caller : Renews(c) =>
        /\ record.life # mine[c]
        /\ \A t \in Thread : copy[t].life # mine[c] /\ seen[t].life # mine[c]

\* A process without a Manager is one whose start has still to put it into the registry; a
\* restart leaves its own there.
ManagedInv ==
    /\ proc # 0 /\ ~managed =>
        \E c \in Caller : pc[c] \in {"announce", "insert"} /\ mine[c] = proc
    /\ \A c \in Caller :
        op[c] = "restart" /\ pc[c] \in {"stopEvent", "relaunch", "announce", "reannounce"}
            => managed

\* An apply that knows a process knows its own, if that runs.
InfoInv == \A c \in Caller : pc[c] = "record" /\ proc = mine[c] => info[c] = proc

\* A deadline is only set for an app that was applied, and stays applied.
ConfigInv ==
    /\ record.config = Nobody =>
        /\ armed = Nobody /\ firing = Nobody
        /\ \A c \in Caller :
            pc[c] \notin {"settle", "correct", "arm", "inquire", "rearm", "rewrite"}
    /\ \A c \in Caller : /\ pc[c] \in {"inquire", "rearm", "rewrite"} => copy[c].config # Nobody
                         /\ pc[c] = "correct" => seen[c].config # Nobody
                         /\ op[c] = "apply" => want[c] # Nobody
    /\ pc[Expirer] # "idle" => firing # Nobody
    /\ pc[Expirer] \in {"stop", "stopEvent", "expired", "cleanupFailed"}
         => copy[Expirer].config # Nobody

\* Until an update is lost, a copy is not ahead of the record, and one with its life is of its
\* generation.
VersionInv ==
    /\ record.life = 0 => record.gen = 0
    /\ \A t \in Thread : /\ copy[t].gen <= record.gen
                         /\ copy[t].life = record.life => copy[t].gen = record.gen

\* What runs is recorded, or about to be announced.
RunsInv ==
    proc # 0 => \/ record.status = "running" /\ record.pid = proc
                \/ \E c \in Caller : pc[c] = "announce" /\ mine[c] = proc

\* When nothing runs, an event is to come that says so; or the record says so, but for an
\* apply that is still to correct the status.
EndsInv ==
    proc = 0 =>
        \/ late # {}
        \/ \E t \in Thread : pc[t] = "stopEvent"
        \/ /\ record.status # "running" \/ \E c \in Caller : pc[c] \in {"settle", "correct"}
           /\ record.pid = 0

\* The record has reached the generation of the deadline d, and if it is at it, d was set for
\* its life.
Behind(d) == d.gen < record.gen \/ (d.gen = record.gen /\ d.life = record.life)

\* The deadline that an apply and a restart set.
Version(c) == [gen |-> copy[c].gen + 1, life |-> mine[c]]

\* The record has reached every deadline but those of restarts that are to write it next.
DeadlineInv ==
    /\ \A d \in {armed, firing} \ {Nobody} :
        Behind(d) \/ (\E c \in Caller : pc[c] = "rewrite" /\ d = Version(c))
    /\ \A c \in Caller : pc[c] \in {"settle", "correct", "arm"} => Behind(Version(c))

\* An apply or restart gives its process its own life.
BornInv == \A c \in Caller : Renews(c) => life[mine[c]] = mine[c]

\* What runs has the life of the record, until its apply or restart has recorded it; an app
\* that was never applied has none.
LifeInv ==
    proc # 0 => \/ life[proc] = record.life
                \/ record.config = Nobody
                \/ \E c \in Caller : Renews(c) /\ mine[c] = proc

\* What expireApp stops is what its deadline was set for.
StopInv == pc[Expirer] = "stop" /\ proc # 0 => life[proc] = firing.life

\* What holds whatever is lost.
Base ==
    /\ TypeOK /\ ThreadInv /\ LockInv /\ HolderInv /\ NumberInv /\ MineInv /\ FreshInv /\ BornInv
    /\ ManagedInv /\ InfoInv /\ ConfigInv

\* What holds until an older fact is written over a newer one.
TrueInv == VersionInv /\ RunsInv /\ EndsInv /\ DeadlineInv

\* What holds until a start crosses an expiry as well.
OwnInv == LifeInv /\ StopInv

\* The inductive invariant.
IInv == Base /\ (~lost => TrueInv) /\ (~lost /\ ~crossed => OwnInv)

\* Where a thread is says which operation it runs.
LEMMA PlaceOf ==
    ASSUME TypeOK, ThreadInv, NEW c \in Caller
    PROVE  /\ op[c] \in {"none", "apply", "start", "stop", "restart"}
           /\ pc[c] = "idle" <=> op[c] = "none"
           /\ pc[c] \in {"relaunch", "reannounce", "read", "inquire", "rearm", "rewrite"}
                => op[c] = "restart"
           /\ pc[c] \in {"preserve", "activate", "rollback", "inform", "record", "settle",
                         "correct", "arm"} => op[c] = "apply"
           /\ pc[c] = "insert" => op[c] \in {"apply", "start"}
           /\ pc[c] = "register" => op[c] = "start"
           /\ pc[c] = "launch" => op[c] \in {"apply", "start"}
           /\ pc[c] = "announce" => op[c] \in {"apply", "start", "restart"}
           /\ pc[c] = "stop" => op[c] = "stop"
           /\ pc[c] = "stopEvent" => op[c] \in {"stop", "restart"}
           /\ pc[c] \notin {"unregister", "deregister", "check", "expired", "cleanupFailed"}
  <1>1. op[c] \in {"none", "apply", "start", "stop", "restart"}
    BY ConstantsAssumption DEF TypeOK, ThreadInv, Thread
  <1>2. pc[c] \in Places(op[c])
    BY DEF ThreadInv
  <1> QED
    BY <1>1, <1>2 DEF Places

\* The steps of a caller, and those of expireApp.
Acts(c) ==
    \/ ApplyReads(c) \/ Cancels(c) \/ StartChecks(c) \/ RestartStops(c)
    \/ StartApp(c) \/ StartAppFails(c)
    \/ Rollback(c) \/ Announce(c) \/ Insert(c) \/ PreservePrevious(c) \/ Activate(c)
    \/ ApplyAsks(c) \/ ApplyRecords(c) \/ ApplySettles(c) \/ ApplyCorrects(c) \/ ApplyArms(c)
    \/ StopApp(c) \/ StopAppFails(c) \/ StopAppEnds(c)
    \/ Register(c) \/ Relaunch(c) \/ RelaunchFails(c) \/ Reannounce(c)
    \/ RestartReads(c) \/ RestartAsks(c) \/ RestartArms(c) \/ RestartRecords(c)

Expires ==
    \/ Fire \/ ExpireChecks \/ ExpireRecords
    \/ StopApp(Expirer) \/ StopAppFails(Expirer) \/ StopAppEnds(Expirer)

\* A step is one of a caller or of expireApp, or an exit or its event.
LEMMA NextCases ==
    ASSUME TypeOK, ThreadInv, [Next]_vars
    PROVE  \/ \E c \in Caller : Acts(c)
           \/ Expires \/ Exits \/ ExitEvent \/ UNCHANGED vars
  <1>1. \A c \in Caller : ~Unregister(c) /\ ~Deregister(c)
    BY PlaceOf DEF Unregister, Deregister
  <1>2. ~StartApp(Expirer) /\ ~StartAppFails(Expirer) /\ ~Unregister(Expirer)
    BY DEF ThreadInv, StartApp, StartAppFails, Unregister
  <1> QED
    BY <1>1, <1>2 DEF Acts, Expires, Next, Call, Continue, Locked, Expire, Thread

\* What a thread knows is its own.
Same(t) ==
    /\ pc'[t] = pc[t] /\ op'[t] = op[t] /\ copy'[t] = copy[t] /\ seen'[t] = seen[t]
    /\ mine'[t] = mine[t] /\ info'[t] = info[t] /\ want'[t] = want[t]

\* Leaving and going on concern one thread.
LEMMA OthersStay ==
    ASSUME TypeOK, NEW t \in Thread, NEW u \in Thread \ {t}
    PROVE  /\ Leave(t) => Same(u)
           /\ \A l : GoOn(t, l) => Same(u)
           /\ UNCHANGED callVars => Same(u)
  BY DEF TypeOK, Leave, GoOn, Goto, Same, callVars

\* A step of one thread leaves the others where they are.
LEMMA OnlyOneMoves ==
    ASSUME TypeOK, ThreadInv, NEW t \in Thread, NEW u \in Thread \ {t},
           (t \in Caller /\ Acts(t)) \/ (t = Expirer /\ Expires)
    PROVE  Same(u)
  <1>1. CASE t \in Caller /\ (ApplyReads(t) \/ Cancels(t) \/ StartChecks(t) \/ RestartStops(t))
    BY <1>1 DEF ApplyReads, Cancels, StartChecks, RestartStops, Begin, Goto, Same, TypeOK
  <1>2. CASE t \in Caller /\ (StartApp(t) \/ Relaunch(t) \/ ApplyAsks(t) \/ RestartAsks(t))
    BY <1>2 DEF StartApp, Relaunch, ApplyAsks, RestartAsks, Launch, Goto, Same, TypeOK
  <1>3. CASE RestartReads(t) \/ ApplySettles(t)
    BY <1>3, OthersStay DEF RestartReads, ApplySettles, Goto, Same, TypeOK
  <1>4. CASE ExpireChecks /\ t = Expirer
    BY <1>4, OthersStay DEF ExpireChecks, Goto, Same, TypeOK
  <1>5. CASE Fire /\ t = Expirer
    BY <1>5 DEF Fire, Goto, Same, TypeOK
  <1>6. CASE t \in Caller /\ (Announce(t) \/ Insert(t) \/ Reannounce(t) \/ StartAppFails(t))
    BY <1>6, OthersStay DEF Announce, Insert, Reannounce, StartAppFails
  <1>7. CASE StopApp(t) \/ StopAppFails(t) \/ StopAppEnds(t)
    <2>1. op[t] \in {"none", "stop", "restart"} \/ pc[t] \notin {"stop", "stopEvent"}
      BY PlaceOf DEF ThreadInv, Thread
    <2>2. pc[t] = "stop" => op[t] \in {"none", "stop"}
      BY PlaceOf DEF ThreadInv, Thread
    <2> QED
      BY <1>7, <2>1, <2>2, OthersStay DEF StopApp, StopAppFails, StopAppEnds
  <1>8. CASE t \in Caller /\ (Rollback(t) \/ PreservePrevious(t) \/ Activate(t) \/ ApplyRecords(t)
                                \/ ApplyCorrects(t) \/ ApplyArms(t))
    BY <1>8, OthersStay
       DEF Rollback, PreservePrevious, Activate, ApplyRecords, ApplyCorrects, ApplyArms
  <1>9. CASE Register(t) \/ RelaunchFails(t) \/ RestartArms(t) \/ RestartRecords(t)
    BY <1>9, OthersStay DEF Register, RelaunchFails, RestartArms, RestartRecords
  <1>10. CASE ExpireRecords /\ t = Expirer
    BY <1>10, OthersStay DEF ExpireRecords
  <1> QED
    BY <1>1, <1>2, <1>3, <1>4, <1>5, <1>6, <1>7, <1>8, <1>9, <1>10 DEF Acts, Expires

\* A thread that does not stay where it is has taken a step of its own.
LEMMA Moves ==
    ASSUME TypeOK, ThreadInv, [Next]_vars
    PROVE  /\ \A c \in Caller : Same(c) \/ Acts(c)
           /\ Same(Expirer) \/ Expires
  <1>1. ASSUME NEW d \in Caller, Acts(d)
        PROVE  /\ \A c \in Caller : Same(c) \/ Acts(c)
               /\ Same(Expirer) \/ Expires
    BY <1>1, OnlyOneMoves, ConstantsAssumption DEF Thread
  <1>2. CASE Expires
    BY <1>2, OnlyOneMoves, ConstantsAssumption DEF Thread
  <1>3. CASE Exits \/ ExitEvent \/ UNCHANGED vars
    BY <1>3 DEF Exits, ExitEvent, vars, callVars, Same
  <1> QED
    BY <1>1, <1>2, <1>3, NextCases

\* A thread that leaves forgets, and one that goes on keeps what it knows.
Keeps(t) ==
    /\ op'[t] = op[t] /\ copy'[t] = copy[t] /\ seen'[t] = seen[t]
    /\ mine'[t] = mine[t] /\ info'[t] = info[t] /\ want'[t] = want[t]

Forgets(t) ==
    /\ pc'[t] = "idle" /\ op'[t] = "none" /\ copy'[t] = NoRecord /\ seen'[t] = NoRecord
    /\ mine'[t] = 0 /\ info'[t] = 0 /\ want'[t] = Nobody

\* What leaving and going on do to the thread.
LEMMA Effects ==
    ASSUME TypeOK, NEW t \in Thread
    PROVE  /\ Leave(t) => Forgets(t)
           /\ \A l : Goto(t, l) => pc'[t] = l
           /\ \A l : GoOn(t, l) => pc'[t] = l /\ Keeps(t)
  BY DEF TypeOK, Leave, GoOn, Goto, Forgets, Keeps

\* What each step does to the caller that takes it.
Steps(c) ==
    \/ Forgets(c)
    \/ /\ seen'[c] = seen[c]
       /\ \/ ApplyReads(c) /\ pc'[c] = "preserve" /\ op'[c] = "apply" /\ copy'[c] = record
               /\ mine'[c] = mine[c] /\ info'[c] = info[c] /\ want'[c] \in Config
          \/ Cancels(c) /\ pc'[c] = "stop" /\ op'[c] = "stop" /\ copy'[c] = copy[c]
               /\ mine'[c] = mine[c] /\ info'[c] = info[c] /\ want'[c] = want[c]
          \/ StartChecks(c) /\ pc'[c] = "register" /\ op'[c] = "start" /\ copy'[c] = copy[c]
               /\ mine'[c] = mine[c] /\ info'[c] = info[c] /\ want'[c] = want[c]
          \/ RestartStops(c) /\ pc'[c] = "stopEvent" /\ op'[c] = "restart" /\ mine'[c] = proc
               /\ copy'[c] = copy[c] /\ info'[c] = info[c] /\ want'[c] = want[c]
          \/ (StartApp(c) \/ Relaunch(c)) /\ pc'[c] = "announce" /\ mine'[c] = started + 1
               /\ op'[c] = op[c] /\ copy'[c] = copy[c] /\ info'[c] = info[c] /\ want'[c] = want[c]
          \/ ApplyAsks(c) /\ pc'[c] = "record" /\ info'[c] = AppInfo
               /\ op'[c] = op[c] /\ copy'[c] = copy[c] /\ mine'[c] = mine[c] /\ want'[c] = want[c]
          \/ RestartReads(c) /\ pc'[c] = "inquire" /\ copy'[c] = record /\ record.config # Nobody
               /\ op'[c] = op[c] /\ mine'[c] = mine[c] /\ info'[c] = info[c] /\ want'[c] = want[c]
          \/ RestartAsks(c) /\ pc'[c] = "rearm" /\ info'[c] = AppInfo
               /\ op'[c] = op[c] /\ copy'[c] = copy[c] /\ mine'[c] = mine[c] /\ want'[c] = want[c]
    \/ ApplySettles(c) /\ pc'[c] = "correct" /\ seen'[c] = record /\ op'[c] = op[c]
         /\ copy'[c] = copy[c] /\ mine'[c] = mine[c] /\ info'[c] = info[c] /\ want'[c] = want[c]
    \/ /\ Keeps(c)
       /\ \/ StartAppFails(c) /\ pc'[c] = "rollback" /\ op[c] = "apply"
          \/ Announce(c) /\ pc'[c] = "insert" /\ op[c] \in {"apply", "start"}
          \/ Announce(c) /\ pc'[c] = "reannounce" /\ op[c] = "restart"
          \/ Insert(c) /\ pc'[c] = "inform" /\ op[c] = "apply"
          \/ Reannounce(c) /\ pc'[c] = "read"
          \/ PreservePrevious(c) /\ pc'[c] = "activate"
          \/ Activate(c) /\ pc'[c] = "launch"
          \/ ApplyRecords(c) /\ pc'[c] = "settle" /\ info[c] = 0
          \/ ApplyRecords(c) /\ pc'[c] = "arm" /\ info[c] # 0
          \/ ApplySettles(c) /\ pc'[c] = "arm"
          \/ ApplyCorrects(c) /\ pc'[c] = "arm"
          \/ StopApp(c) /\ pc'[c] = "stopEvent"
          \/ StopAppEnds(c) /\ pc'[c] = "relaunch" /\ op[c] = "restart"
          \/ Register(c) /\ pc'[c] = "launch"
          \/ RestartArms(c) /\ pc'[c] = "rewrite"

\* No other than those.
LEMMA StepsOf ==
    ASSUME "remove" \notin Op, TypeOK, ThreadInv, NEW c \in Caller, Acts(c)
    PROVE  Steps(c)
  <1>0. c \in Thread /\ (\A l : Goto(c, l) => pc'[c] = l) /\ (Leave(c) => Forgets(c))
        /\ (\A l : GoOn(c, l) => pc'[c] = l /\ Keeps(c))
    BY Effects DEF Thread
  <1>1. CASE ApplyReads(c) \/ Cancels(c) \/ StartChecks(c) \/ RestartStops(c)
    BY <1>0, <1>1, ConstantsAssumption
       DEF Steps, ApplyReads, Cancels, StartChecks, RestartStops, Begin, TypeOK
  <1>2. CASE StartApp(c) \/ Relaunch(c)
    BY <1>0, <1>2 DEF Steps, StartApp, Relaunch, Launch, TypeOK
  <1>3. CASE ApplyAsks(c) \/ RestartReads(c) \/ RestartAsks(c)
    BY <1>0, <1>3 DEF Steps, ApplyAsks, RestartReads, RestartAsks, TypeOK
  <1>4. CASE StartAppFails(c) \/ Announce(c) \/ Insert(c) \/ Reannounce(c)
    BY <1>0, <1>4, PlaceOf DEF Steps, StartAppFails, Announce, Insert, Reannounce
  <1>5. CASE Rollback(c) \/ PreservePrevious(c) \/ Activate(c) \/ ApplyRecords(c)
             \/ ApplyCorrects(c) \/ ApplyArms(c)
    BY <1>0, <1>5
       DEF Steps, Rollback, PreservePrevious, Activate, ApplyRecords, ApplyCorrects, ApplyArms
  <1>8. CASE ApplySettles(c)
    <2>1. CASE record.status = "running"
      BY <1>0, <1>8, <2>1 DEF Steps, ApplySettles, TypeOK
    <2>2. CASE record.status # "running"
      BY <1>0, <1>8, <2>2 DEF Steps, ApplySettles
    <2> QED
      BY <2>1, <2>2
  <1>6. CASE StopApp(c) \/ StopAppFails(c) \/ StopAppEnds(c)
    BY <1>0, <1>6, PlaceOf DEF Steps, StopApp, StopAppFails, StopAppEnds
  <1>7. CASE Register(c) \/ RelaunchFails(c) \/ RestartArms(c) \/ RestartRecords(c)
    BY <1>0, <1>7 DEF Steps, Register, RelaunchFails, RestartArms, RestartRecords
  <1> QED
    BY <1>1, <1>2, <1>3, <1>4, <1>5, <1>6, <1>7, <1>8 DEF Acts

\* A thread stays where it is or takes one of its steps.
LEMMA ThreadMoves ==
    ASSUME "remove" \notin Op, TypeOK, ThreadInv, [Next]_vars
    PROVE  \A c \in Caller : Same(c) \/ (Acts(c) /\ Steps(c))
  BY Moves, StepsOf

\* The events make records of records.
LEMMA RecordTyping ==
    /\ NoRecord \in Record
    /\ \A r \in Record :
        /\ r.pid \in 0..MaxInst /\ r.gen \in Nat /\ r.life \in 0..MaxInst
        /\ r.config \in Config \cup {Nobody}
        /\ RegisterEvent(r) \in Record
        /\ \A i \in 0..MaxInst : StartEvent(r, i) \in Record
        /\ \A s \in {"stopped", "failed", "expired"} : EndEvent(r, s) \in Record
  <1>1. 0 \in 0..MaxInst /\ 0 \in Nat
    BY ConstantsAssumption
  <1>2. NoRecord \in Record
    BY <1>1 DEF NoRecord, Record
  <1> QED
    BY <1>1, <1>2 DEF Record, RegisterEvent, StartEvent, EndEvent

\* The types of what the threads know.
CallTypes ==
    /\ pc \in [Thread -> PC]
    /\ op \in [Thread -> Op \cup {"none"}]
    /\ copy \in [Thread -> Record] /\ seen \in [Thread -> Record]
    /\ mine \in [Thread -> 0..MaxInst]
    /\ info \in [Thread -> 0..MaxInst]
    /\ want \in [Thread -> Config \cup {Nobody}]

\* Leaving and going on keep them.
LEMMA CallTyping ==
    ASSUME TypeOK, NEW t \in Thread
    PROVE  /\ Leave(t) => CallTypes'
           /\ \A l \in PC : GoOn(t, l) => CallTypes'
           /\ UNCHANGED callVars => CallTypes'
  <1>1. Leave(t) => CallTypes'
    <2>1. "idle" \in PC /\ 0 \in 0..MaxInst
      BY ConstantsAssumption DEF PC
    <2> QED
      BY <2>1, RecordTyping DEF TypeOK, CallTypes, Leave
  <1>2. ASSUME NEW l \in PC, GoOn(t, l)
        PROVE  CallTypes'
    BY <1>2 DEF TypeOK, CallTypes, GoOn, Goto
  <1>3. UNCHANGED callVars => CallTypes'
    BY DEF TypeOK, CallTypes, callVars
  <1> QED
    BY <1>1, <1>2, <1>3

\* So does starting a process, of any program and any life.
LEMMA LaunchTyping ==
    ASSUME TypeOK, NEW c \in Caller, NEW p \in Config \cup {Nobody, Legacy}, NEW l \in 0..MaxInst,
           Launch(c, started + 1, p, l)
    PROVE  /\ started' = started + 1 /\ started' \in Inst
           /\ proc' = started'
           /\ lock' = c
           /\ life' \in [Inst -> 0..MaxInst] /\ life'[started'] = l
           /\ program' \in [Inst -> Config \cup {Nobody, Legacy}]
           /\ dir' \in [Inst -> Holder \cup {Legacy}]
           /\ crossed' \in BOOLEAN
           /\ pc' \in [Thread -> PC]
           /\ mine' \in [Thread -> 0..MaxInst]
  <1>1. started + 1 \in Inst /\ started + 1 \in 0..MaxInst
    BY ConstantsAssumption DEF TypeOK, Launch, Inst
  <1>2. "announce" \in PC /\ c \in Thread
    BY DEF PC, Thread
  <1> QED
    BY <1>1, <1>2 DEF TypeOK, Launch, Goto

\* Every step keeps the types.
LEMMA TypeStep ==
    ASSUME TypeOK, ThreadInv, MineInv, [Next]_vars
    PROVE  TypeOK'
  <1> USE DEF CallTypes, runVars, dirVars, callVars, instVars, flagVars
  <1>0. \A c \in Caller : c \in Thread
    BY DEF Thread
  <1>1. ASSUME NEW c \in Caller, ApplyReads(c)
        PROVE  TypeOK'
    BY <1>1, <1>0 DEF TypeOK, PC, Goto, ApplyReads, Begin
  <1>2. ASSUME NEW c \in Caller, Cancels(c)
        PROVE  TypeOK'
    BY <1>2, <1>0 DEF TypeOK, PC, Goto, Cancels, Begin
  <1>3. ASSUME NEW c \in Caller, StartChecks(c)
        PROVE  TypeOK'
    BY <1>3, <1>0 DEF TypeOK, PC, Goto, StartChecks, Begin
  <1>4. ASSUME NEW c \in Caller, RestartStops(c)
        PROVE  TypeOK'
    BY <1>4, <1>0, ConstantsAssumption DEF TypeOK, PC, Goto, RestartStops, Begin
  <1>5. ASSUME NEW c \in Caller, StartApp(c)
        PROVE  TypeOK'
    <2>1. \E q \in Config \cup {Nobody, Legacy}, l \in 0..MaxInst : Launch(c, started + 1, q, l)
      <3>1. want[c] \in Config \cup {Nobody} /\ record.life \in 0..MaxInst
        BY <1>0, RecordTyping DEF TypeOK
      <3>2. CASE op[c] = "apply"
        <4>1. started + 1 \in 0..MaxInst
          BY <1>5, <3>2, ConstantsAssumption DEF StartApp, Launch, TypeOK
        <4> QED
          BY <1>5, <3>1, <3>2, <4>1 DEF StartApp
      <3>3. CASE op[c] # "apply"
        BY <1>5, <3>1, <3>3 DEF StartApp
      <3> QED
        BY <3>2, <3>3
    <2>2. /\ started' \in 0..MaxInst /\ proc' \in 0..MaxInst /\ lock' \in Thread \cup {Nobody}
          /\ life' \in [Inst -> 0..MaxInst]
          /\ program' \in [Inst -> Config \cup {Nobody, Legacy}]
          /\ dir' \in [Inst -> Holder \cup {Legacy}]
          /\ crossed' \in BOOLEAN
          /\ pc' \in [Thread -> PC]
          /\ mine' \in [Thread -> 0..MaxInst]
      BY <1>0, <2>1, LaunchTyping, ConstantsAssumption DEF Inst
    <2> QED
      BY <1>0, <1>5, <2>2 DEF TypeOK, StartApp
  <1>6. ASSUME NEW c \in Caller, Relaunch(c)
        PROVE  TypeOK'
    <2>1. \E q \in Config \cup {Nobody, Legacy}, l \in 0..MaxInst : Launch(c, started + 1, q, l)
      <3>1. started + 1 \in 0..MaxInst
        BY <1>6, ConstantsAssumption DEF Relaunch, Launch, TypeOK
      <3>2. program[mine[c]] \in Config \cup {Nobody, Legacy}
        <4>1. mine[c] \in Inst
          BY <1>6, <1>0, PlaceOf, ConstantsAssumption DEF Relaunch, ThreadInv, TypeOK, Inst
        <4> QED
          BY <4>1 DEF TypeOK
      <3> QED
        BY <1>6, <3>1, <3>2 DEF Relaunch
    <2>2. /\ started' \in 0..MaxInst /\ proc' \in 0..MaxInst /\ lock' \in Thread \cup {Nobody}
          /\ life' \in [Inst -> 0..MaxInst]
          /\ program' \in [Inst -> Config \cup {Nobody, Legacy}]
          /\ dir' \in [Inst -> Holder \cup {Legacy}]
          /\ crossed' \in BOOLEAN
          /\ pc' \in [Thread -> PC]
          /\ mine' \in [Thread -> 0..MaxInst]
      BY <1>0, <2>1, LaunchTyping, ConstantsAssumption DEF Inst
    <2> QED
      BY <1>0, <1>6, <2>2 DEF TypeOK, Relaunch
  <1>7. ASSUME NEW c \in Caller, StartAppFails(c)
        PROVE  TypeOK'
    <2>1. CallTypes'
      BY <1>7, <1>0, CallTyping DEF StartAppFails, PC
    <2> QED
      BY <1>7, <2>1 DEF TypeOK, StartAppFails
  <1>8. ASSUME NEW c \in Caller, Rollback(c)
        PROVE  TypeOK'
    <2>1. CallTypes'
      BY <1>8, <1>0, CallTyping DEF Rollback
    <2> QED
      BY <1>8, <2>1 DEF TypeOK, Rollback, Holder
  <1>9. ASSUME NEW c \in Caller, Announce(c)
        PROVE  TypeOK'
    <2>0. mine[c] \in 0..MaxInst
      BY <1>0 DEF TypeOK
    <2>1. CallTypes'
      BY <1>9, <1>0, CallTyping DEF Announce, PC
    <2> QED
      BY <1>9, <2>0, <2>1, RecordTyping DEF TypeOK, Announce
  <1>10. ASSUME NEW c \in Caller, PreservePrevious(c)
        PROVE  TypeOK'
    <2>1. CallTypes'
      BY <1>10, <1>0, CallTyping DEF PreservePrevious, PC
    <2> QED
      BY <1>10, <2>1 DEF TypeOK, PreservePrevious, Holder
  <1>11. ASSUME NEW c \in Caller, Activate(c)
        PROVE  TypeOK'
    <2>1. CallTypes'
      BY <1>11, <1>0, CallTyping DEF Activate, PC
    <2> QED
      BY <1>11, <2>1 DEF TypeOK, Activate, Holder
  <1>12. ASSUME NEW c \in Caller, ApplyAsks(c)
        PROVE  TypeOK'
    BY <1>12, <1>0, ConstantsAssumption DEF TypeOK, ApplyAsks, AppInfo, PC, Goto, Holder
  <1>13. ASSUME NEW c \in Caller, ApplyRecords(c)
        PROVE  TypeOK'
    <2>0. Applied(c) \in Record
      <3>1. copy[c].gen + 1 \in Nat
        BY <1>0, RecordTyping DEF TypeOK
      <3> QED
        BY <1>0, <3>1 DEF Applied, Record, TypeOK
    <2>1. CallTypes'
      BY <1>13, <1>0, CallTyping DEF ApplyRecords, PC
    <2> QED
      BY <1>13, <2>0, <2>1 DEF TypeOK, ApplyRecords
  <1>14. ASSUME NEW c \in Caller, ApplySettles(c)
        PROVE  TypeOK'
    <2>1. CASE record.status = "running"
      BY <1>14, <1>0, <2>1 DEF TypeOK, ApplySettles, PC, Goto
    <2>2. CASE record.status # "running"
      <3>1. CallTypes'
        BY <1>14, <1>0, <2>2, CallTyping DEF ApplySettles, PC
      <3> QED
        BY <1>14, <3>1 DEF TypeOK, ApplySettles
    <2> QED
      BY <2>1, <2>2
  <1>30. ASSUME NEW c \in Caller, ApplyCorrects(c)
        PROVE  TypeOK'
    <2>1. CallTypes'
      BY <1>30, <1>0, CallTyping DEF ApplyCorrects, PC
    <2>2. seen[c] \in Record
      BY <1>0 DEF TypeOK
    <2> QED
      BY <1>30, <2>1, <2>2, RecordTyping DEF TypeOK, ApplyCorrects
  <1>31. ASSUME NEW c \in Caller, Insert(c)
        PROVE  TypeOK'
    <2>1. CallTypes'
      BY <1>31, <1>0, CallTyping DEF Insert, PC
    <2> QED
      BY <1>31, <2>1 DEF TypeOK, Insert
  <1>32. ASSUME NEW c \in Caller, Reannounce(c)
        PROVE  TypeOK'
    <2>1. CallTypes'
      BY <1>32, <1>0, CallTyping DEF Reannounce, PC
    <2>2. PICK i \in {mine[c], proc} : record' = StartEvent(record, i)
      BY <1>32 DEF Reannounce
    <2>3. i \in 0..MaxInst
      BY <1>0, <2>2 DEF TypeOK
    <2> QED
      BY <1>32, <2>1, <2>2, <2>3, RecordTyping DEF TypeOK, Reannounce
  <1>33. ASSUME NEW c \in Caller, RestartAsks(c)
        PROVE  TypeOK'
    BY <1>33, <1>0, ConstantsAssumption DEF TypeOK, RestartAsks, AppInfo, PC, Goto
  <1>15. ASSUME NEW c \in Caller, ApplyArms(c)
        PROVE  TypeOK'
    <2>1. CallTypes'
      BY <1>15, <1>0, CallTyping DEF ApplyArms
    <2>2. armed' \in Deadline /\ lease' \subseteq Inst
      <3>1. mine[c] \in Inst
        BY <1>15, <1>0, ConstantsAssumption DEF ApplyArms, TypeOK, Inst, MineInv, Has
      <3>2. copy[c].gen + 1 \in Nat /\ mine[c] \in 0..MaxInst
        BY <1>0, RecordTyping DEF TypeOK
      <3> QED
        BY <1>15, <3>1, <3>2 DEF ApplyArms, Deadline, TypeOK
    <2> QED
      BY <1>15, <2>1, <2>2, <1>0 DEF TypeOK, ApplyArms
  <1>16. ASSUME NEW c \in Caller, Register(c)
        PROVE  TypeOK'
    <2>1. CallTypes'
      BY <1>16, <1>0, CallTyping DEF Register, PC
    <2> QED
      BY <1>16, <2>1, RecordTyping DEF TypeOK, Register
  <1>17. ASSUME NEW c \in Caller, RelaunchFails(c)
        PROVE  TypeOK'
    <2>1. CallTypes'
      BY <1>17, <1>0, CallTyping DEF RelaunchFails
    <2> QED
      BY <1>17, <2>1 DEF TypeOK, RelaunchFails
  <1>18. ASSUME NEW c \in Caller, RestartReads(c)
        PROVE  TypeOK'
    <2>1. CASE record.config = Nobody
      <3>1. CallTypes'
        BY <1>18, <1>0, <2>1, CallTyping DEF RestartReads
      <3> QED
        BY <1>18, <3>1 DEF TypeOK, RestartReads
    <2>2. CASE record.config # Nobody
      BY <1>18, <1>0, <2>2 DEF TypeOK, RestartReads, PC, Goto
    <2> QED
      BY <2>1, <2>2
  <1>19. ASSUME NEW c \in Caller, RestartArms(c)
        PROVE  TypeOK'
    <2>1. CallTypes'
      BY <1>19, <1>0, CallTyping DEF RestartArms, PC
    <2>2. armed' \in Deadline \cup {Nobody} /\ lease' \subseteq Inst
      <3>1. mine[c] \in Inst
        BY <1>19, <1>0, ConstantsAssumption DEF RestartArms, TypeOK, Inst, MineInv, Has
      <3>2. copy[c].gen + 1 \in Nat /\ mine[c] \in 0..MaxInst
        BY <1>0, RecordTyping DEF TypeOK
      <3> QED
        BY <1>19, <3>1, <3>2 DEF RestartArms, Deadline, TypeOK
    <2> QED
      BY <1>19, <2>1, <2>2 DEF TypeOK, RestartArms
  <1>20. ASSUME NEW c \in Caller, RestartRecords(c)
        PROVE  TypeOK'
    <2>1. CallTypes'
      BY <1>20, <1>0, CallTyping DEF RestartRecords
    <2>2. record' \in Record
      <3>1. copy[c].gen + 1 \in Nat /\ copy[c] \in Record
        BY <1>0, RecordTyping DEF TypeOK
      <3> QED
        BY <1>20, <1>0, <3>1 DEF RestartRecords, Record, TypeOK
    <2> QED
      BY <1>20, <2>1, <2>2 DEF TypeOK, RestartRecords
  <1>21. ASSUME NEW t \in Thread, StopApp(t)
        PROVE  TypeOK'
    <2>1. CallTypes'
      BY <1>21, CallTyping DEF StopApp, PC
    <2> QED
      BY <1>21, <2>1, ConstantsAssumption DEF TypeOK, StopApp
  <1>22. ASSUME NEW t \in Thread, StopAppFails(t)
        PROVE  TypeOK'
    <2>1. CallTypes'
      <3>1. op[t] \in {"stop", "none"}
        BY <1>22, ConstantsAssumption DEF StopAppFails, ThreadInv, Places, TypeOK, Thread
      <3> QED
        BY <1>22, <3>1, CallTyping DEF StopAppFails, PC
    <2> QED
      BY <1>22, <2>1 DEF TypeOK, StopAppFails
  <1>23. ASSUME NEW t \in Thread, StopAppEnds(t)
        PROVE  TypeOK'
    <2>1. CallTypes'
      <3>1. op[t] \in {"stop", "restart", "none"}
        BY <1>23, ConstantsAssumption DEF StopAppEnds, ThreadInv, Places, TypeOK, Thread
      <3> QED
        BY <1>23, <3>1, CallTyping DEF StopAppEnds, PC
    <2> QED
      BY <1>23, <2>1, RecordTyping DEF TypeOK, StopAppEnds
  <1>24. CASE Fire
    BY <1>24 DEF TypeOK, Fire, Goto, PC, Thread
  <1>25. CASE ExpireChecks
    <2>0. Expirer \in Thread
      BY DEF Thread
    <2>1. CallTypes' /\ firing' \in Deadline \cup {Nobody}
      <3>1. CASE record.gen = firing.gen /\ record.status = "running"
        BY <1>25, <2>0, <3>1 DEF TypeOK, ExpireChecks, Goto, PC
      <3>2. CASE ~(record.gen = firing.gen /\ record.status = "running")
        BY <1>25, <2>0, <3>2, CallTyping DEF ExpireChecks
      <3> QED
        BY <3>1, <3>2
    <2> QED
      BY <1>25, <2>1 DEF TypeOK, ExpireChecks
  <1>26. CASE ExpireRecords
    <2>1. CallTypes' /\ copy[Expirer] \in Record
      BY <1>26, CallTyping DEF ExpireRecords, TypeOK, Thread
    <2> QED
      BY <1>26, <2>1, RecordTyping DEF TypeOK, ExpireRecords
  <1>27. CASE Exits
    BY <1>27, ConstantsAssumption DEF TypeOK, Exits, Inst
  <1>28. CASE ExitEvent
    BY <1>28, RecordTyping DEF TypeOK, ExitEvent
  <1>29. CASE UNCHANGED vars
    BY <1>29 DEF TypeOK, vars
  <1> QED
    BY <1>1, <1>2, <1>3, <1>4, <1>5, <1>6, <1>7, <1>8, <1>9, <1>10, <1>11, <1>12, <1>13, <1>14,
       <1>15, <1>16, <1>17, <1>18, <1>19, <1>20, <1>21, <1>22, <1>23, <1>24, <1>25, <1>26, <1>27,
       <1>28, <1>29, <1>30, <1>31, <1>32, <1>33, NextCases DEF Acts, Expires, Thread

\* Every step keeps the threads within their operations.
LEMMA ThreadStep ==
    ASSUME "remove" \notin Op, TypeOK, ThreadInv, [Next]_vars
    PROVE  ThreadInv'
  <1>1. ASSUME NEW c \in Caller
        PROVE  /\ op'[c] # "remove" /\ pc'[c] \in Places(op'[c])
               /\ op'[c] = "restart" => mine'[c] # 0
    <2>1. op[c] \in {"none", "apply", "start", "stop", "restart"} /\ pc[c] \in Places(op[c])
      BY PlaceOf DEF ThreadInv
    <2>2. CASE Same(c)
      BY <2>2 DEF Same, ThreadInv
    <2>3. CASE Acts(c) /\ Steps(c)
      <3>1. mine[c] \in 0..MaxInst /\ started \in 0..MaxInst
        BY DEF TypeOK, Thread
      <3>2. \/ op'[c] = "none" /\ pc'[c] = "idle"
            \/ op'[c] = "apply" /\ pc'[c] \in {"preserve", "activate", "launch", "rollback", "announce",
                                               "insert", "inform", "record", "settle", "correct",
                                               "arm"}
            \/ op'[c] = "start" /\ pc'[c] \in {"launch", "register", "announce", "insert"}
            \/ op'[c] = "stop" /\ pc'[c] \in {"stop", "stopEvent"}
            \/ op'[c] = "restart" /\ pc'[c] \in {"stopEvent", "relaunch", "announce", "reannounce",
                                                 "read", "inquire", "rearm", "rewrite"}
        BY <2>3, PlaceOf
           DEF Steps, Keeps, Forgets, StartApp, Relaunch, StopApp, ApplyAsks, RestartReads,
               RestartAsks, Reannounce, ApplyRecords, ApplySettles, ApplyCorrects, Register,
               RestartArms, Activate, PreservePrevious
      <3>3. op'[c] = "restart" => mine'[c] # 0
        BY <2>3, <3>1 DEF Steps, Keeps, Forgets, ThreadInv, RestartStops
      <3> QED
        BY <3>2, <3>3 DEF Places
    <2> QED
      BY <2>2, <2>3, ThreadMoves
  <1>2. /\ pc'[Expirer] \in {"idle", "check", "stop", "stopEvent", "expired", "cleanupFailed"}
        /\ op'[Expirer] = "none"
    <2>0. Expirer \in Thread /\ op[Expirer] = "none"
      BY DEF Thread, ThreadInv
    <2>1. CASE Same(Expirer)
      BY <2>1 DEF Same, ThreadInv
    <2>2. CASE Fire \/ ExpireChecks \/ ExpireRecords
      BY <2>0, <2>2, Effects DEF Fire, ExpireChecks, ExpireRecords, Forgets
    <2>3. CASE StopApp(Expirer) \/ StopAppFails(Expirer) \/ StopAppEnds(Expirer)
      BY <2>0, <2>3, Effects DEF StopApp, StopAppFails, StopAppEnds, Keeps
    <2> QED
      BY <2>1, <2>2, <2>3, Moves DEF Expires
  <1> QED
    BY <1>1, <1>2 DEF ThreadInv

\* The places where the lock is held.
Holding == {"announce", "insert", "reannounce", "stopEvent", "relaunch"}

\* A thread takes the lock when it goes to one of them, and gives it back when it leaves them.
LEMMA LockMoves ==
    ASSUME "remove" \notin Op, TypeOK, ThreadInv, NEW t \in Thread,
           (t \in Caller /\ Acts(t)) \/ (t = Expirer /\ Expires)
    PROVE  \/ lock' = lock /\ (pc'[t] \in Holding <=> pc[t] \in Holding)
           \/ lock = Nobody /\ lock' = t /\ pc[t] \notin Holding /\ pc'[t] \in Holding
           \/ pc[t] \in Holding /\ lock' = t /\ pc'[t] \in Holding
           \/ pc[t] \in Holding /\ lock' = Nobody /\ pc'[t] \notin Holding
  <1>1. CASE t \in Caller /\ (ApplyReads(t) \/ Cancels(t) \/ StartChecks(t))
    BY <1>1, Effects DEF ApplyReads, Cancels, StartChecks, Begin, runVars, Holding
  <1>2. CASE t \in Caller /\ (RestartStops(t) \/ StartApp(t) \/ Relaunch(t))
    BY <1>2, Effects DEF RestartStops, Begin, StartApp, Relaunch, Launch, Holding
  <1>3. CASE t \in Caller /\ (ApplyAsks(t) \/ RestartReads(t) \/ RestartAsks(t) \/ RestartArms(t)
                                \/ RestartRecords(t))
    BY <1>3, Effects
       DEF ApplyAsks, RestartReads, RestartAsks, RestartArms, RestartRecords, runVars, Holding,
           Forgets
  <1>4. CASE t \in Caller /\ (StartAppFails(t) \/ Announce(t) \/ Insert(t) \/ Reannounce(t)
                                \/ RelaunchFails(t))
    <2>1. CASE StartAppFails(t)
      BY <1>4, <2>1, Effects DEF StartAppFails, Holding, Forgets
    <2>2. CASE Announce(t)
      <3>1. pc'[t] \in {"insert", "reannounce"} /\ lock' = lock /\ pc[t] = "announce"
        BY <2>2, Effects DEF Announce, runVars
      <3> QED
        BY <3>1 DEF Holding
    <2>4. CASE Insert(t) \/ Reannounce(t)
      <3>1. /\ pc'[t] \in {"inform", "read", "idle"} /\ lock' = Nobody
            /\ pc[t] \in {"insert", "reannounce"}
        BY <2>4, Effects DEF Insert, Reannounce, Forgets
      <3> QED
        BY <3>1 DEF Holding
    <2>3. CASE RelaunchFails(t)
      BY <2>3, Effects DEF RelaunchFails, Holding, Forgets
    <2> QED
      BY <1>4, <2>1, <2>2, <2>3, <2>4
  <1>5. CASE Rollback(t) \/ PreservePrevious(t) \/ Activate(t) \/ Register(t)
    BY <1>5, Effects DEF Rollback, PreservePrevious, Activate, Register, runVars, Holding, Forgets
  <1>6. CASE ApplyRecords(t) \/ ApplySettles(t) \/ ApplyCorrects(t) \/ ApplyArms(t)
    <2>1. pc[t] \in {"record", "settle", "correct", "arm"} /\ lock' = lock
      BY <1>6 DEF ApplyRecords, ApplySettles, ApplyCorrects, ApplyArms, runVars
    <2>2. CASE ApplyRecords(t)
      <3>1. pc'[t] \in {"settle", "arm", "idle"}
        BY <2>2, Effects DEF ApplyRecords, Forgets
      <3> QED
        BY <2>1, <3>1 DEF Holding
    <2>3. CASE ApplySettles(t) \/ ApplyCorrects(t)
      <3>1. pc'[t] \in {"correct", "arm", "idle"}
        BY <2>3, Effects DEF ApplySettles, ApplyCorrects, Forgets
      <3> QED
        BY <2>1, <3>1 DEF Holding
    <2>4. CASE ApplyArms(t)
      BY <2>1, <2>4, Effects DEF ApplyArms, Holding, Forgets
    <2> QED
      BY <1>6, <2>2, <2>3, <2>4
  <1>7. CASE StopApp(t) \/ StopAppFails(t) \/ StopAppEnds(t)
    <2>1. /\ pc[t] = "stop" => op[t] \in {"none", "stop"}
          /\ pc[t] = "stopEvent" => op[t] \in {"none", "stop", "restart"}
      BY PlaceOf DEF ThreadInv, Thread
    <2>2. CASE StopApp(t)
      BY <2>2, Effects DEF StopApp, Holding
    <2>3. CASE StopAppFails(t)
      <3>1. pc'[t] \in {"idle", "expired", "cleanupFailed"} /\ lock' = lock /\ pc[t] = "stop"
        BY <2>1, <2>3, Effects DEF StopAppFails, runVars, Forgets
      <3> QED
        BY <3>1 DEF Holding
    <2>4. CASE StopAppEnds(t)
      <3>1. /\ pc[t] = "stopEvent"
            /\ lock' = IF op[t] = "restart" THEN t ELSE Nobody
            /\ op[t] = "restart" => pc'[t] = "relaunch"
            /\ op[t] # "restart" => pc'[t] \in {"idle", "expired"}
        BY <2>1, <2>4, Effects DEF StopAppEnds, Forgets
      <3> QED
        BY <3>1 DEF Holding
    <2> QED
      BY <1>7, <2>2, <2>3, <2>4
  <1>8. CASE t = Expirer /\ (Fire \/ ExpireChecks \/ ExpireRecords)
    BY <1>8, Effects DEF Fire, ExpireChecks, ExpireRecords, runVars, Holding, Forgets
  <1> QED
    BY <1>1, <1>2, <1>3, <1>4, <1>5, <1>6, <1>7, <1>8 DEF Acts, Expires

\* Every step keeps the lock with the one thread that is at such a place.
LEMMA LockStep ==
    ASSUME "remove" \notin Op, TypeOK, ThreadInv, LockInv, [Next]_vars
    PROVE  LockInv'
  <1>1. ASSUME NEW t \in Thread, (t \in Caller /\ Acts(t)) \/ (t = Expirer /\ Expires)
        PROVE  LockInv'
    <2>1. \A u \in Thread \ {t} : pc'[u] = pc[u]
      BY <1>1, OnlyOneMoves DEF Same
    <2> QED
      BY <1>1, <2>1, LockMoves, ConstantsAssumption DEF LockInv, Holding, Thread
  <1>2. CASE Exits \/ ExitEvent \/ UNCHANGED vars
    BY <1>2 DEF Exits, ExitEvent, vars, runVars, callVars, LockInv
  <1> QED
    BY <1>1, <1>2, NextCases DEF Thread

\* A process is started by a thread that holds the lock from then on.
Launches(c) ==
    /\ StartApp(c) \/ Relaunch(c)
    /\ pc'[c] = "announce" /\ mine'[c] = started + 1
    /\ proc' = started + 1 /\ started' = started + 1
    /\ lock \in {Nobody, c}
    /\ \A i \in Inst : i <= started => life'[i] = life[i]
    /\ life'[started + 1] = IF op[c] = "start" THEN record.life ELSE started + 1
    /\ crossed' = (crossed \/ pc[Expirer] = "stop")
    /\ record' = record /\ lost' = lost

\* A start by Start, Apply or Restart is such a one.
LEMMA LaunchIs ==
    ASSUME TypeOK, ThreadInv, LockInv, NEW c \in Caller, StartApp(c) \/ Relaunch(c)
    PROVE  Launches(c)
  <1>0. c \in Thread /\ started \in Nat /\ started + 1 \in Inst
    BY ConstantsAssumption DEF Thread, TypeOK, StartApp, Relaunch, Launch, Inst
  <1>1. op[c] # "apply" => (StartApp(c) => op[c] = "start") /\ (Relaunch(c) => op[c] = "restart")
    BY PlaceOf DEF StartApp, Relaunch
  <1>2. lock \in {Nobody, c}
    BY <1>0 DEF StartApp, Relaunch, LockInv
  <1>3. pc'[c] = "announce" /\ mine'[c] = started + 1
    BY <1>0 DEF StartApp, Relaunch, Launch, Goto, TypeOK
  <1>4. \E q, l : /\ Launch(c, started + 1, q, l)
                  /\ l = IF op[c] = "start" THEN record.life ELSE started + 1
    BY PlaceOf DEF StartApp, Relaunch
  <1> QED
    BY <1>0, <1>2, <1>3, <1>4 DEF Launches, Launch, StartApp, Relaunch, TypeOK

\* What becomes of the process: it is started, or stopped, or exits.
LEMMA ProcMoves ==
    ASSUME TypeOK, ThreadInv, LockInv, [Next]_vars
    PROVE  \/ proc' = proc /\ started' = started /\ life' = life
           \/ \E c \in Caller : Launches(c)
           \/ /\ proc # 0 /\ proc' = 0 /\ started' = started /\ life' = life
              /\ \/ \E t \in Thread : StopApp(t)
                 \/ \E c \in Caller : RestartStops(c)
                 \/ Exits
  <1>1. ASSUME NEW c \in Caller, StartApp(c) \/ Relaunch(c)
        PROVE  Launches(c)
    BY <1>1, LaunchIs
  <1>2. ASSUME NEW c \in Caller, Acts(c)
        PROVE  \/ proc' = proc /\ started' = started /\ life' = life
               \/ StartApp(c) \/ Relaunch(c)
               \/ /\ proc # 0 /\ proc' = 0 /\ started' = started /\ life' = life
                  /\ StopApp(c) \/ RestartStops(c)
    BY <1>2
       DEF Acts, ApplyReads, Cancels, StartChecks, RestartStops, StartAppFails, Rollback,
           Announce, Insert, PreservePrevious, Activate, ApplyAsks, ApplyRecords, ApplySettles,
           ApplyCorrects, ApplyArms, StopApp, StopAppFails, StopAppEnds, Register, RelaunchFails,
           Reannounce, RestartReads, RestartAsks, RestartArms, RestartRecords, runVars, instVars
  <1>3. CASE Expires
    BY <1>3
       DEF Expires, Fire, ExpireChecks, ExpireRecords, StopApp, StopAppFails, StopAppEnds,
           runVars, instVars, Thread
  <1>4. CASE Exits \/ ExitEvent \/ UNCHANGED vars
    BY <1>4 DEF Exits, ExitEvent, vars, runVars, instVars
  <1> QED
    BY <1>1, <1>2, <1>3, <1>4, NextCases DEF Thread

\* Every step keeps the process as the holder of the lock has left it.
LEMMA HolderStep ==
    ASSUME "remove" \notin Op, TypeOK, ThreadInv, LockInv, HolderInv, [Next]_vars
    PROVE  HolderInv'
  <1>1. ASSUME NEW c \in Caller, Launches(c), NEW t \in Thread
        PROVE  /\ pc'[t] \in {"stopEvent", "relaunch"} => proc' = 0
               /\ pc'[t] \in {"announce", "insert", "reannounce"} => proc' \in {0, mine'[t]}
    <2>1. CASE t = c
      BY <1>1, <2>1 DEF Launches
    <2>2. CASE t # c
      <3>1. pc'[t] = pc[t]
        BY <1>1, <2>2, OnlyOneMoves DEF Launches, Acts, Same, Thread
      <3>2. pc[t] \notin {"stopEvent", "relaunch", "announce", "insert", "reannounce"}
        BY <1>1, <2>2, ConstantsAssumption DEF Launches, LockInv, Thread
      <3> QED
        BY <3>1, <3>2
    <2> QED
      BY <2>1, <2>2
  <1>2. ASSUME proc' \in {0, proc}, NEW t \in Thread
        PROVE  \/ Same(t)
               \/ /\ pc'[t] \in {"stopEvent", "relaunch"} => proc' = 0
                  /\ pc'[t] \in {"announce", "insert", "reannounce"} => proc' \in {0, mine'[t]}
    <2>1. CASE t \in Caller
      BY <1>2, <2>1, ThreadMoves
         DEF Steps, Forgets, Keeps, Launches, RestartStops, StopApp, StopAppEnds, StartApp,
             Relaunch, Launch, Announce, HolderInv
    <2>2. CASE t = Expirer
      BY <1>2, <2>2, Moves, Effects
         DEF Expires, Fire, ExpireChecks, ExpireRecords, StopApp, StopAppFails, StopAppEnds,
             Forgets, ThreadInv
    <2> QED
      BY <2>1, <2>2 DEF Thread
  <1>3. CASE proc' \in {0, proc}
    BY <1>2, <1>3 DEF HolderInv, Same
  <1> QED
    BY <1>1, <1>3, ProcMoves DEF HolderInv

\* The writes of the record, and what each is a loss of.
SameVersion ==
    record'.gen = record.gen /\ record'.life = record.life /\ record'.config = record.config

Announces(c) ==
    /\ Announce(c) \/ Reannounce(c)
    /\ SameVersion /\ record'.status = "running" /\ record'.pid \in {mine[c], proc}
    /\ ~lost' => ~lost /\ Current(mine[c])

Registers(c) ==
    /\ Register(c)
    /\ SameVersion /\ record'.status # "running" /\ record'.pid = record.pid
    /\ ~lost' => ~lost /\ proc = 0

Ends ==
    /\ (\E t \in Thread : StopAppEnds(t)) \/ ExitEvent
    /\ SameVersion /\ record'.status # "running" /\ record'.pid = 0
    /\ ~lost' => ~lost /\ ((\E t \in Thread : StopAppEnds(t)) \/ proc = 0)

Corrects(c) ==
    /\ ApplyCorrects(c)
    /\ record'.status # "running" /\ record'.pid = 0 /\ record'.gen = seen[c].gen
    /\ record'.life = seen[c].life /\ record'.config = seen[c].config
    /\ ~lost' => ~lost /\ record = seen[c] /\ proc = 0

Applies(c) ==
    /\ ApplyRecords(c)
    /\ record'.status = "running" /\ record'.pid = info[c] /\ record'.gen = copy[c].gen + 1
    /\ record'.life = mine[c] /\ record'.config = want[c]
    /\ ~lost' => ~lost /\ ~Overwrites(c)

Renewals(c) ==
    /\ RestartRecords(c)
    /\ record'.status = copy[c].status /\ record'.pid = info[c] /\ record'.gen = copy[c].gen + 1
    /\ record'.life = mine[c] /\ record'.config = copy[c].config
    /\ ~lost' => ~lost /\ record = copy[c] /\ Current(info[c])
    /\ ~crossed' => ~crossed /\ proc \in {0, mine[c]}

Expiry ==
    /\ ExpireRecords
    /\ record'.status # "running" /\ record'.pid = 0 /\ record'.gen = copy[Expirer].gen
    /\ record'.life = copy[Expirer].life /\ record'.config = copy[Expirer].config
    /\ ~lost' => ~lost /\ record.life = copy[Expirer].life /\ proc = 0

\* These are the events and the write of a restart.
LEMMA EventsRecord ==
    ASSUME TypeOK
    PROVE  /\ ExitEvent => Ends
           /\ \A t \in Thread : StopAppEnds(t) => Ends
           /\ \A c \in Caller : /\ Announce(c) \/ Reannounce(c) => Announces(c)
                                /\ ApplyCorrects(c) => Corrects(c)
                                /\ Register(c) => Registers(c)
                                /\ RestartRecords(c) => Renewals(c)
  <1>0. record \in Record /\ \A t \in Thread : copy[t] \in Record /\ seen[t] \in Record
    BY DEF TypeOK
  <1>1. ASSUME NEW c \in Caller, Announce(c)
        PROVE  Announces(c)
    BY <1>0, <1>1 DEF Announce, Announces, SameVersion, StartEvent, Record
  <1>3. ASSUME NEW c \in Caller, Reannounce(c)
        PROVE  Announces(c)
    <2>1. PICK i \in {mine[c], proc} : record' = StartEvent(record, i)
      BY <1>3 DEF Reannounce
    <2>2. record'.status = "running" /\ record'.pid = i /\ SameVersion
      BY <1>0, <2>1 DEF SameVersion, StartEvent, Record
    <2> QED
      BY <1>3, <2>2 DEF Reannounce, Announces
  <1>2. ASSUME NEW c \in Caller, Register(c)
        PROVE  Registers(c)
    BY <1>0, <1>2 DEF Register, Registers, SameVersion, RegisterEvent, Record
  <1>4. ASSUME NEW c \in Caller, RestartRecords(c)
        PROVE  Renewals(c)
    <2>1. copy[c] \in Record
      BY <1>0 DEF Thread
    <2> QED
      BY <1>4, <2>1 DEF RestartRecords, Renewals, Record
  <1>6. ASSUME ExitEvent
        PROVE  Ends
    <2>1. PICK s \in {"failed", "stopped"} : record' = EndEvent(record, s)
      BY <1>6 DEF ExitEvent
    <2> QED
      BY <1>0, <1>6, <2>1 DEF ExitEvent, Ends, SameVersion, EndEvent, Record
  <1>7. ASSUME NEW t \in Thread, StopAppEnds(t)
        PROVE  Ends
    BY <1>0, <1>7 DEF StopAppEnds, Ends, SameVersion, flagVars, EndEvent, Record
  <1>8. ASSUME NEW c \in Caller, ApplyCorrects(c)
        PROVE  Corrects(c)
    <2>1. seen[c] \in Record
      BY <1>0 DEF Thread
    <2> QED
      BY <1>8, <2>1 DEF ApplyCorrects, Corrects, EndEvent, Record
  <1> QED
    BY <1>1, <1>2, <1>3, <1>4, <1>6, <1>7, <1>8

\* The record is written by nothing else.
LEMMA RecordMoves ==
    ASSUME TypeOK, ThreadInv, [Next]_vars
    PROVE  \/ record' = record /\ lost' = lost
           \/ \E c \in Caller : \/ Announces(c) \/ Registers(c) \/ Corrects(c)
                               \/ Applies(c) \/ Renewals(c)
           \/ Ends \/ Expiry
  <1>0. record \in Record /\ \A t \in Thread : copy[t] \in Record
    BY DEF TypeOK
  <1>3. ASSUME NEW c \in Caller, ApplyRecords(c)
        PROVE  Applies(c)
    BY <1>3 DEF ApplyRecords, Applies, Applied
  <1>5. CASE ExpireRecords
    <2>1. copy[Expirer] \in Record
      BY <1>0 DEF Thread
    <2> QED
      BY <1>5, <2>1 DEF ExpireRecords, Expiry, EndEvent, Record
  <1>6. ASSUME NEW c \in Caller, \/ Announce(c) \/ Reannounce(c) \/ Register(c)
                                \/ ApplyCorrects(c) \/ RestartRecords(c)
        PROVE  Announces(c) \/ Registers(c) \/ Corrects(c) \/ Renewals(c)
    BY <1>6, EventsRecord
  <1>8. ExitEvent \/ (\E t \in Thread : StopAppEnds(t)) => Ends
    BY EventsRecord
  <1>9. ASSUME NEW c \in Caller, Acts(c)
        PROVE  \/ record' = record /\ lost' = lost
               \/ Announce(c) \/ Reannounce(c) \/ Register(c) \/ ApplyRecords(c) \/ RestartRecords(c)
               \/ StopAppEnds(c) \/ ApplyCorrects(c)
    BY <1>9
       DEF Acts, ApplyReads, Cancels, StartChecks, RestartStops, StartApp, Launch, StartAppFails,
           Rollback, Insert, PreservePrevious, Activate, ApplyAsks, ApplySettles, ApplyArms, StopApp,
           StopAppFails, Relaunch, RelaunchFails, RestartReads, RestartAsks, RestartArms, flagVars
  <1>10. CASE Expires
    BY <1>5, <1>8, <1>10 DEF Expires, Fire, ExpireChecks, StopApp, StopAppFails, flagVars, Thread
  <1>11. CASE Exits \/ UNCHANGED vars
    BY <1>11 DEF Exits, vars, flagVars
  <1> QED
    BY <1>3, <1>6, <1>8, <1>9, <1>10, <1>11, NextCases DEF Thread

\* Nothing is lost twice: a lost update stays lost, and a crossed start crossed.
LEMMA FlagsStay ==
    ASSUME TypeOK, ThreadInv, [Next]_vars
    PROVE  (~lost' => ~lost) /\ (~crossed' => ~crossed)
  <1>1. ~lost' => ~lost
    BY RecordMoves DEF Announces, Registers, Ends, Corrects, Applies, Renewals, Expiry
  <1>2. ~crossed' => ~crossed
    <2>1. ASSUME NEW c \in Caller, Acts(c)
          PROVE  ~crossed' => ~crossed
      BY <2>1
         DEF Acts, ApplyReads, Cancels, StartChecks, RestartStops, StartApp, Launch,
             StartAppFails, Rollback, Announce, Insert, PreservePrevious, Activate, ApplyAsks,
             ApplyRecords, ApplySettles, ApplyCorrects, ApplyArms, StopApp, StopAppFails,
             StopAppEnds, Register, Relaunch, RelaunchFails, Reannounce, RestartReads,
             RestartAsks, RestartArms, RestartRecords, flagVars
    <2>2. CASE Expires
      BY <2>2
         DEF Expires, Fire, ExpireChecks, ExpireRecords, StopApp, StopAppFails, StopAppEnds,
             flagVars
    <2>3. CASE Exits \/ ExitEvent \/ UNCHANGED vars
      BY <2>3 DEF Exits, ExitEvent, vars, flagVars
    <2> QED
      BY <2>1, <2>2, <2>3, NextCases
  <1> QED
    BY <1>1, <1>2

\* What expireApp knows is the record as it was when it checked it.
LEMMA ExpirerMoves ==
    ASSUME "remove" \notin Op, TypeOK, ThreadInv, [Next]_vars
    PROVE  /\ mine'[Expirer] \in {0, mine[Expirer]} /\ info'[Expirer] \in {0, info[Expirer]}
           /\ seen'[Expirer] \in {NoRecord, seen[Expirer]}
           /\ \/ copy'[Expirer] = copy[Expirer]
                   /\ \/ pc'[Expirer] = pc[Expirer]
                      \/ pc'[Expirer] = "check" /\ Fire
                      \/ pc[Expirer] \in {"stop", "stopEvent"}
                           /\ pc'[Expirer] \in {"stopEvent", "expired", "cleanupFailed"}
              \/ copy'[Expirer] = NoRecord /\ pc'[Expirer] = "idle" /\ (ExpireChecks \/ ExpireRecords)
              \/ copy'[Expirer] = record /\ pc'[Expirer] = "stop" /\ ExpireChecks /\ firing' = firing
                   /\ record.gen = firing.gen
  <1>0. Expirer \in Thread /\ op[Expirer] = "none"
    BY DEF Thread, ThreadInv
  <1>1. CASE Same(Expirer)
    BY <1>1 DEF Same
  <1>2. CASE Fire
    BY <1>0, <1>2, Effects DEF Fire
  <1>3. CASE ExpireChecks
    <2>1. CASE record.gen = firing.gen /\ record.status = "running"
      BY <1>0, <1>3, <2>1, Effects DEF ExpireChecks, TypeOK
    <2>2. CASE ~(record.gen = firing.gen /\ record.status = "running")
      BY <1>0, <1>3, <2>2, Effects DEF ExpireChecks, Forgets
    <2> QED
      BY <2>1, <2>2
  <1>4. CASE ExpireRecords
    BY <1>0, <1>4, Effects DEF ExpireRecords, Forgets
  <1>5. CASE StopApp(Expirer) \/ StopAppFails(Expirer) \/ StopAppEnds(Expirer)
    BY <1>0, <1>5, Effects DEF StopApp, StopAppFails, StopAppEnds, Keeps
  <1> QED
    BY <1>1, <1>2, <1>3, <1>4, <1>5, Moves DEF Expires

\* What a thread comes to know is what is there to be known.
LEMMA KnowledgeMoves ==
    ASSUME "remove" \notin Op, TypeOK, ThreadInv, LockInv, [Next]_vars, NEW t \in Thread
    PROVE  /\ copy'[t] \in {copy[t], NoRecord, record} /\ seen'[t] \in {seen[t], NoRecord, record}
           /\ info'[t] \in {info[t], 0, AppInfo}
           /\ \/ mine'[t] \in {mine[t], 0, proc}
              \/ t \in Caller /\ Launches(t)
  <1>1. CASE t = Expirer
    BY <1>1, ExpirerMoves
  <1>2. CASE t \in Caller
    BY <1>2, ThreadMoves, LaunchIs DEF Steps, Same, Keeps, Forgets
  <1> QED
    BY <1>1, <1>2 DEF Thread

\* Every step keeps to processes that were started.
LEMMA NumberStep ==
    ASSUME "remove" \notin Op, TypeOK, ThreadInv, LockInv, NumberInv, [Next]_vars
    PROVE  NumberInv'
  <1>0. started \in Nat /\ proc \in Nat
    BY ConstantsAssumption DEF TypeOK
  <1>1. started' \in Nat /\ started <= started' /\ proc' <= started'
    BY <1>0, ProcMoves DEF Launches, NumberInv
  <1>2. AppInfo \in {0, proc} /\ NoRecord.pid = 0 /\ NoRecord.life = 0
    BY DEF AppInfo, NoRecord
  <1>3. ASSUME NEW t \in Thread
        PROVE  /\ mine'[t] <= started' /\ info'[t] <= started'
               /\ copy'[t].pid <= started' /\ copy'[t].life <= started'
               /\ seen'[t].pid <= started' /\ seen'[t].life <= started'
    <2>1. /\ mine[t] \in Nat /\ info[t] \in Nat /\ copy[t].pid \in Nat /\ copy[t].life \in Nat
          /\ seen[t].pid \in Nat /\ seen[t].life \in Nat
          /\ record.pid \in Nat /\ record.life \in Nat
      BY RecordTyping DEF TypeOK
    <2>2. copy'[t].pid <= started' /\ copy'[t].life <= started'
      BY <1>0, <1>1, <1>2, <2>1, KnowledgeMoves DEF NumberInv
    <2>3. info'[t] <= started'
      BY <1>0, <1>1, <1>2, <2>1, KnowledgeMoves DEF NumberInv
    <2>4. mine'[t] <= started'
      BY <1>0, <1>1, <2>1, KnowledgeMoves DEF NumberInv, Launches
    <2>5. seen'[t].pid <= started' /\ seen'[t].life <= started'
      BY <1>0, <1>1, <1>2, <2>1, KnowledgeMoves DEF NumberInv
    <2> QED
      BY <2>2, <2>3, <2>4, <2>5
  <1>4. record'.pid <= started' /\ record'.life <= started'
    <2>1. /\ \A c \in Caller : /\ mine[c] \in Nat /\ info[c] \in Nat
                              /\ mine[c] <= started /\ info[c] <= started
                              /\ seen[c].life \in Nat /\ seen[c].life <= started
          /\ proc <= started
          /\ copy[Expirer].life \in Nat /\ copy[Expirer].life <= started
          /\ record.pid \in Nat /\ record.life \in Nat
          /\ record.pid <= started /\ record.life <= started
      BY RecordTyping DEF TypeOK, Thread, NumberInv
    <2> QED
      BY <1>0, <1>1, <2>1, RecordMoves
         DEF Announces, Registers, Ends, Corrects, Applies, Renewals, Expiry, SameVersion
  <1> QED
    BY <1>1, <1>3, <1>4 DEF NumberInv

\* A caller that has started a process has just started it or had it before.
LEMMA HasMoves ==
    ASSUME "remove" \notin Op, TypeOK, ThreadInv, LockInv, [Next]_vars, NEW c \in Caller, Has(c)'
    PROVE  \/ Launches(c)
           \/ Has(c) /\ mine'[c] = mine[c] /\ op'[c] = op[c]
  <1>1. CASE Same(c)
    BY <1>1 DEF Same, Has
  <1>2. CASE Acts(c) /\ Steps(c)
    BY <1>2, LaunchIs
       DEF Steps, Keeps, Forgets, Has, StartAppFails, Announce, Insert, PreservePrevious,
           Activate, ApplyAsks, ApplyRecords, ApplySettles, ApplyCorrects, StopApp, StopAppEnds,
           Register, Reannounce, RestartReads, RestartAsks, RestartArms
  <1> QED
    BY <1>1, <1>2, ThreadMoves

\* Every step keeps the callers' processes apart: a new one has a number of its own.
LEMMA MineStep ==
    ASSUME "remove" \notin Op, TypeOK, ThreadInv, LockInv, NumberInv, MineInv, [Next]_vars
    PROVE  MineInv'
  <1>0. started \in Nat /\ \A c \in Caller : mine[c] \in Nat /\ mine[c] <= started
    BY ConstantsAssumption DEF TypeOK, NumberInv, Thread
  <1>1. ASSUME NEW c \in Caller, Has(c)'
        PROVE  mine'[c] # 0
    BY <1>0, <1>1, HasMoves DEF Launches, MineInv
  <1>2. ASSUME NEW c \in Caller, NEW d \in Caller \ {c}, Has(c)', Has(d)', Launches(c)
        PROVE  mine'[d] # mine'[c]
    <2>1. Same(d)
      BY <1>2, OnlyOneMoves DEF Launches, Acts, Thread
    <2> QED
      BY <1>0, <1>2, <2>1 DEF Launches, Same
  <1>3. ASSUME NEW c \in Caller, NEW d \in Caller \ {c}, Has(c)', Has(d)', ~Launches(c),
               ~Launches(d)
        PROVE  mine'[d] # mine'[c]
    <2>1. Has(c) /\ Has(d) /\ mine'[c] = mine[c] /\ mine'[d] = mine[d]
      BY <1>3, HasMoves
    <2> QED
      BY <2>1 DEF MineInv
  <1> QED
    BY <1>1, <1>2, <1>3 DEF MineInv

\* Who is to renew the record has just started its process, or was before and has not
\* written it.
LEMMA RenewsMoves ==
    ASSUME "remove" \notin Op, TypeOK, ThreadInv, LockInv, [Next]_vars, NEW c \in Caller,
           Renews(c)'
    PROVE  \/ Launches(c)
           \/ Renews(c) /\ mine'[c] = mine[c] /\ ~ApplyRecords(c) /\ ~RestartRecords(c)
  <1>1. CASE Same(c)
    <2>1. /\ ApplyRecords(c) => pc[c] = "record"
          /\ RestartRecords(c) => pc[c] = "rewrite"
          /\ ApplyRecords(c) \/ RestartRecords(c) => pc'[c] \in {"settle", "arm", "idle"}
      BY Effects DEF ApplyRecords, RestartRecords, Forgets, Thread
    <2> QED
      BY <1>1, <2>1 DEF Same, Renews, Unrecorded
  <1>2. CASE Acts(c) /\ Steps(c)
    <2>1. ApplyRecords(c) \/ RestartRecords(c) => pc'[c] \in {"settle", "arm", "idle"}
      BY Effects DEF ApplyRecords, RestartRecords, Forgets, Thread
    <2> QED
      BY <1>2, <2>1, LaunchIs
         DEF Steps, Keeps, Forgets, Renews, Unrecorded, StartAppFails, Announce, Insert,
             PreservePrevious, Activate, ApplyAsks, ApplyRecords, ApplySettles, ApplyCorrects,
             StopApp, StopAppEnds, Register, Reannounce, RestartReads, RestartAsks, RestartArms
  <1> QED
    BY <1>1, <1>2, ThreadMoves

\* Every step keeps the lives that are still to be recorded out of the record.
LEMMA FreshStep ==
    ASSUME "remove" \notin Op, TypeOK, ThreadInv, LockInv, NumberInv, MineInv, FreshInv,
           [Next]_vars
    PROVE  FreshInv'
  <1>0. /\ started \in Nat /\ record.life \in Nat /\ NoRecord.life = 0
        /\ \A t \in Thread : copy[t].life \in Nat /\ seen[t].life \in Nat
    BY ConstantsAssumption, RecordTyping DEF TypeOK, NoRecord
  <1> SUFFICES ASSUME NEW c \in Caller, Renews(c)'
               PROVE  /\ record'.life # mine'[c]
                      /\ \A t \in Thread : copy'[t].life # mine'[c] /\ seen'[t].life # mine'[c]
    BY DEF FreshInv
  <1>1. CASE Launches(c)
    <2>1. record.life <= started
          /\ \A t \in Thread : copy[t].life <= started /\ seen[t].life <= started
      BY DEF NumberInv
    <2>2. record' = record /\ mine'[c] = started + 1
      BY <1>1 DEF Launches
    <2> QED
      BY <1>0, <2>1, <2>2, KnowledgeMoves
  <1>2. CASE Renews(c) /\ mine'[c] = mine[c] /\ ~ApplyRecords(c) /\ ~RestartRecords(c)
    <2>1. /\ record.life # mine[c] /\ mine[c] # 0 /\ Has(c)
          /\ \A t \in Thread : copy[t].life # mine[c] /\ seen[t].life # mine[c]
      BY <1>2 DEF FreshInv, MineInv, Renews, Unrecorded, Has
    <2>2. \A t \in Thread : copy'[t].life # mine'[c] /\ seen'[t].life # mine'[c]
      BY <1>0, <1>2, <2>1, KnowledgeMoves
    <2>3. ASSUME NEW d \in Caller, Applies(d) \/ Renewals(d)
          PROVE  record'.life # mine[c]
      <3>1. d # c /\ Has(d)
        BY <1>2, <2>3 DEF Applies, Renewals, ApplyRecords, RestartRecords, Has
      <3> QED
        BY <2>1, <2>3, <3>1 DEF MineInv, Applies, Renewals
    <2> QED
      BY <1>2, <2>1, <2>2, <2>3, RecordMoves
         DEF Announces, Registers, Ends, Corrects, Expiry, SameVersion, Thread
  <1> QED
    BY <1>1, <1>2, RenewsMoves

\* An app is managed once its Manager is inserted, until a process that has ended is replaced.
LEMMA ManagedMoves ==
    ASSUME TypeOK, ThreadInv, [Next]_vars
    PROVE  /\ managed' /\ ~managed => \E c \in Caller : Insert(c)
           /\ managed /\ ~managed' => proc = 0 /\ lock = Nobody
  <1>1. ASSUME NEW c \in Caller, Acts(c)
        PROVE  managed' = managed \/ Insert(c) \/ StartApp(c) \/ StartAppFails(c)
    BY <1>1
       DEF Acts, ApplyReads, Cancels, StartChecks, RestartStops, Rollback, Announce,
           PreservePrevious, Activate, ApplyAsks, ApplyRecords, ApplySettles, ApplyCorrects,
           ApplyArms, StopApp, StopAppFails, StopAppEnds, Register, Relaunch, RelaunchFails,
           Reannounce, RestartReads, RestartAsks, RestartArms, RestartRecords, runVars
  <1>2. ASSUME NEW c \in Caller, StartApp(c) \/ StartAppFails(c)
        PROVE  /\ managed' => managed
               /\ managed /\ ~managed' => proc = 0 /\ lock = Nobody
    BY <1>2 DEF StartApp, StartAppFails
  <1>3. ASSUME NEW c \in Caller, Insert(c)
        PROVE  managed'
    BY <1>3 DEF Insert
  <1>4. CASE Expires
    <2>1. managed' = managed
      BY <1>4
         DEF Expires, Fire, ExpireChecks, ExpireRecords, StopApp, StopAppFails, StopAppEnds,
             runVars
    <2> QED
      BY <2>1
  <1>5. CASE Exits \/ ExitEvent \/ UNCHANGED vars
    BY <1>5 DEF Exits, ExitEvent, vars, runVars
  <1> QED
    BY <1>1, <1>2, <1>3, <1>4, <1>5, NextCases

\* A caller that has started a process and still holds the lock announces it, inserts it or
\* announces it again.
LEMMA AnnounceMoves ==
    ASSUME "remove" \notin Op, TypeOK, ThreadInv, LockInv, [Next]_vars, NEW c \in Caller,
           pc[c] \in {"announce", "insert", "reannounce"}
    PROVE  Same(c) \/ Announce(c) \/ Insert(c) \/ Reannounce(c)
  <1>1. op[c] # "none"
    BY PlaceOf
  <1> QED
    BY <1>1, Moves
       DEF Acts, ApplyReads, Cancels, StartChecks, RestartStops, Begin, StartApp, StartAppFails,
           Rollback, PreservePrevious, Activate, ApplyAsks, ApplyRecords, ApplySettles,
           ApplyCorrects, ApplyArms, StopApp, StopAppFails, StopAppEnds, Register, Relaunch,
           RelaunchFails, RestartReads, RestartAsks, RestartArms, RestartRecords

\* Every step keeps the app managed, but for a start that has still to insert its Manager.
LEMMA ManagedStep ==
    ASSUME "remove" \notin Op, TypeOK, ThreadInv, LockInv, ManagedInv, [Next]_vars
    PROVE  ManagedInv'
  <1>1. ASSUME proc' # 0, ~managed'
        PROVE  \E c \in Caller : pc'[c] \in {"announce", "insert"} /\ mine'[c] = proc'
    <2>1. CASE \E c \in Caller : Launches(c)
      BY <2>1 DEF Launches
    <2>2. CASE proc' = proc
      <3>1. ~managed
        BY <1>1, <2>2, ManagedMoves
      <3>2. PICK c \in Caller : pc[c] \in {"announce", "insert"} /\ mine[c] = proc
        BY <1>1, <2>2, <3>1 DEF ManagedInv
      <3>3. CASE Same(c)
        BY <2>2, <3>2, <3>3 DEF Same
      <3>4. CASE Announce(c)
        <4>1. pc'[c] = "insert" /\ mine'[c] = mine[c]
          BY <3>1, <3>4, Effects DEF Announce, Keeps, ManagedInv, Thread
        <4> QED
          BY <2>2, <3>2, <4>1
      <3> QED
        BY <1>1, <3>2, <3>3, <3>4, AnnounceMoves DEF Insert, Reannounce
    <2> QED
      BY <1>1, <2>1, <2>2, ProcMoves
  <1>2. ASSUME NEW c \in Caller, op'[c] = "restart",
               pc'[c] \in {"stopEvent", "relaunch", "announce", "reannounce"}
        PROVE  managed'
    <2>1. CASE RestartStops(c)
      BY <2>1 DEF RestartStops
    <2>2. CASE op[c] = "restart" /\ pc[c] \in {"stopEvent", "relaunch", "announce", "reannounce"}
      <3>1. managed /\ lock = c
        BY <2>2 DEF ManagedInv, LockInv, Thread
      <3> QED
        BY <3>1, ManagedMoves, ConstantsAssumption DEF Thread
    <2>3. CASE Same(c)
      BY <1>2, <2>2, <2>3 DEF Same
    <2>4. CASE Acts(c) /\ Steps(c)
      <3>1. StartApp(c) => op[c] # "restart"
        BY PlaceOf DEF StartApp
      <3>2. StopApp(c) => op[c] # "restart"
        BY PlaceOf DEF StopApp
      <3> QED
        BY <1>2, <2>1, <2>2, <2>4, <3>1, <3>2
           DEF Steps, Keeps, Forgets, Relaunch, Announce, StopAppEnds
    <2> QED
      BY <2>3, <2>4, ThreadMoves
  <1> QED
    BY <1>1, <1>2 DEF ManagedInv

\* Every step keeps what GetAppInfo told an apply as good as the process.
LEMMA InfoStep ==
    ASSUME "remove" \notin Op, TypeOK, ThreadInv, LockInv, NumberInv, MineInv, ManagedInv,
           InfoInv, [Next]_vars
    PROVE  InfoInv'
  <1>0. started \in Nat /\ proc \in Nat /\ proc <= started
    BY ConstantsAssumption DEF TypeOK, NumberInv
  <1>1. ASSUME NEW i \in Nat, i <= started, proc' = i, i # 0
        PROVE  proc = i
    BY <1>0, <1>1, ProcMoves DEF Launches
  <1>2. ASSUME NEW c \in Caller, pc'[c] = "record", proc' = mine'[c]
        PROVE  info'[c] = proc'
    <2>0. mine[c] \in Nat /\ mine[c] <= started
      BY DEF TypeOK, NumberInv, Thread
    <2>1. CASE Same(c)
      <3>1. pc[c] = "record" /\ mine'[c] = mine[c] /\ mine[c] # 0 /\ info'[c] = info[c]
        BY <1>2, <2>1 DEF Same, MineInv, Has
      <3> QED
        BY <1>1, <1>2, <2>0, <3>1 DEF InfoInv
    <2>2. CASE Acts(c) /\ Steps(c)
      <3>1. ApplyAsks(c) /\ info'[c] = AppInfo /\ mine'[c] = mine[c]
        BY <1>2, <2>2 DEF Steps, Forgets
      <3>2. pc[c] = "inform" /\ proc' = proc /\ mine[c] # 0
        BY <3>1 DEF ApplyAsks, runVars, MineInv, Has
      <3>3. managed
        <4>1. \A d \in Caller : pc[d] \in {"announce", "insert"} => mine[d] # proc
          BY <1>2, <3>1, <3>2 DEF MineInv, Has
        <4> QED
          BY <1>2, <3>1, <3>2, <4>1 DEF ManagedInv
      <3> QED
        BY <3>1, <3>2, <3>3 DEF AppInfo
    <2> QED
      BY <2>1, <2>2, ThreadMoves
  <1> QED
    BY <1>2 DEF InfoInv

\* Deadlines are set by an apply and a restart, and taken by the scheduler.
LEMMA DeadlineMoves ==
    ASSUME TypeOK, ThreadInv, [Next]_vars
    PROVE  /\ \/ armed' \in {armed, Nobody}
              \/ \E c \in Caller : /\ ApplyArms(c) \/ RestartArms(c)
                                   /\ armed' = Version(c)
           /\ \/ firing' = firing
              \/ Fire /\ firing' = armed
              \/ firing' = Nobody /\ pc'[Expirer] = "idle"
  <1>1. ASSUME NEW c \in Caller, Acts(c)
        PROVE  /\ firing' = firing
               /\ armed' \in {armed, Nobody} \/ ApplyArms(c) \/ RestartArms(c)
    BY <1>1
       DEF Acts, ApplyReads, Cancels, StartChecks, RestartStops, StartApp, StartAppFails,
           Rollback, Announce, Insert, PreservePrevious, Activate, ApplyAsks, ApplyRecords,
           ApplySettles, ApplyCorrects, ApplyArms, StopApp, StopAppFails, StopAppEnds, Register,
           Relaunch, RelaunchFails, Reannounce, RestartReads, RestartAsks, RestartArms,
           RestartRecords
  <1>2. ASSUME NEW c \in Caller, ApplyArms(c) \/ RestartArms(c)
        PROVE  armed' \in {Nobody, Version(c)}
    BY <1>2 DEF ApplyArms, RestartArms, Version
  <1>3. CASE Expires
    <2>1. Expirer \in Thread
      BY DEF Thread
    <2> QED
      BY <1>3, <2>1, Effects
         DEF Expires, Fire, ExpireChecks, ExpireRecords, StopApp, StopAppFails, StopAppEnds,
             Forgets
  <1>4. CASE Exits \/ ExitEvent \/ UNCHANGED vars
    BY <1>4 DEF Exits, ExitEvent, vars
  <1> QED
    BY <1>1, <1>2, <1>3, <1>4, NextCases

\* Every step keeps an app with a deadline applied.
LEMMA ConfigStep ==
    ASSUME "remove" \notin Op, TypeOK, ThreadInv, LockInv, ConfigInv, [Next]_vars
    PROVE  ConfigInv'
  <1>1. ASSUME NEW c \in Caller
        PROVE  /\ pc'[c] \in {"inquire", "rearm", "rewrite"} => copy'[c].config # Nobody
               /\ pc'[c] = "correct" => seen'[c].config # Nobody
               /\ op'[c] = "apply" => want'[c] # Nobody
    <2>1. CASE Same(c)
      BY <2>1 DEF Same, ConfigInv
    <2>2. CASE Acts(c) /\ Steps(c)
      BY <2>2, PlaceOf, ConstantsAssumption
         DEF Steps, Keeps, Forgets, ConfigInv, RestartArms, StartApp, Relaunch, ApplyAsks,
             ApplySettles, RestartReads, RestartAsks
    <2> QED
      BY <2>1, <2>2, ThreadMoves
  <1>2. /\ pc'[Expirer] # "idle" => firing' # Nobody
        /\ pc'[Expirer] \in {"stop", "stopEvent", "expired", "cleanupFailed"}
             => copy'[Expirer].config # Nobody
    <2>1. pc'[Expirer] # "idle" => firing' # Nobody
      <3>1. pc'[Expirer] = "idle" \/ pc[Expirer] # "idle" \/ Fire
        BY ExpirerMoves DEF ExpireChecks
      <3> QED
        BY <3>1, DeadlineMoves DEF Fire, ConfigInv
    <2>2. pc'[Expirer] \in {"stop", "stopEvent", "expired", "cleanupFailed"}
            => copy'[Expirer].config # Nobody
      BY ExpirerMoves DEF ExpireChecks, ConfigInv
    <2> QED
      BY <2>1, <2>2
  <1>3. ASSUME record'.config = Nobody
        PROVE  /\ armed' = Nobody /\ firing' = Nobody
               /\ \A c \in Caller :
                    pc'[c] \notin {"settle", "correct", "arm", "inquire", "rearm", "rewrite"}
    <2>0. \A c \in Caller : ~Applies(c) /\ ~Renewals(c) /\ ~Corrects(c)
      BY <1>3, PlaceOf
         DEF Applies, Renewals, Corrects, ApplyRecords, RestartRecords, ApplyCorrects, ConfigInv
    <2>1. ~Expiry
      BY <1>3 DEF Expiry, ExpireRecords, ConfigInv
    <2>2. record.config = Nobody
      BY <1>3, <2>0, <2>1, RecordMoves DEF Announces, Registers, Ends, SameVersion
    <2>3. /\ armed = Nobody /\ firing = Nobody
          /\ \A c \in Caller :
               pc[c] \notin {"settle", "correct", "arm", "inquire", "rearm", "rewrite"}
      BY <2>2 DEF ConfigInv
    <2>4. \A c \in Caller : ~ApplyArms(c) /\ ~RestartArms(c)
      BY <2>3 DEF ApplyArms, RestartArms
    <2>5. \A c \in Caller : ~ApplyRecords(c)
      <3>1. ASSUME NEW c \in Caller, ApplyRecords(c)
            PROVE  FALSE
        <4>1. want[c] # Nobody /\ record' = Applied(c)
          BY <3>1, PlaceOf DEF ApplyRecords, ConfigInv
        <4> QED
          BY <1>3, <4>1 DEF Applied
      <3> QED
        BY <3>1
    <2>6. ASSUME NEW c \in Caller
          PROVE  pc'[c] \notin {"settle", "correct", "arm", "inquire", "rearm", "rewrite"}
      BY <2>2, <2>3, <2>4, <2>5, ThreadMoves
         DEF Same, Steps, Forgets, Keeps, ApplySettles, ApplyCorrects, RestartAsks
    <2> QED
      BY <2>3, <2>4, <2>6, DeadlineMoves
  <1> QED
    BY <1>1, <1>2, <1>3 DEF ConfigInv

\* Every step that loses nothing keeps the copies behind the record.
LEMMA VersionStep ==
    ASSUME "remove" \notin Op, TypeOK, ThreadInv, LockInv, MineInv, FreshInv, ~lost', VersionInv,
           [Next]_vars
    PROVE  VersionInv'
  <1>0. /\ record.gen \in Nat /\ record.life \in Nat
        /\ \A t \in Thread : copy[t].gen \in Nat /\ copy[t].life \in Nat
        /\ NoRecord.gen = 0 /\ NoRecord.life = 0
    BY RecordTyping DEF TypeOK, NoRecord
  <1>1. \A t \in Thread : /\ copy[t].gen <= record.gen
                          /\ copy[t].life = record.life => copy[t].gen = record.gen
    BY DEF VersionInv
  <1>2. \A t \in Thread : /\ copy'[t].gen <= record.gen /\ copy'[t].gen \in Nat
                          /\ copy'[t].life = record.life => copy'[t].gen = record.gen
    BY <1>0, <1>1, KnowledgeMoves DEF VersionInv
  <1>3. CASE record'.gen = record.gen /\ record'.life = record.life
    BY <1>0, <1>2, <1>3 DEF VersionInv
  <1>4. ASSUME NEW c \in Caller, Applies(c) \/ Renewals(c)
        PROVE  VersionInv'
    <2>1. record'.gen = record.gen + 1 /\ record'.life = mine[c]
      BY <1>0, <1>4 DEF Applies, Renewals, Overwrites
    <2>2. Renews(c)
      BY <1>4, PlaceOf DEF Applies, Renewals, ApplyRecords, RestartRecords, Renews, Unrecorded
    <2>3. \A t \in Thread : copy[t].life # mine[c]
      BY <2>2 DEF FreshInv
    <2>4. mine[c] # 0 /\ mine[c] # record.life
      <3>1. copy[c].life # mine[c] /\ record.life # mine[c]
        BY <2>2 DEF FreshInv, Thread
      <3> QED
        BY <3>1, <2>2 DEF MineInv, Has, Renews, Unrecorded
    <2> QED
      BY <1>0, <1>2, <2>1, <2>3, <2>4, KnowledgeMoves DEF VersionInv
  <1>5. CASE Expiry
    BY <1>0, <1>1, <1>3, <1>5 DEF Expiry, Thread
  <1>6. ASSUME NEW c \in Caller, Corrects(c)
        PROVE  VersionInv'
    BY <1>3, <1>6 DEF Corrects
  <1> QED
    BY <1>3, <1>4, <1>5, <1>6, RecordMoves DEF Announces, Registers, Ends, SameVersion

\* Every step that loses nothing keeps the running process recorded.
LEMMA RunsStep ==
    ASSUME "remove" \notin Op, TypeOK, ThreadInv, LockInv, HolderInv, InfoInv, ~lost', RunsInv,
           [Next]_vars
    PROVE  RunsInv'
  <1> SUFFICES ASSUME proc' # 0
               PROVE  \/ record'.status = "running" /\ record'.pid = proc'
                      \/ \E c \in Caller : pc'[c] = "announce" /\ mine'[c] = proc'
    BY DEF RunsInv
  <1>1. CASE \E c \in Caller : Launches(c)
    BY <1>1 DEF Launches
  <1>2. CASE proc' = proc
    <2>1. ASSUME NEW c \in Caller, pc[c] = "announce", mine[c] = proc
          PROVE  \/ record'.status = "running" /\ record'.pid = proc'
                 \/ \E d \in Caller : pc'[d] = "announce" /\ mine'[d] = proc'
      <3>1. CASE Same(c)
        BY <1>2, <2>1, <3>1 DEF Same
      <3>2. CASE Announce(c)
        <4>1. record' = StartEvent(record, mine[c])
          BY <3>2 DEF Announce
        <4> QED
          BY <1>2, <2>1, <4>1 DEF StartEvent, TypeOK, Record
      <3> QED
        BY <2>1, <3>1, <3>2, AnnounceMoves DEF Insert, Reannounce
    <2>2. CASE record.status = "running" /\ record.pid = proc
      <3>1. ASSUME NEW c \in Caller, Announces(c)
            PROVE  record'.status = "running" /\ record'.pid = proc
        <4>1. proc = mine[c]
          BY <1>2, <3>1 DEF Announces, Announce, Reannounce, HolderInv, Thread
        <4> QED
          BY <3>1, <4>1 DEF Announces
      <3>2. ASSUME NEW c \in Caller, Applies(c)
            PROVE  record'.status = "running" /\ record'.pid = proc
        <4>1. proc = mine[c] /\ pc[c] = "record"
          BY <1>2, <3>2 DEF Applies, Overwrites, ApplyRecords
        <4> QED
          BY <3>2, <4>1 DEF Applies, InfoInv
      <3>3. ASSUME NEW c \in Caller, Renewals(c)
            PROVE  record'.status = "running" /\ record'.pid = proc
        BY <1>2, <2>2, <3>3 DEF Renewals, Current
      <3>4. ~Ends
        <4>1. \A t \in Thread : ~StopAppEnds(t)
          BY <1>2 DEF StopAppEnds, HolderInv
        <4> QED
          BY <1>2, <4>1 DEF Ends
      <3> QED
        BY <1>2, <2>2, <3>1, <3>2, <3>3, <3>4, RecordMoves DEF Registers, Corrects, Expiry
    <2> QED
      BY <1>2, <2>1, <2>2 DEF RunsInv
  <1> QED
    BY <1>1, <1>2, ProcMoves

\* The generation of the record only grows, by one, with each apply and restart that
\* is recorded.
LEMMA GenMoves ==
    ASSUME TypeOK, ThreadInv, ~lost', VersionInv, [Next]_vars
    PROVE  \/ record'.gen = record.gen /\ record'.life = record.life
           \/ \E c \in Caller : /\ Applies(c) \/ Renewals(c)
                                /\ record'.gen = record.gen + 1 /\ record'.life = mine[c]
                                /\ copy[c].gen = record.gen
  <1>1. ASSUME NEW c \in Caller, Applies(c) \/ Renewals(c)
        PROVE  /\ record'.gen = record.gen + 1 /\ record'.life = mine[c]
               /\ copy[c].gen = record.gen
    BY <1>1 DEF Applies, Renewals, Overwrites
  <1>2. CASE Expiry
    BY <1>2 DEF Expiry, VersionInv, Thread
  <1>3. ASSUME NEW c \in Caller, Corrects(c)
        PROVE  record'.gen = record.gen /\ record'.life = record.life
    BY <1>3 DEF Corrects
  <1> QED
    BY <1>1, <1>2, <1>3, RecordMoves DEF Announces, Registers, Ends, SameVersion

\* A restart that has launched its process goes on to record it, if the app was
\* ever applied.
LEMMA RestartGoesOn ==
    ASSUME "remove" \notin Op, TypeOK, ThreadInv, LockInv, [Next]_vars, NEW c \in Caller,
           op[c] = "restart",
           pc[c] \in {"announce", "reannounce", "read", "inquire", "rearm", "rewrite"}
    PROVE  \/ /\ op'[c] = "restart" /\ mine'[c] = mine[c]
              /\ pc'[c] \in {"announce", "reannounce", "read", "inquire", "rearm", "rewrite"}
           \/ RestartRecords(c)
           \/ record.config = Nobody
  <1>1. CASE Same(c)
    BY <1>1 DEF Same
  <1>2. CASE Acts(c)
    <2>1. \/ Announce(c) \/ Reannounce(c) \/ RestartReads(c) \/ RestartAsks(c) \/ RestartArms(c)
          \/ RestartRecords(c)
      BY <1>2
         DEF Acts, ApplyReads, Cancels, StartChecks, RestartStops, Begin, StartApp, StartAppFails,
             Rollback, Insert, PreservePrevious, Activate, ApplyAsks, ApplyRecords, ApplySettles,
             ApplyCorrects, ApplyArms, StopApp, StopAppFails, StopAppEnds, Register, Relaunch,
             RelaunchFails
    <2>2. Announce(c) \/ Reannounce(c) \/ RestartArms(c) =>
            op'[c] = op[c] /\ mine'[c] = mine[c] /\ pc'[c] \in {"reannounce", "read", "rewrite"}
      BY Effects DEF Announce, Reannounce, RestartArms, Keeps, Thread
    <2>3. (RestartReads(c) /\ record.config # Nobody) \/ RestartAsks(c) =>
            op'[c] = op[c] /\ mine'[c] = mine[c] /\ pc'[c] \in {"inquire", "rearm"}
      BY Effects DEF RestartReads, RestartAsks, Thread
    <2> QED
      BY <2>1, <2>2, <2>3
  <1> QED
    BY <1>1, <1>2, Moves

\* Who is at one of these places can only do this.
LEMMA StopEventMoves ==
    ASSUME "remove" \notin Op, TypeOK, ThreadInv, [Next]_vars, NEW t \in Thread,
           pc[t] = "stopEvent", ~Same(t)
    PROVE  StopAppEnds(t)
  <1>1. CASE t \in Caller
    <2>1. Acts(t) /\ op[t] # "none"
      BY <1>1, Moves, PlaceOf
    <2> QED
      BY <2>1
         DEF Acts, ApplyReads, Cancels, StartChecks, RestartStops, Begin, StartApp, StartAppFails,
             Rollback, Announce, Insert, PreservePrevious, Activate, ApplyAsks, ApplyRecords,
             ApplySettles, ApplyCorrects, ApplyArms, StopApp, StopAppFails, Register, Relaunch,
             RelaunchFails, Reannounce, RestartReads, RestartAsks, RestartArms, RestartRecords
  <1>2. CASE t = Expirer
    BY <1>2, Moves DEF Expires, Fire, ExpireChecks, ExpireRecords, StopApp, StopAppFails
  <1> QED
    BY <1>1, <1>2 DEF Thread

\* An apply that waits for its process to be settled finds the record corrected or does it.
LEMMA SettleMoves ==
    ASSUME TypeOK, ThreadInv, [Next]_vars, NEW c \in Caller, ~Same(c)
    PROVE  /\ pc[c] = "settle" => ApplySettles(c)
           /\ pc[c] = "correct" => ApplyCorrects(c)
  BY Moves
     DEF Acts, ApplyReads, Cancels, StartChecks, RestartStops, Begin, StartApp, StartAppFails,
         Rollback, Announce, Insert, PreservePrevious, Activate, ApplyAsks, ApplyRecords,
         ApplySettles, ApplyCorrects, ApplyArms, StopApp, StopAppFails, StopAppEnds, Register,
         Relaunch, RelaunchFails, Reannounce, RestartReads, RestartAsks, RestartArms,
         RestartRecords

\* Exit events are taken from the late processes, and only an exit adds one.
LEMMA LateMoves ==
    ASSUME TypeOK, ThreadInv, [Next]_vars, proc = 0
    PROVE  late' = late \/ ExitEvent
  <1>1. ASSUME NEW c \in Caller, Acts(c)
        PROVE  late' = late
    BY <1>1
       DEF Acts, ApplyReads, Cancels, StartChecks, RestartStops, StartApp, StartAppFails,
           Rollback, Announce, Insert, PreservePrevious, Activate, ApplyAsks, ApplyRecords,
           ApplySettles, ApplyCorrects, ApplyArms, StopApp, StopAppFails, StopAppEnds, Register,
           Relaunch, RelaunchFails, Reannounce, RestartReads, RestartAsks, RestartArms,
           RestartRecords, runVars
  <1>2. CASE Expires
    BY <1>2
       DEF Expires, Fire, ExpireChecks, ExpireRecords, StopApp, StopAppFails, StopAppEnds, runVars
  <1>3. CASE Exits \/ UNCHANGED vars
    BY <1>3 DEF Exits, vars, runVars
  <1> QED
    BY <1>1, <1>2, <1>3, NextCases

\* Where the record may stand while nothing runs.
LEMMA EndsStep ==
    ASSUME "remove" \notin Op, TypeOK, ThreadInv, MineInv, LockInv, ~lost', EndsInv, [Next]_vars
    PROVE  EndsInv'
  <1> DEFINE Late == late' # {} \/ \E t \in Thread : pc'[t] = "stopEvent"
             Status == \/ record'.status # "running"
                       \/ \E c \in Caller : pc'[c] \in {"settle", "correct"}
             Pid == record'.pid = 0
  <1> SUFFICES ASSUME proc' = 0
               PROVE  Late \/ (Status /\ Pid)
    BY DEF EndsInv
  <1> HIDE DEF Late, Status, Pid
  \* The process has just ended.
  <1>1. CASE proc # 0
    <2>1. CASE Exits
      BY <1>1, <2>1 DEF Exits, Late
    <2>2. ASSUME NEW t \in Thread, StopApp(t)
          PROVE  Late
      BY <2>2, Effects DEF StopApp, Late
    <2>3. ASSUME NEW c \in Caller, RestartStops(c)
          PROVE  Late
      BY <2>3, Effects DEF RestartStops, Begin, Late, Thread
    <2>4. started + 1 # 0
      BY ConstantsAssumption DEF TypeOK
    <2> QED
      BY <1>1, <2>1, <2>2, <2>3, <2>4, ProcMoves DEF Launches
  <1>2. CASE proc = 0
    <2>1. ASSUME Ends \/ Expiry \/ \E c \in Caller : Corrects(c)
          PROVE  Status /\ Pid
      BY <2>1 DEF Ends, Expiry, Corrects, Status, Pid
    <2>2. ASSUME NEW c \in Caller, Announces(c)
          PROVE  Late
      <3>1. mine[c] \in late /\ late' = late
        BY <1>2, <2>2 DEF Announces, Announce, Reannounce, Current, MineInv, Has, runVars
      <3> QED
        BY <3>1 DEF Late
    <2>3. ASSUME NEW c \in Caller, Applies(c)
          PROVE  Late \/ (Status /\ Pid)
      <3>1. CASE info[c] = 0
        <4>1. pc'[c] = "settle"
          BY <2>3, <3>1, Effects DEF Applies, ApplyRecords, Thread
        <4> QED
          BY <2>3, <3>1, <4>1 DEF Applies, Status, Pid
      <3>2. CASE info[c] # 0
        <4>1. mine[c] \in late /\ late' = late
          BY <1>2, <2>3, <3>2 DEF Applies, Overwrites, ApplyRecords, runVars
        <4> QED
          BY <4>1 DEF Late
      <3> QED
        BY <3>1, <3>2
    \* A process that has ended is still to be reported, or was stopped and is still
    \* to be recorded so.
    <2>4. CASE late # {} /\ late' = late
      BY <2>4 DEF Late
    <2>5. ASSUME NEW t \in Thread, pc[t] = "stopEvent", Same(t)
          PROVE  Late
      BY <2>5 DEF Same, Late
    <2>6. ASSUME NEW t \in Thread, pc[t] = "stopEvent", ~Same(t)
          PROVE  Status /\ Pid
      <3>1. StopAppEnds(t)
        BY <2>6, StopEventMoves
      <3> QED
        BY <2>1, <3>1, EventsRecord
    <2>7. CASE late' # late
      <3>1. ExitEvent
        BY <1>2, <2>7, LateMoves
      <3> QED
        BY <2>1, <3>1, EventsRecord
    \* Nothing is to come of a process, and the record is written by neither an event
    \* nor an apply.
    <2>8. CASE /\ record.status # "running" \/ \E c \in Caller : pc[c] \in {"settle", "correct"}
               /\ record.pid = 0
               /\ late' = late
               /\ \/ record' = record /\ lost' = lost
                  \/ \E c \in Caller : Registers(c) \/ Renewals(c)
      <3>1. Status
        <4>1. CASE record.status # "running"
          BY <2>8, <4>1 DEF Registers, Renewals, Status
        <4>2. ASSUME NEW c \in Caller, pc[c] = "settle", ~Same(c)
              PROVE  Status
          <5>1. ApplySettles(c)
            BY <4>2, SettleMoves
          <5>2. CASE record.status = "running"
            <6>1. pc'[c] = "correct"
              BY <5>1, <5>2, Effects DEF ApplySettles, Thread
            <6> QED
              BY <6>1 DEF Status
          <5> QED
            BY <4>1, <5>2
        <4>3. ASSUME NEW c \in Caller, pc[c] = "correct", ~Same(c)
              PROVE  Status
          BY <2>1, <4>3, SettleMoves, EventsRecord
        <4>4. ASSUME NEW c \in Caller, pc[c] \in {"settle", "correct"}, Same(c)
              PROVE  Status
          BY <4>4 DEF Same, Status
        <4> QED
          BY <2>8, <4>1, <4>2, <4>3, <4>4
      <3>2. ASSUME NEW c \in Caller, Renewals(c)
            PROVE  Late \/ Pid
        BY <1>2, <2>8, <3>2 DEF Renewals, Current, Late, Pid
      <3> QED
        BY <2>8, <3>1, <3>2 DEF Registers, Pid
    <2> QED
      BY <1>2, <2>1, <2>2, <2>3, <2>4, <2>5, <2>6, <2>7, <2>8, RecordMoves DEF EndsInv
  <1> QED
    BY <1>1, <1>2

\* A restart that is to write the record writes it.
LEMMA RewriteEnds ==
    ASSUME TypeOK, ThreadInv, [Next]_vars, NEW c \in Caller, pc[c] = "rewrite", ~Same(c)
    PROVE  RestartRecords(c)
  BY Moves
     DEF Acts, ApplyReads, Cancels, StartChecks, RestartStops, Begin, StartApp, StartAppFails,
         Rollback, Announce, Insert, PreservePrevious, Activate, ApplyAsks, ApplyRecords,
         ApplySettles, ApplyCorrects, ApplyArms, StopApp, StopAppFails, StopAppEnds, Register,
         Relaunch, RelaunchFails, Reannounce, RestartReads, RestartAsks, RestartArms

\* What the record has reached it stays at or leaves behind.
LEMMA BehindStays ==
    ASSUME TypeOK, ThreadInv, ~lost', VersionInv, [Next]_vars, NEW d, d.gen \in Nat, Behind(d)
    PROVE  Behind(d)'
  <1>1. record.gen \in Nat
    BY RecordTyping DEF TypeOK
  <1>2. d.gen <= record.gen
    BY <1>1 DEF Behind
  <1>3. CASE record'.gen = record.gen /\ record'.life = record.life
    BY <1>3 DEF Behind
  <1>4. CASE record'.gen = record.gen + 1
    BY <1>1, <1>2, <1>4 DEF Behind
  <1> QED
    BY <1>3, <1>4, GenMoves

\* Every step that loses nothing keeps the deadlines behind the record.
LEMMA DeadlineStep ==
    ASSUME "remove" \notin Op, TypeOK, ThreadInv, LockInv, ~lost', VersionInv, DeadlineInv,
           [Next]_vars
    PROVE  DeadlineInv'
  <1>0. \A c \in Caller : copy[c].gen \in Nat /\ mine[c] \in 0..MaxInst
    BY RecordTyping DEF TypeOK, Thread
  <1>1. ASSUME NEW c \in Caller, pc'[c] \in {"settle", "correct", "arm"}
        PROVE  Behind(Version(c))'
    <2>1. CASE pc[c] \in {"settle", "correct", "arm"} /\ copy'[c] = copy[c] /\ mine'[c] = mine[c]
      <3>1. Version(c)' = Version(c) /\ Version(c).gen \in Nat
        BY <1>0, <2>1 DEF Version
      <3>2. Behind(Version(c))
        BY <2>1 DEF DeadlineInv
      <3>3. \A d : d.gen \in Nat /\ Behind(d) => Behind(d)'
        BY BehindStays
      <3> QED
        BY <3>1, <3>2, <3>3 DEF Behind
    <2>2. CASE ApplyRecords(c) /\ copy'[c] = copy[c] /\ mine'[c] = mine[c]
      <3>1. record'.gen = copy[c].gen + 1 /\ record'.life = mine[c]
        BY <2>2 DEF ApplyRecords, Applied
      <3> QED
        BY <2>2, <3>1 DEF Behind, Version
    <2> QED
      BY <1>1, <2>1, <2>2, ThreadMoves
         DEF Same, Steps, Forgets, Keeps, ApplySettles, ApplyCorrects
  <1>2. ASSUME NEW d \in {armed, firing} \ {Nobody}
        PROVE  Behind(d)' \/ (\E c \in Caller : pc'[c] = "rewrite" /\ d = Version(c)')
    <2>0. d.gen \in Nat
      BY <1>2 DEF TypeOK, Deadline
    <2>1. CASE Behind(d)
      BY <2>0, <2>1, BehindStays
    <2>2. ASSUME NEW c \in Caller, pc[c] = "rewrite", d = Version(c)
          PROVE  Behind(d)' \/ (pc'[c] = "rewrite" /\ d = Version(c)')
      <3>1. CASE Same(c)
        BY <2>2, <3>1 DEF Same, Version
      <3>2. CASE ~Same(c)
        <4>1. Renewals(c)
          BY <2>2, <3>2, RewriteEnds, EventsRecord
        <4> QED
          BY <2>2, <4>1 DEF Renewals, Behind, Version
      <3> QED
        BY <3>1, <3>2
    <2> QED
      BY <2>1, <2>2 DEF DeadlineInv
  <1>4. ASSUME NEW c \in Caller, RestartArms(c)
        PROVE  pc'[c] = "rewrite" /\ Version(c)' = Version(c)
    BY <1>4, Effects DEF RestartArms, Keeps, Version, Thread
  <1>5. ASSUME NEW d \in {armed', firing'} \ {Nobody}
        PROVE  Behind(d)' \/ (\E c \in Caller : pc'[c] = "rewrite" /\ d = Version(c)')
    <2>1. CASE d \in {armed, firing}
      BY <1>2, <1>5, <2>1
    <2>2. ASSUME NEW c \in Caller, ApplyArms(c) \/ RestartArms(c), d = Version(c)
          PROVE  Behind(d)' \/ (\E e \in Caller : pc'[e] = "rewrite" /\ d = Version(e)')
      <3>1. CASE ApplyArms(c)
        BY <2>2, <3>1 DEF ApplyArms, DeadlineInv, Behind
      <3>2. CASE RestartArms(c)
        BY <1>4, <2>2, <3>2
      <3> QED
        BY <2>2, <3>1, <3>2
    <2> QED
      BY <1>5, <2>1, <2>2, DeadlineMoves
  <1> QED
    BY <1>1, <1>5 DEF DeadlineInv

\* An apply or a restart gives its process a life of its own.
LEMMA BornStep ==
    ASSUME "remove" \notin Op, TypeOK, ThreadInv, LockInv, NumberInv, MineInv, BornInv,
           [Next]_vars
    PROVE  BornInv'
  <1> SUFFICES ASSUME NEW c \in Caller, Renews(c)'
               PROVE  life'[mine'[c]] = mine'[c]
    BY DEF BornInv
  <1>1. CASE Launches(c)
    <2>1. op[c] # "start"
      <3>1. op'[c] = op[c]
        BY <1>1 DEF Launches, StartApp, Relaunch
      <3> QED
        BY <3>1 DEF Renews
    <2> QED
      BY <1>1, <2>1 DEF Launches
  <1>2. CASE Renews(c) /\ mine'[c] = mine[c]
    <2>1. mine[c] \in Inst /\ mine[c] <= started
      BY <1>2, ConstantsAssumption
         DEF Renews, Unrecorded, MineInv, Has, TypeOK, Inst, NumberInv, Thread
    <2>2. life'[mine[c]] = life[mine[c]]
      BY <2>1, ProcMoves DEF Launches
    <2> QED
      BY <1>2, <2>2 DEF BornInv
  <1> QED
    BY <1>1, <1>2, RenewsMoves

\* Who renews the record goes on until it has, or finds that there is nothing to renew.
LEMMA RenewsGoesOn ==
    ASSUME "remove" \notin Op, TypeOK, ThreadInv, LockInv, [Next]_vars, NEW c \in Caller,
           Renews(c)
    PROVE  \/ Renews(c)' /\ mine'[c] = mine[c]
           \/ ApplyRecords(c) \/ RestartRecords(c)
           \/ record.config = Nobody
  <1>1. CASE Same(c)
    BY <1>1 DEF Same, Renews, Unrecorded
  <1>2. CASE op[c] = "restart"
    BY <1>2, RestartGoesOn, PlaceOf DEF Renews, Unrecorded
  <1>3. CASE op[c] = "apply" /\ Acts(c)
    <2>1. pc[c] \in {"announce", "insert", "inform", "record"}
      BY <1>3, PlaceOf DEF Renews, Unrecorded
    <2>2. Announce(c) \/ Insert(c) \/ ApplyAsks(c) \/ ApplyRecords(c)
      BY <1>3, <2>1
         DEF Acts, ApplyReads, Cancels, StartChecks, RestartStops, Begin, StartApp, StartAppFails,
             Rollback, PreservePrevious, Activate, ApplySettles, ApplyCorrects, ApplyArms, StopApp,
             StopAppFails, StopAppEnds, Register, Relaunch, RelaunchFails, Reannounce,
             RestartReads, RestartAsks, RestartArms, RestartRecords
    <2>3. Announce(c) \/ Insert(c) \/ ApplyAsks(c) =>
            pc'[c] \in {"insert", "inform", "record"} /\ op'[c] = op[c] /\ mine'[c] = mine[c]
      BY <1>3, Effects DEF Announce, Insert, ApplyAsks, Keeps, Thread
    <2> QED
      BY <1>3, <2>2, <2>3 DEF Renews, Unrecorded
  <1> QED
    BY <1>1, <1>2, <1>3, Moves, PlaceOf DEF Renews, Unrecorded

\* Every step that loses nothing and crosses no expiry keeps the life of the process recorded.
LEMMA LifeStep ==
    ASSUME "remove" \notin Op, TypeOK, ThreadInv, LockInv, NumberInv, MineInv, BornInv, LifeInv,
           ~lost', ~crossed', [Next]_vars
    PROVE  LifeInv'
  <1> SUFFICES ASSUME proc' # 0
               PROVE  \/ life'[proc'] = record'.life
                      \/ record'.config = Nobody
                      \/ \E c \in Caller : Renews(c)' /\ mine'[c] = proc'
    BY DEF LifeInv
  <1>1. ASSUME NEW c \in Caller, Launches(c)
        PROVE  life'[proc'] = record'.life \/ (Renews(c)' /\ mine'[c] = proc')
    <2>1. op'[c] = op[c]
      BY <1>1 DEF Launches, StartApp, Relaunch
    <2> QED
      BY <1>1, <2>1 DEF Launches, Renews, Unrecorded
  <1>2. CASE proc' = proc /\ life' = life
    <2>1. ASSUME NEW c \in Caller, Applies(c) \/ Renewals(c)
          PROVE  life'[proc'] = record'.life
      <3>1. Renews(c)
        BY <2>1, PlaceOf DEF Applies, Renewals, ApplyRecords, RestartRecords, Renews, Unrecorded
      <3>2. proc = mine[c] /\ record'.life = mine[c]
        BY <1>2, <2>1 DEF Applies, Overwrites, Renewals
      <3> QED
        BY <1>2, <3>1, <3>2 DEF BornInv
    <2>2. CASE record' = record \/ SameVersion
      <3>1. record'.life = record.life /\ record'.config = record.config
        BY <2>2 DEF SameVersion
      <3>2. ASSUME NEW c \in Caller, Renews(c), mine[c] = proc
            PROVE  \/ life'[proc'] = record'.life
                   \/ record'.config = Nobody
                   \/ Renews(c)' /\ mine'[c] = proc'
        <4>1. ApplyRecords(c) => record'.life = mine[c]
          BY DEF ApplyRecords, Applied
        <4>2. RestartRecords(c) => record'.life = mine[c]
          BY EventsRecord DEF Renewals
        <4>3. life[mine[c]] = mine[c]
          BY <3>2 DEF BornInv
        <4> QED
          BY <1>2, <3>1, <3>2, <4>1, <4>2, <4>3, RenewsGoesOn
      <3> QED
        BY <1>2, <3>1, <3>2 DEF LifeInv
    <2>3. ~Expiry /\ \A c \in Caller : ~Corrects(c)
      BY <1>2 DEF Expiry, Corrects
    <2> QED
      BY <2>1, <2>2, <2>3, RecordMoves DEF Announces, Registers, Ends
  <1> QED
    BY <1>1, <1>2, ProcMoves

\* expireApp decides to stop what its deadline was set for, and nothing is started
\* before it does.
LEMMA StopStep ==
    ASSUME "remove" \notin Op, TypeOK, ThreadInv, LockInv, ConfigInv, VersionInv, DeadlineInv,
           LifeInv, StopInv,
           ~crossed', [Next]_vars
    PROVE  StopInv'
  <1> SUFFICES ASSUME pc'[Expirer] = "stop", proc' # 0
               PROVE  life'[proc'] = firing'.life
    BY DEF StopInv
  <1>1. CASE pc[Expirer] = "stop"
    <2>1. \A c \in Caller : ~Launches(c)
      BY <1>1 DEF Launches
    <2>2. firing' = firing
      BY <1>1, DeadlineMoves DEF Fire
    <2> QED
      BY <1>1, <2>1, <2>2, ProcMoves DEF StopInv
  <1>2. CASE ExpireChecks /\ firing' = firing /\ record.gen = firing.gen
    <2>1. \A c \in Caller : ~Unrecorded(c)
      BY <1>2 DEF ExpireChecks
    <2>2. proc' = proc /\ life' = life
      BY <1>2 DEF ExpireChecks, runVars, instVars
    <2>3. firing # Nobody /\ firing.gen \in Nat
      BY <1>2 DEF ExpireChecks, ConfigInv, TypeOK, Deadline
    <2>4. firing.life = record.life
      BY <1>2, <2>1, <2>3 DEF DeadlineInv, Behind, Unrecorded
    <2>5. record.config # Nobody /\ \A c \in Caller : ~Renews(c)
      BY <2>1, <2>3 DEF ConfigInv, Renews
    <2> QED
      BY <1>2, <2>2, <2>4, <2>5 DEF LifeInv
  <1> QED
    BY <1>1, <1>2, ExpirerMoves

\* All of it holds at the start: nothing runs, nobody calls.
LEMMA BaseInit ==
    ASSUME Init
    PROVE  Base
  <1>0. 0 \in 0..MaxInst /\ NoRecord \in Record /\ Expirer \in Thread
    BY ConstantsAssumption, RecordTyping DEF Thread
  <1>1. TypeOK
    BY <1>0 DEF Init, TypeOK, PC, Holder
  <1>2. ThreadInv
    BY <1>0 DEF Init, ThreadInv, Places, Thread
  <1>3. LockInv /\ HolderInv
    BY ConstantsAssumption DEF Init, LockInv, HolderInv
  <1>4. NumberInv
    BY DEF Init, NumberInv, NoRecord
  <1>5. MineInv /\ FreshInv /\ BornInv
    BY DEF Init, MineInv, FreshInv, BornInv, Has, Renews, Unrecorded, Thread
  <1>6. ManagedInv /\ InfoInv
    BY DEF Init, ManagedInv, InfoInv, Thread
  <1>7. ConfigInv
    BY <1>0 DEF Init, ConfigInv, Thread
  <1> QED
    BY <1>1, <1>2, <1>3, <1>4, <1>5, <1>6, <1>7 DEF Base

\* And so does the rest.
LEMMA InvInit ==
    ASSUME Init
    PROVE  IInv
  <1>1. VersionInv
    BY DEF Init, VersionInv, NoRecord
  <1>2. RunsInv /\ EndsInv
    BY DEF Init, RunsInv, EndsInv, NoRecord, Thread
  <1>3. DeadlineInv
    BY DEF Init, DeadlineInv, Thread
  <1>4. LifeInv /\ StopInv
    BY DEF Init, LifeInv, StopInv
  <1> QED
    BY <1>1, <1>2, <1>3, <1>4, BaseInit DEF IInv, TrueInv, OwnInv

\* Every step keeps the inductive invariant.
LEMMA InvStep ==
    ASSUME "remove" \notin Op, IInv, [Next]_vars
    PROVE  IInv'
  <1>1. Base'
    BY TypeStep, ThreadStep, LockStep, HolderStep, NumberStep, MineStep, FreshStep, BornStep,
       ManagedStep, InfoStep, ConfigStep
       DEF IInv, Base
  <1>2. (~lost' => ~lost) /\ (~crossed' => ~crossed)
    BY FlagsStay DEF IInv, Base
  <1>3. ASSUME ~lost'
        PROVE  TrueInv'
    BY <1>2, <1>3, VersionStep, RunsStep, EndsStep, DeadlineStep
       DEF IInv, Base, TrueInv
  <1>4. ASSUME ~lost', ~crossed'
        PROVE  OwnInv'
    BY <1>2, <1>4, LifeStep, StopStep DEF IInv, Base, TrueInv, OwnInv
  <1> QED
    BY <1>1, <1>3, <1>4 DEF IInv

\* It holds for any callers, configurations and number of processes, when the app is not
\* removed.
LEMMA Invariant ==
    ASSUME "remove" \notin Op
    PROVE  Spec => []IInv
  <1>1. Init => IInv
    BY InvInit
  <1>2. IInv /\ [Next]_vars => IInv'
    BY InvStep
  <1> QED
    BY <1>1, <1>2, PTL DEF Spec

\* Every variable keeps its type: in particular a record is one that the state file can hold,
\* and a process is known by a number that was given to one.
THEOREM TypeCorrect ==
    ASSUME "remove" \notin Op
    PROVE  Spec => []TypeOK
  <1>1. IInv => TypeOK
    BY DEF IInv, Base
  <1> QED
    BY <1>1, Invariant, PTL

\* The inductive invariant says of the record what RecordIsTruthful says.
LEMMA QuietIsTrue ==
    ASSUME IInv
    PROVE  RecordIsTruthful
  <1>1. TypeOK
    BY DEF IInv, Base
  <1>2. ASSUME Quiet, ~lost
        PROVE  IF proc # 0 THEN record.status = "running" /\ record.pid = proc
                           ELSE record.status # "running" /\ record.pid = 0
    <2>1. late = {} /\ (\A t \in Thread : pc[t] = "idle") /\ RunsInv /\ EndsInv
      BY <1>2 DEF Quiet, IInv, TrueInv
    <2>2. \A c \in Caller : pc[c] = "idle"
      BY <2>1 DEF Thread
    <2> QED
      BY <2>1, <2>2 DEF RunsInv, EndsInv
  <1> QED
    BY <1>1, <1>2 DEF RecordIsTruthful

\* RecordIsTruthful: between calls the record tells whether the app runs, and as which process,
\* however applies, starts, stops, restarts, expiries and exits interleave, unless an older fact
\* about the app was written over a newer one.
THEOREM Truthful ==
    ASSUME "remove" \notin Op
    PROVE  Spec => []RecordIsTruthful
  <1>1. IInv => RecordIsTruthful
    BY QuietIsTrue
  <1> QED
    BY <1>1, Invariant, PTL

\* The step in which expireApp stops a process is StopApp, before which StopInv holds.
LEMMA StopsItsOwn ==
    ASSUME IInv, [Next]_vars, pc[Expirer] = "stop", pc'[Expirer] = "stopEvent", ~lost, ~crossed
    PROVE  life[proc] = firing.life
  <1>1. StopApp(Expirer)
    <2>1. Expires /\ op[Expirer] = "none"
      BY Moves DEF IInv, Base, Same, ThreadInv
    <2>2. ~Fire /\ ~ExpireChecks /\ ~ExpireRecords /\ ~StopAppEnds(Expirer)
      BY DEF Fire, ExpireChecks, ExpireRecords, StopAppEnds
    <2>3. ~StopAppFails(Expirer)
      BY <2>1, Effects DEF StopAppFails, IInv, Base, Thread
    <2> QED
      BY <2>1, <2>2, <2>3 DEF Expires
  <1> QED
    BY <1>1 DEF StopApp, IInv, OwnInv, StopInv

\* ExpiryEndsItsOwn: the comparison of generations in expireApp is as good as one of identities.
\* What it stops is a process of the apply or restart that its deadline was set for, unless an
\* update of the record was lost, a start was under way, or a restart wrote its generation over
\* the process of another.
THEOREM ExpiryIsAlwaysOfItsOwn ==
    ASSUME "remove" \notin Op
    PROVE  Spec => ExpiryEndsItsOwn
  <1>1. IInv /\ [Next]_vars =>
            [pc[Expirer] = "stop" /\ pc'[Expirer] = "stopEvent" /\ ~lost /\ ~crossed
                => life[proc] = firing.life]_vars
    BY StopsItsOwn
  <1> QED
    BY <1>1, Invariant, PTL DEF Spec, ExpiryEndsItsOwn
=============================================================================
