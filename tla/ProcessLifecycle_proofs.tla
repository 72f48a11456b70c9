---------------------- MODULE ProcessLifecycle_proofs ----------------------
(***************************************************************************)
(* Proofs about ProcessLifecycle: IInv is inductive, and the safety        *)
(* properties follow from it.  CoreInv comes first, then TruthInv, each    *)
(* with one lemma per action and, in it, one step per part the action can  *)
(* disturb.  They hold for any number of callers, managers and processes,  *)
(* any restart limit, and kills that may fail.                             *)
(***************************************************************************)
EXTENDS ProcessLifecycle_inv, TLAPS

USE ConstantsAssumption DEF mgrVars, watchVars, callVars, histVars

----------------------------------------------------------------------------
(* Events and the record *)

\* The events callers send make a well-formed record of the record, and a
\* start or a restart clears the reason.
LEMMA ApplyCallerEvent ==
    /\ \A p \in Pid \cup {Nobody} :
        /\ Apply(StartEvent(p)) \in Record /\ Apply(StartEvent(p)).reason = ""
        /\ Apply(RestartEvent(p)) \in Record /\ Apply(RestartEvent(p)).reason = ""
    /\ Apply(StopEvent("manual_stop")) \in Record
    /\ record \in Record =>
        Apply(RegisterEvent) \in Record /\ Apply(RegisterEvent).reason = ""
    /\ NoRecord \in Record /\ NoRecord.reason = ""
BY DEF Apply, StartEvent, RestartEvent, StopEvent, RegisterEvent, NoRecord, Record, Status,
   Reason

\* A watcher's event never makes the reason manual_stop.
LEMMA ApplyWatchEvent ==
    ASSUME record \in Record, NEW e \in WatchEvent
    PROVE  /\ Apply(e) \in Record
           /\ Apply(e).reason = "manual_stop" => Apply(e) = record
<1> USE DEF Apply, Record, Status, Reason
<1>1. CASE e = NoEvent BY <1>1 DEF NoEvent
<1>2. CASE e = StopEvent("") BY <1>2 DEF StopEvent
<1>3. ASSUME NEW p \in Pid, e = RestartEvent(p)
      PROVE  Apply(e) \in Record /\ Apply(e).reason = ""
  BY <1>3 DEF RestartEvent
<1>4. ASSUME NEW r \in {"crash", "max_restart", "restart_failure"}, e = FailedEvent(r)
      PROVE  Apply(e) \in Record /\ Apply(e).reason # "manual_stop"
  BY <1>4 DEF FailedEvent
<1>. QED BY <1>1, <1>2, <1>3, <1>4 DEF WatchEvent

\* The events the watcher posts are watcher events.
LEMMA WatchEventTyped ==
    /\ NoEvent \in WatchEvent
    /\ StopEvent("") \in WatchEvent
    /\ \A p \in Pid : RestartEvent(p) \in WatchEvent
    /\ \A r \in {"crash", "max_restart", "restart_failure"} : FailedEvent(r) \in WatchEvent
BY DEF WatchEvent

----------------------------------------------------------------------------
(* Initial states *)

\* The invariant holds of an empty server and of one that adopted a process.
LEMMA InitCoreInv == Init => CoreInv
<1> SUFFICES ASSUME Init PROVE CoreInv
  OBVIOUS
<1>1. /\ \A m \in Manager : watch[m] = "none"
      /\ \A c \in Caller : pc[c] = "idle"
      /\ lock = Nobody /\ leaked = {} /\ orphaned = {}
  BY DEF Init
<1>2. record \in Record /\ record.reason # "manual_stop"
  <2>1. CASE Fresh
    BY <2>1, ApplyCallerEvent DEF Fresh
  <2>2. CASE Restore
    <3>1. PICK p \in Pid : record = [status |-> "running", pid |-> p, reason |-> ""]
      BY <2>2 DEF Restore
    <3>. QED BY <3>1 DEF Record, Status, Reason
  <2>. QED BY <2>1, <2>2 DEF Init
<1>3. TypeOK
  <2>1. /\ registry \in Manager \cup {Nobody}
        /\ made \subseteq Manager
        /\ running \in [Manager -> BOOLEAN]
        /\ cmd \in [Manager -> Pid \cup {Nobody}]
        /\ recovered \in [Manager -> {"no", "verified", "unverified"}]
        /\ restarts \in [Manager -> Nat]
        /\ proc \in [Pid -> ProcState]
    <3>1. CASE Fresh
      BY <3>1 DEF Fresh, ProcState
    <3>2. CASE Restore
      <4>1. PICK m \in Manager, p \in Pid, v \in {"verified", "unverified"},
                 r \in OldRestarts :
              /\ registry = m
              /\ made = {m}
              /\ running = [n \in Manager |-> n = m]
              /\ cmd = [n \in Manager |-> IF n = m THEN p ELSE Nobody]
              /\ recovered = [n \in Manager |-> IF n = m THEN v ELSE "no"]
              /\ restarts = [n \in Manager |-> IF n = m THEN r ELSE 0]
              /\ proc = [q \in Pid |-> IF q = p THEN "alive" ELSE "unborn"]
              /\ record = [status |-> "running", pid |-> p, reason |-> ""]
        BY <3>2, Zenon DEF Restore
      <4>2. running = [n \in Manager |-> n = m]
        BY <4>1
      <4>3. running \in [Manager -> BOOLEAN]
        BY <4>2
      <4>4. cmd \in [Manager -> Pid \cup {Nobody}]
        BY <4>1
      <4>5. recovered \in [Manager -> {"no", "verified", "unverified"}]
        BY <4>1
      <4>6. restarts \in [Manager -> Nat]
        BY <4>1
      <4>7. proc \in [Pid -> ProcState]
        BY <4>1 DEF ProcState
      <4>. QED BY <4>1, <4>3, <4>4, <4>5, <4>6, <4>7
    <3>. QED BY <3>1, <3>2 DEF Init
  <2>2. /\ lock \in Caller \cup {Nobody}
        /\ auto \in [Manager -> BOOLEAN]
        /\ watch \in [Manager -> {"none", "spawned", "waiting", "reaped", "notify", "done"}]
        /\ watchCmd \in [Manager -> Pid \cup {Nobody}]
        /\ pc \in [Caller -> CallPC]
        /\ op \in [Caller -> Op]
        /\ target \in [Caller -> Manager \cup {Nobody}]
        /\ carried \in [Caller -> Pid \cup {Nobody}]
        /\ leaked \subseteq Pid
        /\ orphaned \subseteq Manager
        /\ overtaken \in BOOLEAN
    BY DEF Init, CallPC, Op
  <2>3. event \in [Manager -> WatchEvent]
    BY WatchEventTyped DEF Init
  <2>. QED BY <1>2, <2>1, <2>2, <2>3 DEF TypeOK
<1>4. LockInv /\ TargetInv /\ MadeInv /\ RunningInv
  BY DEF Init, Fresh, Restore, LockInv, TargetInv, MadeInv, RunningInv, Holding
<1>5. AliveInv
  <2>1. CASE Fresh
    BY <2>1 DEF Fresh, AliveInv
  <2>2. CASE Restore
    <3>1. PICK m \in Manager, p \in Pid :
            /\ running = [n \in Manager |-> n = m]
            /\ cmd = [n \in Manager |-> IF n = m THEN p ELSE Nobody]
            /\ proc = [q \in Pid |-> IF q = p THEN "alive" ELSE "unborn"]
      BY <2>2 DEF Restore
    <3>2. running[m] /\ cmd[m] = p
      BY <3>1
    <3>3. \A q \in Pid : proc[q] = "alive" => q = p
      BY <3>1
    <3>. QED BY <3>2, <3>3 DEF AliveInv
  <2>. QED BY <2>1, <2>2 DEF Init
<1>6. WatchInv /\ JoinInv
  BY <1>1 DEF WatchInv, JoinInv
<1>7. SilenceInv
  BY <1>2 DEF SilenceInv
<1>8. RestartsAreBounded
  <2>1. CASE Fresh
    BY <2>1 DEF Fresh, RestartsAreBounded
  <2>2. CASE Restore
    <3>1. \A m \in Manager : recovered[m] = "no" => restarts[m] = 0
      BY <2>2 DEF Restore
    <3>. QED BY <1>1, <3>1 DEF RestartsAreBounded
  <2>. QED BY <2>1, <2>2 DEF Init
<1>. QED BY <1>3, <1>4, <1>5, <1>6, <1>7, <1>8 DEF CoreInv

----------------------------------------------------------------------------
(* Steps *)

\* CheckNotRunning, RegisterApp and StartRefused move a caller between points
\* at which it holds nothing; the register event clears the reason.
LEMMA OutsidePreserves ==
    ASSUME CoreInv, NEW c \in Caller, pc[c] \notin Holding,
           NEW l \in CallPC \ Holding, pc' = [pc EXCEPT ![c] = l],
           record' \in Record, record'.reason = "" \/ record' = record,
           overtaken' \in BOOLEAN,
           UNCHANGED <<lock, registry, made, mgrVars, watchVars, op, target, carried,
                       proc, leaked, orphaned>>
    PROVE  CoreInv'
<1>1. TypeOK'
  BY DEF CoreInv, TypeOK
<1>2. LockInv' /\ TargetInv' /\ MadeInv'
  BY DEF CoreInv, TypeOK, LockInv, TargetInv, MadeInv
<1>3. JoinInv'
  BY DEF CoreInv, TypeOK, JoinInv, Holding
<1>4. SilenceInv'
  BY DEF CoreInv, TypeOK, SilenceInv, Holding
<1>5. RunningInv' /\ AliveInv' /\ WatchInv' /\ RestartsAreBounded'
  BY DEF CoreInv, RunningInv, AliveInv, WatchInv, RestartsAreBounded
<1>. QED BY <1>1, <1>2, <1>3, <1>4, <1>5 DEF CoreInv

\* CheckNotRunning: an instance of OutsidePreserves.
LEMMA CheckNotRunningPreserves ==
    ASSUME CoreInv, NEW c \in Caller, CheckNotRunning(c) PROVE CoreInv'
<1>1. pc[c] \notin Holding /\ "checked" \in CallPC \ Holding
  BY DEF CheckNotRunning, Holding, CallPC
<1>2. record \in Record /\ overtaken \in BOOLEAN
  BY DEF CoreInv, TypeOK
<1>. QED BY <1>1, <1>2, OutsidePreserves DEF CheckNotRunning, Goto

\* RegisterApp: an instance of OutsidePreserves.
LEMMA RegisterAppPreserves ==
    ASSUME CoreInv, NEW c \in Caller, RegisterApp(c) PROVE CoreInv'
<1>1. pc[c] \notin Holding /\ "registered" \in CallPC \ Holding
  BY DEF RegisterApp, Holding, CallPC
<1>2. record' \in Record /\ record'.reason = "" /\ overtaken' \in BOOLEAN
  BY ApplyCallerEvent DEF RegisterApp, CoreInv, TypeOK
<1>. QED BY <1>1, <1>2, OutsidePreserves DEF RegisterApp, Goto

\* StartRefused: an instance of OutsidePreserves.
LEMMA StartRefusedPreserves ==
    ASSUME CoreInv, NEW c \in Caller, StartRefused(c) PROVE CoreInv'
<1>1. pc[c] \notin Holding /\ "idle" \in CallPC \ Holding
  BY DEF StartRefused, Holding, CallPC
<1>2. record \in Record /\ overtaken \in BOOLEAN
  BY DEF CoreInv, TypeOK
<1>. QED BY <1>1, <1>2, OutsidePreserves DEF StartRefused, Goto

\* StartApp: a fresh manager and a fresh process enter together, and the caller holds the lock.
LEMMA StartAppPreserves == ASSUME CoreInv, NEW c \in Caller, StartApp(c) PROVE CoreInv'
<1>1. TypeOK'
  BY DEF CoreInv, TypeOK, StartApp, MayStart, AppRunning, Launch, Goto, CallPC, Op, ProcState
<1>2. LockInv'
  BY DEF CoreInv, TypeOK, StartApp, MayStart, AppRunning, Launch, Goto, LockInv, Holding
<1>3. TargetInv'
  BY DEF CoreInv, TypeOK, StartApp, MayStart, AppRunning, Launch, Goto, LockInv, TargetInv,
     Holding
<1>4. MadeInv'
  BY DEF CoreInv, TypeOK, StartApp, MayStart, AppRunning, Launch, Goto, MadeInv, LockInv,
     TargetInv, Holding
<1>5. RunningInv'
  BY DEF CoreInv, TypeOK, StartApp, MayStart, AppRunning, Launch, Goto, RunningInv, MadeInv,
     LockInv, TargetInv, Holding
<1>6. AliveInv'
  BY DEF CoreInv, TypeOK, StartApp, MayStart, AppRunning, Launch, Goto, AliveInv,
     RunningInv, MadeInv, WatchInv, TargetInv, Holding
<1>7. WatchInv'
  BY DEF CoreInv, TypeOK, StartApp, MayStart, AppRunning, Launch, Goto, WatchInv,
     RunningInv, TargetInv, Holding
<1>8. JoinInv'
  BY DEF CoreInv, TypeOK, StartApp, MayStart, AppRunning, Launch, Goto, JoinInv, LockInv,
     TargetInv, MadeInv, Holding
<1>9. SilenceInv'
  BY DEF CoreInv, TypeOK, StartApp, MayStart, AppRunning, Launch, Goto, SilenceInv, JoinInv,
     LockInv, TargetInv, MadeInv, Holding
<1>10. RestartsAreBounded'
  BY DEF CoreInv, TypeOK, StartApp, MayStart, AppRunning, Launch, Goto, RestartsAreBounded
<1>. QED BY <1>1, <1>2, <1>3, <1>4, <1>5, <1>6, <1>7, <1>8, <1>9, <1>10 DEF CoreInv

\* StartAppFails: only the registry is emptied; its manager was not running.
LEMMA StartAppFailsPreserves == ASSUME CoreInv, NEW c \in Caller, StartAppFails(c) PROVE CoreInv'
<1>1. TypeOK'
  BY DEF CoreInv, TypeOK, StartAppFails, MayStart, AppRunning, Goto, CallPC
<1>2. TargetInv'
  BY DEF CoreInv, TypeOK, StartAppFails, MayStart, AppRunning, Goto, LockInv, TargetInv, Holding
<1>3. MadeInv'
  BY DEF CoreInv, TypeOK, StartAppFails, MayStart, AppRunning, Goto, MadeInv, LockInv, TargetInv,
     Holding
<1>4. RunningInv'
  BY DEF CoreInv, TypeOK, StartAppFails, MayStart, AppRunning, Goto, RunningInv, MadeInv, LockInv,
     TargetInv, Holding
<1>5. SilenceInv'
  BY DEF CoreInv, TypeOK, StartAppFails, MayStart, AppRunning, Goto, SilenceInv, JoinInv, LockInv,
     TargetInv, MadeInv, Holding
<1>6. LockInv' /\ JoinInv'
  BY DEF CoreInv, TypeOK, StartAppFails, MayStart, AppRunning, Goto, LockInv, JoinInv, Holding
<1>7. AliveInv' /\ WatchInv' /\ RestartsAreBounded'
  BY DEF CoreInv, StartAppFails, AliveInv, WatchInv, RestartsAreBounded
<1>. QED BY <1>1, <1>2, <1>3, <1>4, <1>5, <1>6, <1>7 DEF CoreInv

\* NotifyStart: the start event clears the reason.
LEMMA NotifyStartPreserves == ASSUME CoreInv, NEW c \in Caller, NotifyStart(c) PROVE CoreInv'
<1>1. TypeOK'
  BY ApplyCallerEvent DEF CoreInv, TypeOK, NotifyStart, Goto, CallPC
<1>2. LockInv'
  BY DEF CoreInv, TypeOK, NotifyStart, Goto, LockInv, Holding
<1>3. TargetInv'
  BY DEF CoreInv, TypeOK, NotifyStart, Goto, LockInv, TargetInv, Holding
<1>4. MadeInv'
  BY DEF CoreInv, TypeOK, NotifyStart, Goto, MadeInv, LockInv, TargetInv, Holding
<1>5. JoinInv'
  BY DEF CoreInv, TypeOK, NotifyStart, Goto, JoinInv, LockInv, TargetInv, MadeInv, Holding
<1>6. SilenceInv'
  BY ApplyCallerEvent DEF CoreInv, TypeOK, NotifyStart, Goto, SilenceInv, JoinInv, LockInv,
     TargetInv, MadeInv, Holding
<1>7. RunningInv' /\ AliveInv' /\ WatchInv' /\ RestartsAreBounded'
  BY DEF CoreInv, NotifyStart, Goto, RunningInv, AliveInv, WatchInv, RestartsAreBounded
<1>. QED BY <1>1, <1>2, <1>3, <1>4, <1>5, <1>6, <1>7 DEF CoreInv

\* InsertManager: the launched manager becomes the registered one.
LEMMA InsertManagerPreserves == ASSUME CoreInv, NEW c \in Caller, InsertManager(c) PROVE CoreInv'
<1>1. TypeOK'
  BY DEF CoreInv, TypeOK, InsertManager, Return, CallPC, Op, TargetInv, Holding
<1>2. LockInv'
  BY DEF CoreInv, TypeOK, InsertManager, Return, LockInv, Holding
<1>3. TargetInv'
  BY DEF CoreInv, TypeOK, InsertManager, Return, LockInv, TargetInv, Holding
<1>4. MadeInv'
  BY DEF CoreInv, TypeOK, InsertManager, Return, MadeInv, LockInv, TargetInv, Holding
<1>5. RunningInv'
  BY DEF CoreInv, TypeOK, InsertManager, Return, RunningInv, MadeInv, LockInv, TargetInv,
     Holding
<1>6. JoinInv'
  BY DEF CoreInv, TypeOK, InsertManager, Return, JoinInv, LockInv, TargetInv, MadeInv, Holding
<1>7. SilenceInv'
  BY DEF CoreInv, TypeOK, InsertManager, Return, SilenceInv, JoinInv, LockInv, TargetInv,
     MadeInv, Holding
<1>8. AliveInv' /\ WatchInv' /\ RestartsAreBounded'
  BY DEF CoreInv, InsertManager, Return, AliveInv, WatchInv, RestartsAreBounded
<1>. QED BY <1>1, <1>2, <1>3, <1>4, <1>5, <1>6, <1>7, <1>8 DEF CoreInv

\* Stop: the manager stops, its process is killed or is counted as leaked.
LEMMA StopPreserves == ASSUME CoreInv, NEW c \in Caller, Stop(c) PROVE CoreInv'
<1>1. TypeOK'
  BY DEF CoreInv, TypeOK, Stop, MayStop, AppRunning, Refused, Goto, CallPC, Op, ProcState,
     RunningInv
<1>2. LockInv'
  BY DEF CoreInv, TypeOK, Stop, MayStop, AppRunning, Refused, Goto, LockInv, Holding
<1>3. TargetInv'
  BY DEF CoreInv, TypeOK, Stop, MayStop, AppRunning, Refused, Goto, LockInv, TargetInv, Holding
<1>4. MadeInv'
  BY DEF CoreInv, TypeOK, Stop, MayStop, AppRunning, Refused, Goto, MadeInv, LockInv,
     TargetInv, Holding
<1>5. RunningInv'
  BY DEF CoreInv, TypeOK, Stop, MayStop, AppRunning, Refused, Goto, RunningInv, MadeInv,
     LockInv, TargetInv, Holding
<1>6. AliveInv'
  BY DEF CoreInv, TypeOK, Stop, MayStop, AppRunning, Refused, Goto, AliveInv, RunningInv,
     MadeInv, WatchInv, TargetInv, Holding
<1>7. WatchInv'
  BY DEF CoreInv, TypeOK, Stop, MayStop, AppRunning, Refused, Goto, WatchInv, RunningInv,
     TargetInv, Holding
<1>8. JoinInv'
  BY DEF CoreInv, TypeOK, Stop, MayStop, AppRunning, Refused, Goto, JoinInv, LockInv,
     TargetInv, MadeInv, Holding
<1>9. SilenceInv'
  BY DEF CoreInv, TypeOK, Stop, MayStop, AppRunning, Refused, Goto, SilenceInv, JoinInv,
     LockInv, TargetInv, MadeInv, Holding
<1>10. RestartsAreBounded'
  BY DEF CoreInv, Stop, MayStop, AppRunning, Refused, Goto, RestartsAreBounded
<1>. QED BY <1>1, <1>2, <1>3, <1>4, <1>5, <1>6, <1>7, <1>8, <1>9, <1>10 DEF CoreInv

\* StopKillFails: the manager stops and its process is counted as leaked.
LEMMA StopKillFailsPreserves == ASSUME CoreInv, NEW c \in Caller, StopKillFails(c) PROVE CoreInv'
<1>1. TypeOK'
  BY DEF CoreInv, TypeOK, StopKillFails, MayStop, AppRunning, Refused, RunningInv
<1>2. MadeInv'
  BY DEF CoreInv, TypeOK, StopKillFails, MayStop, AppRunning, Refused, MadeInv, LockInv,
     TargetInv, Holding
<1>3. RunningInv'
  BY DEF CoreInv, TypeOK, StopKillFails, MayStop, AppRunning, Refused, RunningInv, MadeInv,
     LockInv, TargetInv, Holding
<1>4. AliveInv'
  BY DEF CoreInv, TypeOK, StopKillFails, MayStop, AppRunning, Refused, AliveInv, RunningInv,
     MadeInv, WatchInv, TargetInv, Holding
<1>5. WatchInv'
  BY DEF CoreInv, TypeOK, StopKillFails, MayStop, AppRunning, Refused, WatchInv, RunningInv,
     TargetInv, Holding
<1>6. JoinInv'
  BY DEF CoreInv, TypeOK, StopKillFails, MayStop, AppRunning, Refused, JoinInv, LockInv,
     TargetInv, MadeInv, Holding
<1>7. LockInv' /\ TargetInv' /\ SilenceInv' /\ RestartsAreBounded'
  BY DEF CoreInv, StopKillFails, MayStop, AppRunning, Refused, LockInv, TargetInv,
     SilenceInv, RestartsAreBounded
<1>. QED BY <1>1, <1>2, <1>3, <1>4, <1>5, <1>6, <1>7 DEF CoreInv

\* Join: the watcher is finished when the caller goes on.
LEMMA JoinPreserves == ASSUME CoreInv, NEW c \in Caller, Join(c) PROVE CoreInv'
<1>1. TypeOK'
  BY DEF CoreInv, TypeOK, Join, Goto, CallPC
<1>2. LockInv'
  BY DEF CoreInv, TypeOK, Join, Goto, LockInv, Holding
<1>3. TargetInv'
  BY DEF CoreInv, TypeOK, Join, Goto, LockInv, TargetInv, Holding
<1>4. MadeInv'
  BY DEF CoreInv, TypeOK, Join, Goto, MadeInv, LockInv, TargetInv, Holding
<1>5. JoinInv'
  BY DEF CoreInv, TypeOK, Join, Goto, JoinInv, LockInv, TargetInv, MadeInv, Holding
<1>6. SilenceInv'
  BY DEF CoreInv, TypeOK, Join, Goto, SilenceInv, JoinInv, LockInv, TargetInv, MadeInv, Holding
<1>7. RunningInv' /\ AliveInv' /\ WatchInv' /\ RestartsAreBounded'
  BY DEF CoreInv, Join, Goto, RunningInv, AliveInv, WatchInv, RestartsAreBounded
<1>. QED BY <1>1, <1>2, <1>3, <1>4, <1>5, <1>6, <1>7 DEF CoreInv

\* NotifyStop: manual_stop is recorded when the watcher has nothing left to post.
LEMMA NotifyStopPreserves == ASSUME CoreInv, NEW c \in Caller, NotifyStop(c) PROVE CoreInv'
<1>1. /\ pc[c] = "notifyStop"
      /\ record' = Apply(StopEvent("manual_stop"))
      /\ UNCHANGED <<registry, made, mgrVars, watchVars, proc, histVars>>
  BY DEF NotifyStop
<1>2. \/ /\ lock' = Nobody
         /\ pc' = [pc EXCEPT ![c] = "idle"]
         /\ op' = [op EXCEPT ![c] = "none"]
         /\ target' = [target EXCEPT ![c] = Nobody]
         /\ carried' = [carried EXCEPT ![c] = Nobody]
      \/ /\ pc' = [pc EXCEPT ![c] = "relaunch"]
         /\ UNCHANGED <<lock, op, target, carried>>
      \/ /\ lock' = Nobody
         /\ \E l \in {"checked", "unregister"} : pc' = [pc EXCEPT ![c] = l]
         /\ op' = [op EXCEPT ![c] = "none"]
         /\ target' = [target EXCEPT ![c] = Nobody]
         /\ UNCHANGED carried
  BY DEF NotifyStop, Goto, Return
<1>3. lock = c
  BY <1>1 DEF CoreInv, LockInv, Holding
<1>4. registry = target[c] /\ registry \in Manager /\ op[c] # "start"
  BY <1>1 DEF CoreInv, TargetInv, Holding
<1>5. TypeOK'
  <2>1. record' \in Record
    BY <1>1, ApplyCallerEvent
  <2>2. pc' \in [Caller -> CallPC] /\ op' \in [Caller -> Op]
    BY <1>2 DEF CoreInv, TypeOK, CallPC, Op
  <2>3. /\ lock' \in Caller \cup {Nobody}
        /\ target' \in [Caller -> Manager \cup {Nobody}]
        /\ carried' \in [Caller -> Pid \cup {Nobody}]
    BY <1>2 DEF CoreInv, TypeOK
  <2>. QED BY <1>1, <2>1, <2>2, <2>3 DEF CoreInv, TypeOK
<1>6. LockInv'
  BY <1>1, <1>2, <1>3 DEF CoreInv, TypeOK, LockInv, Holding
<1>7. TargetInv' /\ MadeInv'
  BY <1>1, <1>2, <1>3 DEF CoreInv, TypeOK, TargetInv, MadeInv, Holding
<1>8. RunningInv'
  BY <1>1, <1>2, <1>3, <1>4 DEF CoreInv, TypeOK, RunningInv
<1>9. JoinInv'
  BY <1>1, <1>2 DEF CoreInv, TypeOK, JoinInv
<1>10. SilenceInv'
  <2>1. \A d \in Caller : pc'[d] \notin {"insert", "readPid", "notifyRestart"}
    BY <1>1, <1>2, <1>3 DEF CoreInv, TypeOK, LockInv, Holding
  <2>2. watch[registry] \in {"none", "done"}
    BY <1>1, <1>4 DEF CoreInv, JoinInv
  <2>. QED BY <1>1, <2>1, <2>2 DEF SilenceInv
<1>11. AliveInv' /\ WatchInv' /\ RestartsAreBounded'
  BY <1>1 DEF CoreInv, AliveInv, WatchInv, RestartsAreBounded
<1>. QED BY <1>5, <1>6, <1>7, <1>8, <1>9, <1>10, <1>11 DEF CoreInv

\* Relaunch: the stopped manager gets a fresh process and a fresh watcher.
LEMMA RelaunchPreserves == ASSUME CoreInv, NEW c \in Caller, Relaunch(c) PROVE CoreInv'
<1> DEFINE m == target[c]
<1>1. /\ pc[c] = "relaunch"
      /\ pc' = [pc EXCEPT ![c] = "notifyStart"]
      /\ running' = [running EXCEPT ![m] = TRUE]
      /\ restarts' = [restarts EXCEPT ![m] = 0]
      /\ recovered' = [recovered EXCEPT ![m] = "no"]
      /\ watch' = [watch EXCEPT ![m] = "spawned"]
      /\ watchCmd' = [watchCmd EXCEPT ![m] = Nobody]
      /\ UNCHANGED <<lock, registry, made, auto, event, op, target, record, histVars>>
  BY DEF Relaunch, Launch, Goto
<1>2. PICK p \in Pid :
          /\ proc[p] = "unborn"
          /\ proc' = [proc EXCEPT ![p] = "alive"]
          /\ cmd' = [cmd EXCEPT ![m] = p]
          /\ carried' = [carried EXCEPT ![c] = p]
  BY DEF Relaunch, Launch
<1>3. lock = c /\ m \in Manager /\ m \in made /\ registry = m /\ op[c] # "start"
  BY <1>1 DEF CoreInv, LockInv, TargetInv, MadeInv, Holding
<1>4. TypeOK'
  BY <1>1, <1>2, <1>3 DEF CoreInv, TypeOK, CallPC, ProcState
<1>5. LockInv' /\ TargetInv' /\ MadeInv'
  BY <1>1, <1>3 DEF CoreInv, TypeOK, LockInv, TargetInv, MadeInv, Holding
<1>6. RunningInv'
  BY <1>1, <1>2, <1>3 DEF CoreInv, TypeOK, RunningInv
<1>7. AliveInv'
  <2> SUFFICES ASSUME NEW q \in Pid, proc'[q] = "alive", q \notin leaked
               PROVE  \E n \in Manager : running'[n] /\ cmd'[n] = q
    BY <1>1 DEF AliveInv
  <2>1. CASE q = p
    BY <1>1, <1>2, <1>3, <2>1 DEF CoreInv, TypeOK
  <2>2. CASE q # p
    <3>1. proc[q] = "alive"
      BY <1>2, <2>2 DEF CoreInv, TypeOK
    <3>2. PICK n \in Manager : running[n] /\ cmd[n] = q
      BY <3>1 DEF CoreInv, AliveInv
    <3>3. n # m
      BY <1>1, <3>1, <3>2 DEF CoreInv, JoinInv
    <3>. QED BY <1>1, <1>2, <3>2, <3>3 DEF CoreInv, TypeOK
  <2>. QED BY <2>1, <2>2
<1>8. WatchInv'
  BY <1>1, <1>2, <1>3 DEF CoreInv, TypeOK, WatchInv
<1>9. JoinInv'
  BY <1>1, <1>3 DEF CoreInv, TypeOK, JoinInv, LockInv, Holding
<1>10. SilenceInv'
  BY <1>1, <1>3 DEF CoreInv, TypeOK, SilenceInv
<1>11. RestartsAreBounded'
  BY <1>1, <1>3 DEF CoreInv, TypeOK, RestartsAreBounded
<1>. QED BY <1>4, <1>5, <1>6, <1>7, <1>8, <1>9, <1>10, <1>11 DEF CoreInv

\* RelaunchFails: the stopped manager stays stopped and the lock is released.
LEMMA RelaunchFailsPreserves == ASSUME CoreInv, NEW c \in Caller, RelaunchFails(c) PROVE CoreInv'
<1>1. TypeOK'
  BY DEF CoreInv, TypeOK, RelaunchFails, Return, CallPC, Op
<1>2. LockInv'
  BY DEF CoreInv, TypeOK, RelaunchFails, Return, LockInv, Holding
<1>3. TargetInv'
  BY DEF CoreInv, TypeOK, RelaunchFails, Return, LockInv, TargetInv, Holding
<1>4. MadeInv'
  BY DEF CoreInv, TypeOK, RelaunchFails, Return, MadeInv, LockInv, TargetInv, Holding
<1>5. RunningInv'
  BY DEF CoreInv, TypeOK, RelaunchFails, Return, RunningInv, MadeInv, LockInv, TargetInv,
     Holding
<1>6. JoinInv'
  BY DEF CoreInv, TypeOK, RelaunchFails, Return, JoinInv, LockInv, TargetInv, MadeInv, Holding
<1>7. SilenceInv'
  BY DEF CoreInv, TypeOK, RelaunchFails, Return, SilenceInv, JoinInv, LockInv, TargetInv,
     MadeInv, Holding
<1>8. RestartsAreBounded'
  BY DEF CoreInv, TypeOK, RelaunchFails, Return, RestartsAreBounded
<1>9. AliveInv' /\ WatchInv'
  BY DEF CoreInv, RelaunchFails, Return, AliveInv, WatchInv
<1>. QED BY <1>1, <1>2, <1>3, <1>4, <1>5, <1>6, <1>7, <1>8, <1>9 DEF CoreInv

\* ReadPid: only the caller moves.
LEMMA ReadPidPreserves == ASSUME CoreInv, NEW c \in Caller, ReadPid(c) PROVE CoreInv'
<1>1. TypeOK'
  BY DEF CoreInv, TypeOK, ReadPid, Goto, CallPC, TargetInv, Holding
<1>2. LockInv'
  BY DEF CoreInv, TypeOK, ReadPid, Goto, LockInv, Holding
<1>3. TargetInv'
  BY DEF CoreInv, TypeOK, ReadPid, Goto, LockInv, TargetInv, Holding
<1>4. MadeInv'
  BY DEF CoreInv, TypeOK, ReadPid, Goto, MadeInv, LockInv, TargetInv, Holding
<1>5. JoinInv'
  BY DEF CoreInv, TypeOK, ReadPid, Goto, JoinInv, LockInv, TargetInv, MadeInv, Holding
<1>6. SilenceInv'
  BY DEF CoreInv, TypeOK, ReadPid, Goto, SilenceInv, JoinInv, LockInv, TargetInv, MadeInv,
     Holding
<1>7. RunningInv' /\ AliveInv' /\ WatchInv' /\ RestartsAreBounded'
  BY DEF CoreInv, ReadPid, Goto, RunningInv, AliveInv, WatchInv, RestartsAreBounded
<1>. QED BY <1>1, <1>2, <1>3, <1>4, <1>5, <1>6, <1>7 DEF CoreInv

\* NotifyRestart: the restart event clears the reason and the lock is released.
LEMMA NotifyRestartPreserves == ASSUME CoreInv, NEW c \in Caller, NotifyRestart(c) PROVE CoreInv'
<1>1. TypeOK'
  BY ApplyCallerEvent DEF CoreInv, TypeOK, NotifyRestart, Return, CallPC, Op
<1>2. LockInv'
  BY DEF CoreInv, TypeOK, NotifyRestart, Return, LockInv, Holding
<1>3. TargetInv'
  BY DEF CoreInv, TypeOK, NotifyRestart, Return, LockInv, TargetInv, Holding
<1>4. MadeInv'
  BY DEF CoreInv, TypeOK, NotifyRestart, Return, MadeInv, LockInv, TargetInv, Holding
<1>5. RunningInv'
  BY DEF CoreInv, TypeOK, NotifyRestart, Return, RunningInv, MadeInv, LockInv, TargetInv,
     Holding
<1>6. JoinInv'
  BY DEF CoreInv, TypeOK, NotifyRestart, Return, JoinInv, LockInv, TargetInv, MadeInv, Holding
<1>7. SilenceInv'
  BY ApplyCallerEvent DEF CoreInv, TypeOK, NotifyRestart, Return, SilenceInv, JoinInv,
     LockInv, TargetInv, MadeInv, Holding
<1>8. AliveInv' /\ WatchInv' /\ RestartsAreBounded'
  BY DEF CoreInv, NotifyRestart, Return, AliveInv, WatchInv, RestartsAreBounded
<1>. QED BY <1>1, <1>2, <1>3, <1>4, <1>5, <1>6, <1>7, <1>8 DEF CoreInv

\* RemoveStopped: the caller moves to a point that holds no lock.
LEMMA RemoveStoppedPreserves == ASSUME CoreInv, NEW c \in Caller, RemoveStopped(c) PROVE CoreInv'
<1>1. TypeOK'
  BY DEF CoreInv, TypeOK, RemoveStopped, AppRunning, Goto, CallPC, Op
<1>2. LockInv'
  BY DEF CoreInv, TypeOK, RemoveStopped, AppRunning, Goto, LockInv, Holding
<1>3. TargetInv'
  BY DEF CoreInv, TypeOK, RemoveStopped, AppRunning, Goto, LockInv, TargetInv, Holding
<1>4. MadeInv'
  BY DEF CoreInv, TypeOK, RemoveStopped, AppRunning, Goto, MadeInv, LockInv, TargetInv, Holding
<1>5. JoinInv'
  BY DEF CoreInv, TypeOK, RemoveStopped, AppRunning, Goto, JoinInv, LockInv, TargetInv,
     MadeInv, Holding
<1>6. SilenceInv'
  BY DEF CoreInv, TypeOK, RemoveStopped, AppRunning, Goto, SilenceInv, JoinInv, LockInv,
     TargetInv, MadeInv, Holding
<1>7. RunningInv' /\ AliveInv' /\ WatchInv' /\ RestartsAreBounded'
  BY DEF CoreInv, RemoveStopped, AppRunning, Goto, RunningInv, AliveInv, WatchInv,
     RestartsAreBounded
<1>. QED BY <1>1, <1>2, <1>3, <1>4, <1>5, <1>6, <1>7 DEF CoreInv

\* RemoveApp: a running manager that leaves the registry is counted as orphaned.
LEMMA RemoveAppPreserves == ASSUME CoreInv, NEW c \in Caller, RemoveApp(c) PROVE CoreInv'
<1>1. TypeOK'
  BY DEF CoreInv, TypeOK, RemoveApp, AppRunning, Goto, CallPC
<1>2. LockInv'
  BY DEF CoreInv, TypeOK, RemoveApp, AppRunning, Goto, LockInv, Holding
<1>3. TargetInv'
  BY DEF CoreInv, TypeOK, RemoveApp, AppRunning, Goto, LockInv, TargetInv, Holding
<1>4. MadeInv'
  BY DEF CoreInv, TypeOK, RemoveApp, AppRunning, Goto, MadeInv, LockInv, TargetInv, Holding
<1>5. RunningInv'
  BY DEF CoreInv, TypeOK, RemoveApp, AppRunning, Goto, RunningInv, MadeInv, LockInv,
     TargetInv, Holding
<1>6. JoinInv'
  BY DEF CoreInv, TypeOK, RemoveApp, AppRunning, Goto, JoinInv, LockInv, TargetInv, MadeInv,
     Holding
<1>7. SilenceInv'
  BY DEF CoreInv, TypeOK, RemoveApp, AppRunning, Goto, SilenceInv, JoinInv, LockInv,
     TargetInv, MadeInv, Holding
<1>8. AliveInv' /\ WatchInv' /\ RestartsAreBounded'
  BY DEF CoreInv, RemoveApp, AppRunning, Goto, AliveInv, WatchInv, RestartsAreBounded
<1>. QED BY <1>1, <1>2, <1>3, <1>4, <1>5, <1>6, <1>7, <1>8 DEF CoreInv

\* Deregister: the record is dropped, and with it its reason.
LEMMA DeregisterPreserves == ASSUME CoreInv, NEW c \in Caller, Deregister(c) PROVE CoreInv'
<1>1. TypeOK'
  BY ApplyCallerEvent DEF CoreInv, TypeOK, Deregister, Goto, CallPC
<1>2. LockInv'
  BY DEF CoreInv, TypeOK, Deregister, Goto, LockInv, Holding
<1>3. TargetInv'
  BY DEF CoreInv, TypeOK, Deregister, Goto, LockInv, TargetInv, Holding
<1>4. MadeInv'
  BY DEF CoreInv, TypeOK, Deregister, Goto, MadeInv, LockInv, TargetInv, Holding
<1>5. RunningInv'
  BY DEF CoreInv, TypeOK, Deregister, Goto, RunningInv, MadeInv, LockInv, TargetInv, Holding
<1>6. JoinInv'
  BY DEF CoreInv, TypeOK, Deregister, Goto, JoinInv, LockInv, TargetInv, MadeInv, Holding
<1>7. SilenceInv'
  BY ApplyCallerEvent DEF CoreInv, TypeOK, Deregister, Goto, SilenceInv, JoinInv, LockInv,
     TargetInv, MadeInv, Holding
<1>8. AliveInv' /\ WatchInv' /\ RestartsAreBounded'
  BY DEF CoreInv, Deregister, AliveInv, WatchInv, RestartsAreBounded
<1>. QED BY <1>1, <1>2, <1>3, <1>4, <1>5, <1>6, <1>7, <1>8 DEF CoreInv

\* WatchRead: the watcher waits for the process the manager has now.
LEMMA WatchReadPreserves == ASSUME CoreInv, NEW m \in Manager, WatchRead(m) PROVE CoreInv'
<1>1. TypeOK'
  BY DEF CoreInv, TypeOK, WatchRead
<1>2. WatchInv'
  BY DEF CoreInv, TypeOK, WatchRead, WatchInv, RunningInv, TargetInv, Holding
<1>3. JoinInv'
  BY DEF CoreInv, TypeOK, WatchRead, JoinInv, LockInv, TargetInv, MadeInv, Holding
<1>4. SilenceInv'
  BY DEF CoreInv, TypeOK, WatchRead, SilenceInv, JoinInv, LockInv, TargetInv, MadeInv, Holding
<1>5. LockInv' /\ TargetInv' /\ MadeInv' /\ RunningInv' /\ AliveInv' /\ RestartsAreBounded'
  BY DEF CoreInv, WatchRead, LockInv, TargetInv, MadeInv, RunningInv, AliveInv,
     RestartsAreBounded
<1>. QED BY <1>1, <1>2, <1>3, <1>4, <1>5 DEF CoreInv

\* WatchReap: only an exited process is reaped.
LEMMA WatchReapPreserves == ASSUME CoreInv, NEW m \in Manager, WatchReap(m) PROVE CoreInv'
<1>1. TypeOK'
  BY DEF CoreInv, TypeOK, WatchReap, ProcState
<1>2. AliveInv'
  BY DEF CoreInv, TypeOK, WatchReap, AliveInv, RunningInv, MadeInv, WatchInv, TargetInv,
     Holding
<1>3. WatchInv'
  BY DEF CoreInv, TypeOK, WatchReap, WatchInv, RunningInv, TargetInv, Holding
<1>4. JoinInv'
  BY DEF CoreInv, TypeOK, WatchReap, JoinInv, LockInv, TargetInv, MadeInv, Holding
<1>5. SilenceInv'
  BY DEF CoreInv, TypeOK, WatchReap, SilenceInv, JoinInv, LockInv, TargetInv, MadeInv, Holding
<1>6. LockInv' /\ TargetInv' /\ MadeInv' /\ RunningInv' /\ RestartsAreBounded'
  BY DEF CoreInv, WatchReap, LockInv, TargetInv, MadeInv, RunningInv, RestartsAreBounded
<1>. QED BY <1>1, <1>2, <1>3, <1>4, <1>5, <1>6 DEF CoreInv

\* The three ways the watcher of m finds that m is finished change the same
\* state: m stops running, and an event may be posted.
LEMMA WatcherEnds ==
    ASSUME CoreInv, NEW m \in Manager, watch[m] = "reaped",
           running' = [running EXCEPT ![m] = FALSE],
           cmd' = [cmd EXCEPT ![m] = Nobody],
           NEW w \in {"notify", "done"}, watch' = [watch EXCEPT ![m] = w],
           NEW e \in WatchEvent, event' = [event EXCEPT ![m] = e],
           restarts' \in [Manager -> Nat], RestartsAreBounded',
           UNCHANGED <<lock, registry, made, auto, recovered, watchCmd, callVars,
                       proc, record, histVars>>
    PROVE  CoreInv'
<1>1. TypeOK'
  BY DEF CoreInv, TypeOK
<1>2. MadeInv'
  BY DEF CoreInv, TypeOK, MadeInv
<1>3. RunningInv'
  BY DEF CoreInv, TypeOK, RunningInv
<1>4. AliveInv'
  BY DEF CoreInv, TypeOK, AliveInv, WatchInv
<1>5. WatchInv'
  BY DEF CoreInv, TypeOK, WatchInv
<1>6. JoinInv'
  BY DEF CoreInv, TypeOK, JoinInv
<1>7. SilenceInv'
  BY DEF CoreInv, TypeOK, SilenceInv
<1>8. LockInv' /\ TargetInv'
  BY DEF CoreInv, LockInv, TargetInv
<1>. QED BY <1>1, <1>2, <1>3, <1>4, <1>5, <1>6, <1>7, <1>8 DEF CoreInv

\* WaitExited: an instance of WatcherEnds.
LEMMA WaitExitedPreserves == ASSUME CoreInv, NEW m \in Manager, WaitExited(m) PROVE CoreInv'
<1>1. /\ watch[m] = "reaped"
      /\ running' = [running EXCEPT ![m] = FALSE]
      /\ cmd' = [cmd EXCEPT ![m] = Nobody]
      /\ UNCHANGED <<lock, registry, made, restarts, auto, recovered, watchCmd,
                     callVars, proc, record, histVars>>
  BY DEF WaitExited
<1>2. PICK w \in {"notify", "done"}, e \in WatchEvent :
          watch' = [watch EXCEPT ![m] = w] /\ event' = [event EXCEPT ![m] = e]
  <2>1. CASE running[m]
    BY <2>1, WatchEventTyped DEF WaitExited, Post
  <2>2. CASE ~running[m]
    <3>1. event[m] \in WatchEvent /\ event' = [event EXCEPT ![m] = event[m]]
      BY <2>2 DEF WaitExited, CoreInv, TypeOK
    <3>. QED BY <2>2, <3>1 DEF WaitExited
  <2>. QED BY <2>1, <2>2
<1>3. restarts' \in [Manager -> Nat] /\ RestartsAreBounded'
  BY <1>1, <1>2 DEF CoreInv, TypeOK, RestartsAreBounded
<1>. QED BY <1>1, <1>2, <1>3, WatcherEnds

\* MonitorStopped: the monitor of a stopped manager ends.
LEMMA MonitorStoppedPreserves == ASSUME CoreInv, NEW m \in Manager,
     MonitorStopped(m) PROVE CoreInv'
<1>1. TypeOK'
  BY DEF CoreInv, TypeOK, MonitorStopped
<1>2. WatchInv'
  BY DEF CoreInv, TypeOK, MonitorStopped, WatchInv, RunningInv, TargetInv, Holding
<1>3. JoinInv'
  BY DEF CoreInv, TypeOK, MonitorStopped, JoinInv, LockInv, TargetInv, MadeInv, Holding
<1>4. SilenceInv'
  BY DEF CoreInv, TypeOK, MonitorStopped, SilenceInv, JoinInv, LockInv, TargetInv, MadeInv,
     Holding
<1>5. LockInv' /\ TargetInv' /\ MadeInv' /\ RunningInv' /\ AliveInv' /\ RestartsAreBounded'
  BY DEF CoreInv, MonitorStopped, LockInv, TargetInv, MadeInv, RunningInv, AliveInv,
     RestartsAreBounded
<1>. QED BY <1>1, <1>2, <1>3, <1>4, <1>5 DEF CoreInv

\* MonitorGivesUp: an instance of WatcherEnds.
LEMMA MonitorGivesUpPreserves == ASSUME CoreInv, NEW m \in Manager,
     MonitorGivesUp(m) PROVE CoreInv'
<1>1. /\ watch[m] = "reaped"
      /\ running' = [running EXCEPT ![m] = FALSE]
      /\ cmd' = [cmd EXCEPT ![m] = Nobody]
      /\ watch' = [watch EXCEPT ![m] = "notify"]
      /\ event' = [event EXCEPT ![m] = FailedEvent("max_restart")]
      /\ UNCHANGED <<lock, registry, made, restarts, auto, recovered, watchCmd,
                     callVars, proc, record, histVars>>
  BY DEF MonitorGivesUp, Post
<1>2. restarts' \in [Manager -> Nat] /\ RestartsAreBounded'
  BY <1>1 DEF CoreInv, TypeOK, RestartsAreBounded
<1>3. "notify" \in {"notify", "done"} /\ FailedEvent("max_restart") \in WatchEvent
  BY WatchEventTyped
<1>. QED BY <1>1, <1>2, <1>3, WatcherEnds

\* MonitorRestarts: a fresh process replaces the reaped one, below the limit.
LEMMA MonitorRestartsPreserves == ASSUME CoreInv, NEW m \in Manager,
     MonitorRestarts(m) PROVE CoreInv'
<1>1. /\ watch[m] = "reaped"
      /\ running[m]
      /\ ~AtLimit(m)
      /\ restarts' = [restarts EXCEPT ![m] = restarts[m] + 1]
      /\ watch' = [watch EXCEPT ![m] = "notify"]
      /\ UNCHANGED <<lock, registry, made, running, auto, recovered, watchCmd, callVars,
                     record, histVars>>
  BY DEF MonitorRestarts, Post
<1>2. PICK p \in Pid :
          /\ proc[p] = "unborn"
          /\ proc' = [proc EXCEPT ![p] = "alive"]
          /\ cmd' = [cmd EXCEPT ![m] = p]
          /\ event' = [event EXCEPT ![m] = RestartEvent(p)]
  BY DEF MonitorRestarts, Post
<1>3. TypeOK'
  <2>1. event' \in [Manager -> WatchEvent]
    BY <1>2, WatchEventTyped DEF CoreInv, TypeOK
  <2>2. proc' \in [Pid -> ProcState] /\ cmd' \in [Manager -> Pid \cup {Nobody}]
    BY <1>2 DEF CoreInv, TypeOK, ProcState
  <2>3. restarts' \in [Manager -> Nat]
    BY <1>1 DEF CoreInv, TypeOK
  <2>. QED BY <1>1, <2>1, <2>2, <2>3 DEF CoreInv, TypeOK
<1>4. RunningInv'
  BY <1>1, <1>2 DEF CoreInv, TypeOK, RunningInv
<1>5. AliveInv'
  <2> SUFFICES ASSUME NEW q \in Pid, proc'[q] = "alive", q \notin leaked
               PROVE  \E n \in Manager : running'[n] /\ cmd'[n] = q
    BY <1>1 DEF AliveInv
  <2>1. CASE q = p
    BY <1>1, <1>2, <2>1 DEF CoreInv, TypeOK
  <2>2. CASE q # p
    <3>1. proc[q] = "alive"
      BY <1>2, <2>2 DEF CoreInv, TypeOK
    <3>2. PICK n \in Manager : running[n] /\ cmd[n] = q
      BY <3>1 DEF CoreInv, AliveInv
    <3>3. n # m
      BY <1>1, <3>1, <3>2 DEF CoreInv, WatchInv
    <3>. QED BY <1>1, <1>2, <3>2, <3>3 DEF CoreInv, TypeOK
  <2>. QED BY <2>1, <2>2
<1>6. WatchInv'
  BY <1>1, <1>2 DEF CoreInv, TypeOK, WatchInv
<1>7. JoinInv'
  BY <1>1 DEF CoreInv, TypeOK, JoinInv
<1>8. SilenceInv'
  BY <1>1 DEF CoreInv, TypeOK, SilenceInv
<1>9. RestartsAreBounded'
  BY <1>1 DEF CoreInv, TypeOK, RestartsAreBounded, AtLimit
<1>10. LockInv' /\ TargetInv' /\ MadeInv'
  BY <1>1 DEF CoreInv, LockInv, TargetInv, MadeInv
<1>. QED BY <1>3, <1>4, <1>5, <1>6, <1>7, <1>8, <1>9, <1>10 DEF CoreInv

\* MonitorRestartFails: an instance of WatcherEnds, with one restart counted.
LEMMA MonitorRestartFailsPreserves ==
    ASSUME CoreInv, NEW m \in Manager, MonitorRestartFails(m) PROVE CoreInv'
<1>1. /\ watch[m] = "reaped"
      /\ running' = [running EXCEPT ![m] = FALSE]
      /\ cmd' = [cmd EXCEPT ![m] = Nobody]
      /\ watch' = [watch EXCEPT ![m] = "notify"]
      /\ event' = [event EXCEPT ![m] = FailedEvent("restart_failure")]
      /\ UNCHANGED <<lock, registry, made, auto, recovered, watchCmd, callVars, proc,
                     record, histVars>>
  BY DEF MonitorRestartFails, Post
<1>2. ~AtLimit(m) /\ restarts' = [restarts EXCEPT ![m] = restarts[m] + 1]
  BY DEF MonitorRestartFails
<1>3. restarts' \in [Manager -> Nat] /\ RestartsAreBounded'
  BY <1>1, <1>2 DEF CoreInv, TypeOK, RestartsAreBounded, AtLimit
<1>4. "notify" \in {"notify", "done"} /\ FailedEvent("restart_failure") \in WatchEvent
  BY WatchEventTyped
<1>. QED BY <1>1, <1>3, <1>4, WatcherEnds

\* WatchNotify: a watcher's event never makes the reason manual_stop.
LEMMA WatchNotifyPreserves == ASSUME CoreInv, NEW m \in Manager, WatchNotify(m) PROVE CoreInv'
<1>1. TypeOK'
  BY ApplyWatchEvent, WatchEventTyped DEF CoreInv, TypeOK, WatchNotify
<1>2. WatchInv'
  BY DEF CoreInv, TypeOK, WatchNotify, WatchInv, RunningInv, TargetInv, Holding
<1>3. JoinInv'
  BY DEF CoreInv, TypeOK, WatchNotify, JoinInv, LockInv, TargetInv, MadeInv, Holding
<1>4. SilenceInv'
  BY ApplyWatchEvent, WatchEventTyped DEF CoreInv, TypeOK, WatchNotify, SilenceInv, JoinInv,
     LockInv, TargetInv, MadeInv, Holding
<1>5. LockInv' /\ TargetInv' /\ MadeInv' /\ RunningInv' /\ AliveInv' /\ RestartsAreBounded'
  BY DEF CoreInv, WatchNotify, LockInv, TargetInv, MadeInv, RunningInv, AliveInv,
     RestartsAreBounded
<1>. QED BY <1>1, <1>2, <1>3, <1>4, <1>5 DEF CoreInv

\* ProcExits: a process that is gone is not alive.
LEMMA ProcExitsPreserves == ASSUME CoreInv, NEW p \in Pid, ProcExits(p) PROVE CoreInv'
<1>1. TypeOK'
  BY DEF CoreInv, TypeOK, ProcExits, ProcState
<1>2. AliveInv'
  BY DEF CoreInv, TypeOK, ProcExits, AliveInv, RunningInv, MadeInv, WatchInv, TargetInv,
     Holding
<1>3. WatchInv'
  BY DEF CoreInv, TypeOK, ProcExits, WatchInv, RunningInv, TargetInv, Holding
<1>4. LockInv' /\ TargetInv' /\ MadeInv' /\ RunningInv'
      /\ JoinInv' /\ SilenceInv' /\ RestartsAreBounded'
  BY DEF CoreInv, ProcExits, LockInv, TargetInv, MadeInv, RunningInv, JoinInv, SilenceInv,
     RestartsAreBounded
<1>. QED BY <1>1, <1>2, <1>3, <1>4 DEF CoreInv

\* KillTakesEffect: a process that is gone is not alive.
LEMMA KillTakesEffectPreserves == ASSUME CoreInv, NEW p \in Pid, KillTakesEffect(p) PROVE CoreInv'
<1>1. TypeOK'
  BY DEF CoreInv, TypeOK, KillTakesEffect, ProcState
<1>2. AliveInv'
  BY DEF CoreInv, TypeOK, KillTakesEffect, AliveInv, RunningInv, MadeInv, WatchInv,
     TargetInv, Holding
<1>3. WatchInv'
  BY DEF CoreInv, TypeOK, KillTakesEffect, WatchInv, RunningInv, TargetInv, Holding
<1>4. LockInv' /\ TargetInv' /\ MadeInv' /\ RunningInv'
      /\ JoinInv' /\ SilenceInv' /\ RestartsAreBounded'
  BY DEF CoreInv, KillTakesEffect, LockInv, TargetInv, MadeInv, RunningInv, JoinInv,
     SilenceInv, RestartsAreBounded
<1>. QED BY <1>1, <1>2, <1>3, <1>4 DEF CoreInv

\* Every step, and every stutter, preserves the invariant.
LEMMA NextCoreInv == CoreInv /\ [Next]_vars => CoreInv'
<1> SUFFICES ASSUME CoreInv, [Next]_vars PROVE CoreInv'
  OBVIOUS
<1>1. ASSUME NEW c \in Caller, Begin(c) PROVE CoreInv'
  BY <1>1, CheckNotRunningPreserves, RegisterAppPreserves, StartRefusedPreserves,
     StartAppPreserves, StartAppFailsPreserves, StopPreserves, StopKillFailsPreserves,
     RemoveStoppedPreserves DEF Begin
<1>2. ASSUME NEW c \in Caller, Continue(c) PROVE CoreInv'
  BY <1>2, NotifyStartPreserves, InsertManagerPreserves, JoinPreserves,
     NotifyStopPreserves, RelaunchPreserves, RelaunchFailsPreserves, ReadPidPreserves,
     NotifyRestartPreserves, DeregisterPreserves DEF Continue
<1>3. ASSUME NEW c \in Caller, RemoveApp(c) PROVE CoreInv'
  BY <1>3, RemoveAppPreserves
<1>4. ASSUME NEW m \in Manager, Watch(m) PROVE CoreInv'
  BY <1>4, WatchReadPreserves, WatchReapPreserves, WaitExitedPreserves,
     WatchNotifyPreserves, MonitorStoppedPreserves, MonitorGivesUpPreserves,
     MonitorRestartsPreserves, MonitorRestartFailsPreserves DEF Watch
<1>5. ASSUME NEW p \in Pid, ProcExits(p) \/ KillTakesEffect(p) PROVE CoreInv'
  BY <1>5, ProcExitsPreserves, KillTakesEffectPreserves
<1>6. CASE UNCHANGED vars
  BY <1>6 DEF vars, CoreInv, TypeOK, LockInv, TargetInv, MadeInv, RunningInv, AliveInv,
     WatchInv, JoinInv, SilenceInv, RestartsAreBounded
<1>. QED BY <1>1, <1>2, <1>3, <1>4, <1>5, <1>6 DEF Next

----------------------------------------------------------------------------
(* The record.  Each lemma below assumes that the step overtakes nothing     *)
(* and leaks nothing: otherwise TruthInv' holds whatever the record says.    *)

\* What the callers' and the watchers' events make of the record.
LEMMA ApplyGives ==
    /\ \A p \in Pid \cup {Nobody} :
        /\ Apply(StartEvent(p)).status = "running" /\ Apply(StartEvent(p)).pid = p
        /\ Apply(RestartEvent(p)).status = "running" /\ Apply(RestartEvent(p)).pid = p
    /\ \A r \in Reason :
        /\ Apply(StopEvent(r)).status = "stopped" /\ Apply(StopEvent(r)).pid = Nobody
        /\ Apply(FailedEvent(r)).status = "failed" /\ Apply(FailedEvent(r)).pid = Nobody
    /\ record \in Record =>
        Apply(RegisterEvent).status = "stopped" /\ Apply(RegisterEvent).pid = record.pid
BY DEF Apply, StartEvent, RestartEvent, StopEvent, FailedEvent, RegisterEvent, Record, Reason

\* The type an event carries.
LEMMA EventTypes ==
    /\ \A p : RestartEvent(p).type = "restart"
    /\ \A r : StopEvent(r).type = "stop" /\ FailedEvent(r).type = "failed"
BY DEF RestartEvent, StopEvent, FailedEvent

\* A watcher's event that ends a process makes the record show none.
LEMMA ApplyEnd ==
    ASSUME NEW e \in WatchEvent, e.type \in {"stop", "failed"}
    PROVE  Apply(e).status # "running" /\ Apply(e).pid = Nobody
BY DEF WatchEvent, Apply, NoEvent, StopEvent, RestartEvent, FailedEvent

\* CheckNotRunning: only the caller moves, and it holds nothing.
LEMMA CheckNotRunningTruth ==
    ASSUME CoreInv, TruthInv, NEW c \in Caller, CheckNotRunning(c) PROVE TruthInv'
<1> SUFFICES ASSUME ~overtaken', leaked' = {} PROVE PostedInv' /\ FreeInv' /\ HolderInv'
  BY DEF TruthInv
<1>1. PostedInv /\ FreeInv /\ HolderInv
  BY DEF TruthInv, CheckNotRunning
<1>2. PostedInv'
  BY <1>1 DEF CheckNotRunning, Goto, PostedInv, Ended
<1>3. FreeInv'
  BY <1>1 DEF CheckNotRunning, Goto, FreeInv, Told
<1>4. HolderInv'
  BY <1>1 DEF CheckNotRunning, Goto, HolderInv, Told, Ended
<1>. QED BY <1>2, <1>3, <1>4

\* RegisterApp: either it overtakes (the app runs, or a call is under way), or the
\* record shows a stopped app and no process, and none runs.
LEMMA RegisterAppTruth ==
    ASSUME CoreInv, TruthInv, NEW c \in Caller, RegisterApp(c) PROVE TruthInv'
<1> SUFFICES ASSUME ~overtaken', leaked' = {} PROVE PostedInv' /\ FreeInv' /\ HolderInv'
  BY DEF TruthInv
<1>1. PostedInv /\ FreeInv /\ HolderInv
  BY DEF TruthInv, RegisterApp, CoreInv, TypeOK
<1>2. record'.status = "stopped" /\ record'.pid = record.pid
  BY ApplyGives DEF RegisterApp, CoreInv, TypeOK
<1>3. lock = Nobody /\ ~AppRunning /\ pc' = [pc EXCEPT ![c] = "registered"] /\ pc[c] = "checked"
  BY DEF RegisterApp, Goto, CoreInv, TypeOK
<1>4. PostedInv'
  BY <1>1, <1>3 DEF RegisterApp, CoreInv, TypeOK, PostedInv, Ended
<1>5. FreeInv'
  BY <1>1, <1>2, <1>3 DEF RegisterApp, AppRunning, CoreInv, TypeOK, FreeInv, Told
<1>6. HolderInv'
  BY <1>1, <1>3 DEF RegisterApp, CoreInv, TypeOK, LockInv, Holding, HolderInv, Told, Ended
<1>. QED BY <1>4, <1>5, <1>6

\* StartRefused: only the caller moves, and it holds nothing.
LEMMA StartRefusedTruth ==
    ASSUME CoreInv, TruthInv, NEW c \in Caller, StartRefused(c) PROVE TruthInv'
<1> SUFFICES ASSUME ~overtaken', leaked' = {} PROVE PostedInv' /\ FreeInv' /\ HolderInv'
  BY DEF TruthInv
<1>1. PostedInv /\ FreeInv /\ HolderInv
  BY DEF TruthInv, StartRefused
<1>2. PostedInv'
  BY <1>1 DEF StartRefused, Goto, PostedInv, Ended
<1>3. FreeInv'
  BY <1>1 DEF StartRefused, Goto, FreeInv, Told
<1>4. HolderInv'
  BY <1>1 DEF StartRefused, Goto, CoreInv, LockInv, Holding, HolderInv
<1>. QED BY <1>2, <1>3, <1>4

\* StartApp: the new manager runs the process the caller is about to announce.
LEMMA StartAppTruth ==
    ASSUME CoreInv, TruthInv, NEW c \in Caller, StartApp(c) PROVE TruthInv'
<1> SUFFICES ASSUME ~overtaken', leaked' = {} PROVE PostedInv' /\ FreeInv' /\ HolderInv'
  BY DEF TruthInv
<1>1. PostedInv /\ FreeInv /\ HolderInv
  BY DEF TruthInv, StartApp
<1>2. PostedInv'
  BY <1>1 DEF StartApp, MayStart, Launch, Goto, CoreInv, TypeOK, PostedInv, Ended
<1>3. FreeInv'
  BY <1>1 DEF StartApp, FreeInv
<1>4. HolderInv'
  BY <1>1 DEF StartApp, MayStart, Launch, Goto, CoreInv, TypeOK, LockInv, Holding,
     HolderInv, Told
<1>. QED BY <1>2, <1>3, <1>4

\* StartAppFails: the manager that leaves the registry was not running.
LEMMA StartAppFailsTruth ==
    ASSUME CoreInv, TruthInv, NEW c \in Caller, StartAppFails(c) PROVE TruthInv'
<1> SUFFICES ASSUME ~overtaken', leaked' = {} PROVE PostedInv' /\ FreeInv' /\ HolderInv'
  BY DEF TruthInv
<1>1. PostedInv /\ FreeInv /\ HolderInv
  BY DEF TruthInv, StartAppFails
<1>2. PostedInv'
  BY <1>1 DEF StartAppFails, MayStart, Goto, PostedInv, Ended
<1>3. FreeInv'
  BY <1>1 DEF StartAppFails, MayStart, AppRunning, Goto, CoreInv, TypeOK, FreeInv, Told
<1>4. HolderInv'
  BY <1>1 DEF StartAppFails, MayStart, Goto, CoreInv, LockInv, Holding, HolderInv
<1>. QED BY <1>2, <1>3, <1>4

\* Stop: the caller will wait for the watcher, so an event that no longer fits may stay.
LEMMA StopTruth ==
    ASSUME CoreInv, TruthInv, NEW c \in Caller, Stop(c) PROVE TruthInv'
<1> SUFFICES ASSUME ~overtaken', leaked' = {} PROVE PostedInv' /\ FreeInv' /\ HolderInv'
  BY DEF TruthInv
<1>1. PostedInv /\ FreeInv /\ HolderInv
  BY DEF TruthInv, Stop
<1>2. PostedInv'
  BY <1>1 DEF Stop, MayStop, Goto, CoreInv, TypeOK, PostedInv, Ended
<1>3. FreeInv'
  BY <1>1 DEF Stop, FreeInv
<1>4. HolderInv'
  BY <1>1 DEF Stop, MayStop, Goto, CoreInv, LockInv, Holding, HolderInv
<1>. QED BY <1>2, <1>3, <1>4

\* StopKillFails: it leaks the process.
LEMMA StopKillFailsTruth ==
    ASSUME CoreInv, TruthInv, NEW c \in Caller, StopKillFails(c) PROVE TruthInv'
BY DEF StopKillFails, TruthInv

\* RemoveStopped: only the caller moves, and it holds nothing.
LEMMA RemoveStoppedTruth ==
    ASSUME CoreInv, TruthInv, NEW c \in Caller, RemoveStopped(c) PROVE TruthInv'
<1> SUFFICES ASSUME ~overtaken', leaked' = {} PROVE PostedInv' /\ FreeInv' /\ HolderInv'
  BY DEF TruthInv
<1>1. PostedInv /\ FreeInv /\ HolderInv
  BY DEF TruthInv, RemoveStopped
<1>2. PostedInv'
  BY <1>1 DEF RemoveStopped, Goto, PostedInv, Ended
<1>3. FreeInv'
  BY <1>1 DEF RemoveStopped, Goto, FreeInv, Told
<1>4. HolderInv'
  BY <1>1 DEF RemoveStopped, Goto, CoreInv, LockInv, Holding, HolderInv
<1>. QED BY <1>2, <1>3, <1>4

\* NotifyStart: the record has the process launched; if it has ended since, its
\* watcher has an event that says so.
LEMMA NotifyStartTruth ==
    ASSUME CoreInv, TruthInv, NEW c \in Caller, NotifyStart(c) PROVE TruthInv'
<1> SUFFICES ASSUME ~overtaken', leaked' = {} PROVE PostedInv' /\ FreeInv' /\ HolderInv'
  BY DEF TruthInv
<1>1. PostedInv /\ FreeInv /\ HolderInv
  BY DEF TruthInv, NotifyStart, CoreInv, TypeOK
<1>2. record'.status = "running" /\ record'.pid = carried[c]
  BY ApplyGives DEF NotifyStart, CoreInv, TypeOK
<1>3. /\ pc[c] = "notifyStart" /\ lock = c /\ target[c] \in Manager
      /\ Told(target[c], "running", carried[c])
      /\ \E l \in {"insert", "readPid"} : pc' = [pc EXCEPT ![c] = l]
  BY <1>1 DEF NotifyStart, Goto, CoreInv, LockInv, TargetInv, Holding, HolderInv
<1>4. PostedInv'
  BY <1>1, <1>3 DEF NotifyStart, CoreInv, TypeOK, PostedInv, Ended
<1>5. FreeInv'
  BY <1>3 DEF NotifyStart, FreeInv
<1>6. running[target[c]] \/ Ended(target[c])
  BY <1>1, <1>3 DEF Told, PostedInv, CoreInv, LockInv, Holding
<1>7. HolderInv'
  BY <1>2, <1>3, <1>6 DEF NotifyStart, CoreInv, TypeOK, LockInv, Holding, HolderInv, Told, Ended
<1>. QED BY <1>4, <1>5, <1>7

\* InsertManager: the manager the record fits becomes the registered one.
LEMMA InsertManagerTruth ==
    ASSUME CoreInv, TruthInv, NEW c \in Caller, InsertManager(c) PROVE TruthInv'
<1> SUFFICES ASSUME ~overtaken', leaked' = {} PROVE PostedInv' /\ FreeInv' /\ HolderInv'
  BY DEF TruthInv
<1>1. PostedInv /\ FreeInv /\ HolderInv
  BY DEF TruthInv, InsertManager
<1>2. PostedInv'
  BY <1>1 DEF InsertManager, Return, PostedInv, Ended
<1>3. FreeInv'
  <2>1. /\ registry' = target[c] /\ Told(target[c], record.status, record.pid)
        /\ target[c] \in Manager
    BY <1>1 DEF InsertManager, HolderInv, CoreInv, TargetInv, Holding
  <2>. QED BY <2>1 DEF InsertManager, FreeInv, Told
<1>4. HolderInv'
  BY <1>1 DEF InsertManager, Return, CoreInv, TypeOK, LockInv, Holding, HolderInv
<1>. QED BY <1>2, <1>3, <1>4

\* Join: the watcher is done, so no event of the stopped manager is left.
LEMMA JoinTruth ==
    ASSUME CoreInv, TruthInv, NEW c \in Caller, Join(c) PROVE TruthInv'
<1> SUFFICES ASSUME ~overtaken', leaked' = {} PROVE PostedInv' /\ FreeInv' /\ HolderInv'
  BY DEF TruthInv
<1>1. PostedInv /\ FreeInv /\ HolderInv
  BY DEF TruthInv, Join
<1>2. PostedInv'
  BY <1>1 DEF Join, Goto, PostedInv, Ended
<1>3. FreeInv'
  BY <1>1 DEF Join, CoreInv, LockInv, Holding, FreeInv
<1>4. HolderInv'
  BY <1>1 DEF Join, Goto, CoreInv, LockInv, Holding, HolderInv
<1>. QED BY <1>2, <1>3, <1>4

\* NotifyStop: the record shows the stop of the caller's manager, which does not run.
LEMMA NotifyStopTruth ==
    ASSUME CoreInv, TruthInv, NEW c \in Caller, NotifyStop(c) PROVE TruthInv'
<1> SUFFICES ASSUME ~overtaken', leaked' = {} PROVE PostedInv' /\ FreeInv' /\ HolderInv'
  BY DEF TruthInv
<1>1. PostedInv /\ FreeInv /\ HolderInv
  BY DEF TruthInv, NotifyStop
<1>2. PostedInv'
  BY <1>1 DEF NotifyStop, Goto, Return, StopEvent, CoreInv, TypeOK, PostedInv, Ended
<1>3. FreeInv'
  BY <1>1 DEF NotifyStop, Apply, StopEvent, CoreInv, TargetInv, JoinInv, Holding, FreeInv,
     Told
<1>4. HolderInv'
  BY <1>1 DEF NotifyStop, Goto, Return, Apply, StopEvent, CoreInv, TypeOK, LockInv, JoinInv,
     Holding, HolderInv, Told
<1>. QED BY <1>2, <1>3, <1>4

\* Relaunch: the manager runs the process the caller is about to announce.
LEMMA RelaunchTruth ==
    ASSUME CoreInv, TruthInv, NEW c \in Caller, Relaunch(c) PROVE TruthInv'
<1> SUFFICES ASSUME ~overtaken', leaked' = {} PROVE PostedInv' /\ FreeInv' /\ HolderInv'
  BY DEF TruthInv
<1>1. PostedInv /\ FreeInv /\ HolderInv
  BY DEF TruthInv, Relaunch
<1>2. PostedInv'
  BY <1>1 DEF Relaunch, Launch, Goto, CoreInv, TypeOK, PostedInv, Ended
<1>3. FreeInv'
  BY <1>1 DEF Relaunch, CoreInv, LockInv, Holding, FreeInv
<1>4. HolderInv'
  BY <1>1 DEF Relaunch, Launch, Goto, CoreInv, TypeOK, LockInv, TargetInv, Holding,
     HolderInv, Told
<1>. QED BY <1>2, <1>3, <1>4

\* RelaunchFails: the record still shows the stop.
LEMMA RelaunchFailsTruth ==
    ASSUME CoreInv, TruthInv, NEW c \in Caller, RelaunchFails(c) PROVE TruthInv'
<1> SUFFICES ASSUME ~overtaken', leaked' = {} PROVE PostedInv' /\ FreeInv' /\ HolderInv'
  BY DEF TruthInv
<1>1. PostedInv /\ FreeInv /\ HolderInv
  BY DEF TruthInv, RelaunchFails
<1>2. PostedInv'
  BY <1>1 DEF RelaunchFails, Return, PostedInv, Ended
<1>3. FreeInv'
  <2>1. /\ registry' = target[c] /\ Told(target[c], record.status, record.pid)
        /\ target[c] \in Manager
    BY <1>1 DEF RelaunchFails, HolderInv, CoreInv, TargetInv, Holding
  <2>. QED BY <2>1 DEF RelaunchFails, FreeInv, Told
<1>4. HolderInv'
  BY <1>1 DEF RelaunchFails, Return, CoreInv, TypeOK, LockInv, Holding, HolderInv
<1>. QED BY <1>2, <1>3, <1>4

\* ReadPid: the process read is the manager's, or its watcher has an event to send.
LEMMA ReadPidTruth ==
    ASSUME CoreInv, TruthInv, NEW c \in Caller, ReadPid(c) PROVE TruthInv'
<1> SUFFICES ASSUME ~overtaken', leaked' = {} PROVE PostedInv' /\ FreeInv' /\ HolderInv'
  BY DEF TruthInv
<1>1. PostedInv /\ FreeInv /\ HolderInv
  BY DEF TruthInv, ReadPid
<1>2. PostedInv'
  BY <1>1 DEF ReadPid, Goto, PostedInv, Ended
<1>3. FreeInv'
  BY <1>1 DEF ReadPid, CoreInv, LockInv, Holding, FreeInv
<1>4. HolderInv'
  BY <1>1 DEF ReadPid, Goto, CoreInv, TypeOK, HolderInv, Told, Ended
<1>. QED BY <1>2, <1>3, <1>4

\* NotifyRestart: the record has what the caller read.
LEMMA NotifyRestartTruth ==
    ASSUME CoreInv, TruthInv, NEW c \in Caller, NotifyRestart(c) PROVE TruthInv'
<1> SUFFICES ASSUME ~overtaken', leaked' = {} PROVE PostedInv' /\ FreeInv' /\ HolderInv'
  BY DEF TruthInv
<1>1. PostedInv /\ FreeInv /\ HolderInv
  BY DEF TruthInv, NotifyRestart, CoreInv, TypeOK
<1>2. record'.status = "running" /\ record'.pid = carried[c]
  BY ApplyGives DEF NotifyRestart, CoreInv, TypeOK
<1>3. /\ pc[c] = "notifyRestart" /\ lock = c /\ target[c] \in Manager /\ registry = target[c]
      /\ Told(registry, "running", carried[c])
      /\ pc' = [pc EXCEPT ![c] = "idle"] /\ target' = [target EXCEPT ![c] = Nobody]
  BY <1>1 DEF NotifyRestart, Return, CoreInv, LockInv, TargetInv, Holding, HolderInv
<1>4. PostedInv'
  BY <1>1, <1>3 DEF NotifyRestart, CoreInv, TypeOK, PostedInv, Ended
<1>5. FreeInv'
  BY <1>2, <1>3 DEF NotifyRestart, CoreInv, TypeOK, FreeInv, Told
<1>6. HolderInv'
  BY <1>3 DEF NotifyRestart, CoreInv, TypeOK, LockInv, Holding, HolderInv
<1>. QED BY <1>4, <1>5, <1>6

\* Deregister: either it overtakes, or there is no manager and now no record.
LEMMA DeregisterTruth ==
    ASSUME CoreInv, TruthInv, NEW c \in Caller, Deregister(c) PROVE TruthInv'
<1> SUFFICES ASSUME ~overtaken', leaked' = {} PROVE PostedInv' /\ FreeInv' /\ HolderInv'
  BY DEF TruthInv
<1>1. PostedInv /\ FreeInv /\ HolderInv
  BY DEF TruthInv, Deregister, CoreInv, TypeOK
<1>2. record'.status # "running" /\ record'.pid = Nobody
  BY DEF Deregister, NoRecord
<1>3. /\ lock = Nobody /\ registry = Nobody
      /\ pc[c] = "deregister" /\ pc' = [pc EXCEPT ![c] = "idle"]
  BY DEF Deregister, Goto, CoreInv, TypeOK
<1>4. PostedInv'
  BY <1>1, <1>3 DEF Deregister, CoreInv, TypeOK, PostedInv, Ended
<1>5. FreeInv'
  BY <1>2, <1>3 DEF Deregister, FreeInv
<1>6. HolderInv'
  BY <1>3 DEF Deregister, CoreInv, TypeOK, LockInv, Holding, HolderInv
<1>. QED BY <1>4, <1>5, <1>6

\* RemoveApp: the caller will send the deregister event.
LEMMA RemoveAppTruth ==
    ASSUME CoreInv, TruthInv, NEW c \in Caller, RemoveApp(c) PROVE TruthInv'
<1> SUFFICES ASSUME ~overtaken', leaked' = {} PROVE PostedInv' /\ FreeInv' /\ HolderInv'
  BY DEF TruthInv
<1>1. PostedInv /\ FreeInv /\ HolderInv
  BY DEF TruthInv, RemoveApp
<1>2. PostedInv'
  BY <1>1 DEF RemoveApp, Goto, PostedInv, Ended
<1>3. FreeInv'
  BY <1>1 DEF RemoveApp, Goto, CoreInv, TypeOK, FreeInv
<1>4. HolderInv'
  BY <1>1 DEF RemoveApp, Goto, CoreInv, LockInv, Holding, HolderInv
<1>. QED BY <1>2, <1>3, <1>4

\* WatchRead: the watcher has no event yet.
LEMMA WatchReadTruth ==
    ASSUME CoreInv, TruthInv, NEW m \in Manager, WatchRead(m) PROVE TruthInv'
<1> SUFFICES ASSUME ~overtaken', leaked' = {} PROVE PostedInv' /\ FreeInv' /\ HolderInv'
  BY DEF TruthInv
<1>1. PostedInv /\ FreeInv /\ HolderInv
  BY DEF TruthInv, WatchRead
<1>2. PostedInv'
  BY <1>1 DEF WatchRead, PostedInv, Ended
<1>3. FreeInv'
  BY <1>1 DEF WatchRead, FreeInv, Told
<1>4. HolderInv'
  BY <1>1 DEF WatchRead, HolderInv, Told, Ended
<1>. QED BY <1>2, <1>3, <1>4

\* WatchReap: the watcher has no event yet.
LEMMA WatchReapTruth ==
    ASSUME CoreInv, TruthInv, NEW m \in Manager, WatchReap(m) PROVE TruthInv'
<1> SUFFICES ASSUME ~overtaken', leaked' = {} PROVE PostedInv' /\ FreeInv' /\ HolderInv'
  BY DEF TruthInv
<1>1. PostedInv /\ FreeInv /\ HolderInv
  BY DEF TruthInv, WatchReap
<1>2. PostedInv'
  BY <1>1 DEF WatchReap, PostedInv, Ended
<1>3. FreeInv'
  BY <1>1 DEF WatchReap, FreeInv, Told
<1>4. HolderInv'
  BY <1>1 DEF WatchReap, HolderInv, Told, Ended
<1>. QED BY <1>2, <1>3, <1>4

\* A watcher posts an event which fits its manager.
LEMMA PostTruth ==
    ASSUME CoreInv, PostedInv, FreeInv, HolderInv, NEW m \in Manager, watch[m] = "reaped",
           NEW e \in WatchEvent, Post(m, e),
           UNCHANGED <<lock, registry, callVars, record>>,
           running' \in [Manager -> BOOLEAN],
           \A n \in Manager : n # m => running'[n] = running[n] /\ cmd'[n] = cmd[n],
           \/ running'[m] /\ running[m] /\ e = RestartEvent(cmd'[m])
           \/ ~running'[m] /\ e.type \in {"stop", "failed"}
    PROVE  PostedInv' /\ FreeInv' /\ HolderInv'
<1>1. /\ watch'[m] = "notify" /\ event'[m] = e
      /\ \A n \in Manager : n # m => watch'[n] = watch[n] /\ event'[n] = event[n]
  BY DEF Post, CoreInv, TypeOK
<1>2. PostedInv'
  <2> SUFFICES ASSUME NEW n \in Manager, watch'[n] = "notify"
               PROVE  IF running'[n]
                      THEN event'[n] = RestartEvent(cmd'[n])
                      ELSE Ended(n)' \/ \E c \in Caller : pc'[c] = "join" /\ target'[c] = n
    BY DEF PostedInv
  <2>1. CASE n = m
    BY <1>1, <2>1 DEF Ended
  <2>2. CASE n # m
    BY <1>1, <2>2 DEF PostedInv, Ended
  <2>. QED BY <2>1, <2>2
<1>3. FreeInv'
  <2> SUFFICES ASSUME lock = Nobody
               PROVE  IF registry # Nobody
                      THEN Told(registry, record.status, record.pid)'
                      ELSE \/ record.status # "running" /\ record.pid = Nobody
                           \/ \E n \in Manager : watch'[n] = "notify"
                           \/ \E c \in Caller : pc[c] = "deregister"
    BY DEF FreeInv
  <2>1. CASE registry = Nobody
    BY <1>1, <2>1
  <2>2. CASE registry = m
    BY <1>1, <2>2 DEF Told
  <2>3. CASE registry \in Manager /\ registry # m
    BY <1>1, <2>3 DEF FreeInv, Told
  <2>. QED BY <2>1, <2>2, <2>3 DEF CoreInv, TypeOK
<1>4. HolderInv'
  <2> SUFFICES ASSUME NEW c \in Caller, pc[c] \in Holding
               PROVE  /\ pc[c] \in {"notifyStart", "notifyRestart"} =>
                             Told(target[c], "running", carried[c])'
                      /\ pc[c] \in {"insert", "relaunch"} =>
                             Told(target[c], record.status, record.pid)'
                      /\ pc[c] = "readPid" => running'[target[c]] \/ Ended(target[c])'
    BY DEF HolderInv, Holding
  <2>1. CASE target[c] = m
    BY <1>1, <2>1 DEF Told, Ended
  <2>2. CASE target[c] # m
    <3>1. target[c] \in Manager
      BY DEF CoreInv, TargetInv
    <3>. QED BY <1>1, <2>2, <3>1 DEF HolderInv, Told, Ended
  <2>. QED BY <2>1, <2>2
<1>. QED BY <1>2, <1>3, <1>4

\* WaitExited: the event that is posted ends the manager's process; a stopped manager
\* gets none.
LEMMA WaitExitedTruth ==
    ASSUME CoreInv, TruthInv, NEW m \in Manager, WaitExited(m) PROVE TruthInv'
<1> SUFFICES ASSUME ~overtaken', leaked' = {} PROVE PostedInv' /\ FreeInv' /\ HolderInv'
  BY DEF TruthInv
<1>1. PostedInv /\ FreeInv /\ HolderInv
  BY DEF TruthInv, WaitExited, CoreInv, TypeOK
<1>2. ASSUME NEW e, e = FailedEvent("crash") \/ e = StopEvent(""), Post(m, e)
      PROVE  PostedInv' /\ FreeInv' /\ HolderInv'
  <2>1. e \in WatchEvent /\ e.type \in {"stop", "failed"}
    BY <1>2, EventTypes DEF WatchEvent
  <2>. QED BY <1>1, <1>2, <2>1, PostTruth DEF WaitExited, CoreInv, TypeOK
<1>3. ASSUME ~running[m], watch' = [watch EXCEPT ![m] = "done"], event' = event
      PROVE  PostedInv' /\ FreeInv' /\ HolderInv'
  <2>1. /\ watch[m] = "reaped"
        /\ running' = [running EXCEPT ![m] = FALSE] /\ cmd' = [cmd EXCEPT ![m] = Nobody]
        /\ UNCHANGED <<lock, registry, callVars, record>>
    BY DEF WaitExited
  <2>2. \A n \in Manager :
            /\ running'[n] = running[n] /\ (running[n] => cmd'[n] = cmd[n])
            /\ (watch'[n] = "notify" <=> watch[n] = "notify")
    <3>1. watch'[m] = "done" /\ running'[m] = FALSE /\ running[m] = FALSE
      BY <1>3, <2>1 DEF CoreInv, TypeOK
    <3>2. \A n \in Manager : n # m =>
              running'[n] = running[n] /\ cmd'[n] = cmd[n] /\ watch'[n] = watch[n]
      BY <1>3, <2>1 DEF CoreInv, TypeOK
    <3>. QED BY <2>1, <3>1, <3>2
  <2>3. PostedInv'
    BY <1>1, <1>3, <2>1, <2>2 DEF PostedInv, Ended
  <2>4. FreeInv'
    BY <1>1, <2>1, <2>2 DEF CoreInv, TypeOK, FreeInv, Told
  <2>5. HolderInv'
    <3>1. \A c \in Caller : pc[c] \in Holding => target[c] \in Manager
      BY DEF CoreInv, TargetInv
    <3>. QED BY <1>1, <1>3, <2>1, <2>2, <3>1 DEF Holding, HolderInv, Told, Ended
  <2>. QED BY <2>3, <2>4, <2>5
<1>. QED BY <1>2, <1>3 DEF WaitExited

\* MonitorStopped: the watcher of a stopped manager ends without an event.
LEMMA MonitorStoppedTruth ==
    ASSUME CoreInv, TruthInv, NEW m \in Manager, MonitorStopped(m) PROVE TruthInv'
<1> SUFFICES ASSUME ~overtaken', leaked' = {} PROVE PostedInv' /\ FreeInv' /\ HolderInv'
  BY DEF TruthInv
<1>1. PostedInv /\ FreeInv /\ HolderInv
  BY DEF TruthInv, MonitorStopped
<1>2. PostedInv'
  BY <1>1 DEF MonitorStopped, PostedInv, Ended
<1>3. FreeInv'
  BY <1>1 DEF MonitorStopped, FreeInv, Told
<1>4. HolderInv'
  BY <1>1 DEF MonitorStopped, HolderInv, Told, Ended
<1>. QED BY <1>2, <1>3, <1>4

\* MonitorGivesUp: the event that is posted ends the manager's process.
LEMMA MonitorGivesUpTruth ==
    ASSUME CoreInv, TruthInv, NEW m \in Manager, MonitorGivesUp(m) PROVE TruthInv'
<1> SUFFICES ASSUME ~overtaken', leaked' = {} PROVE PostedInv' /\ FreeInv' /\ HolderInv'
  BY DEF TruthInv
<1>1. PostedInv /\ FreeInv /\ HolderInv
  BY DEF TruthInv, MonitorGivesUp
<1>2. PostedInv'
  BY <1>1 DEF MonitorGivesUp, Post, FailedEvent, CoreInv, TypeOK, PostedInv, Ended
<1>3. FreeInv'
  BY <1>1 DEF MonitorGivesUp, Post, CoreInv, TypeOK, FreeInv, Told
<1>4. HolderInv'
  BY <1>1 DEF MonitorGivesUp, Post, FailedEvent, CoreInv, TypeOK, HolderInv, Told, Ended
<1>. QED BY <1>2, <1>3, <1>4

\* MonitorRestarts: the event that is posted has the new process.
LEMMA MonitorRestartsTruth ==
    ASSUME CoreInv, TruthInv, NEW m \in Manager, MonitorRestarts(m) PROVE TruthInv'
<1> SUFFICES ASSUME ~overtaken', leaked' = {} PROVE PostedInv' /\ FreeInv' /\ HolderInv'
  BY DEF TruthInv
<1>1. PostedInv /\ FreeInv /\ HolderInv
  BY DEF TruthInv, MonitorRestarts, CoreInv, TypeOK
<1>2. PICK p \in Pid : cmd' = [cmd EXCEPT ![m] = p] /\ Post(m, RestartEvent(p))
  BY DEF MonitorRestarts
<1>3. RestartEvent(p) \in WatchEvent /\ cmd'[m] = p
  BY <1>2 DEF WatchEvent, CoreInv, TypeOK
<1>. QED BY <1>1, <1>2, <1>3, PostTruth DEF MonitorRestarts, CoreInv, TypeOK

\* MonitorRestartFails: the event that is posted ends the manager's process.
LEMMA MonitorRestartFailsTruth ==
    ASSUME CoreInv, TruthInv, NEW m \in Manager, MonitorRestartFails(m) PROVE TruthInv'
<1> SUFFICES ASSUME ~overtaken', leaked' = {} PROVE PostedInv' /\ FreeInv' /\ HolderInv'
  BY DEF TruthInv
<1>1. PostedInv /\ FreeInv /\ HolderInv
  BY DEF TruthInv, MonitorRestartFails
<1>2. PostedInv'
  BY <1>1 DEF MonitorRestartFails, Post, FailedEvent, CoreInv, TypeOK, PostedInv, Ended
<1>3. FreeInv'
  BY <1>1 DEF MonitorRestartFails, Post, CoreInv, TypeOK, FreeInv, Told
<1>4. HolderInv'
  BY <1>1 DEF MonitorRestartFails, Post, FailedEvent, CoreInv, TypeOK, HolderInv, Told,
     Ended
<1>. QED BY <1>2, <1>3, <1>4

\* WatchNotify: unless it overtakes, the event is about the manager the entry points
\* reach, and about what it runs now.
LEMMA WatchNotifyTruth ==
    ASSUME CoreInv, TruthInv, NEW m \in Manager, WatchNotify(m) PROVE TruthInv'
<1> SUFFICES ASSUME ~overtaken', leaked' = {} PROVE PostedInv' /\ FreeInv' /\ HolderInv'
  BY DEF TruthInv
<1>1. PostedInv /\ FreeInv /\ HolderInv
  BY DEF TruthInv, WatchNotify, CoreInv, TypeOK
<1>2. /\ watch[m] = "notify" /\ watch'[m] # "notify" /\ Current(m) /\ ~Announcing(m)
      /\ \A n \in Manager : n # m => watch'[n] = watch[n] /\ event'[n] = event[n]
      /\ UNCHANGED <<lock, registry, running, cmd, pc, target, carried>>
  BY DEF WatchNotify, CoreInv, TypeOK
<1>3. PostedInv'
  BY <1>1, <1>2 DEF PostedInv, Ended
<1>4. \/ \E c \in Caller : pc[c] = "join" /\ target[c] = m
      \/ running[m] /\ record'.status = "running" /\ record'.pid = cmd[m]
      \/ ~running[m] /\ record'.status # "running" /\ record'.pid = Nobody
  <2>1. record' = Apply(event[m]) /\ event[m] \in WatchEvent
    BY DEF WatchNotify, CoreInv, TypeOK
  <2>2. CASE running[m]
    <3>1. cmd[m] \in Pid /\ event[m] = RestartEvent(cmd[m])
      BY <1>1, <1>2, <2>2 DEF PostedInv, CoreInv, RunningInv
    <3>. QED BY <2>1, <2>2, <3>1, ApplyGives
  <2>3. CASE ~running[m]
    BY <1>1, <1>2, <2>1, <2>3, ApplyEnd DEF PostedInv, Ended
  <2>. QED BY <2>2, <2>3
<1>5. FreeInv'
  <2> SUFFICES ASSUME lock = Nobody
               PROVE  registry = m /\ m # Nobody /\ Told(registry, record.status, record.pid)'
    BY <1>2 DEF FreeInv
  <2>1. \A c \in Caller : pc[c] \notin Holding
    BY DEF CoreInv, LockInv
  <2>2. registry = m /\ m # Nobody
    BY <1>2, <2>1 DEF Current, Holding
  <2>. QED BY <1>2, <1>4, <2>1, <2>2 DEF Told, Holding
<1>6. HolderInv'
  <2> SUFFICES ASSUME NEW c \in Caller, pc[c] \in Holding
               PROVE  /\ pc[c] \in {"notifyStart", "notifyRestart"} =>
                             Told(target[c], "running", carried[c])'
                      /\ pc[c] \in {"insert", "relaunch"} =>
                             Told(target[c], record.status, record.pid)'
                      /\ pc[c] = "readPid" => running'[target[c]] \/ Ended(target[c])'
    BY <1>2 DEF HolderInv, Holding
  <2>1. target[c] \in Manager /\ lock = c
    BY DEF CoreInv, TargetInv, LockInv
  <2>2. CASE pc[c] \in {"notifyStart", "readPid", "notifyRestart"}
    <3>1. target[c] # m
      BY <1>2, <2>2 DEF Announcing
    <3>. QED BY <1>1, <1>2, <2>1, <2>2, <3>1 DEF HolderInv, Told, Ended
  <2>3. CASE pc[c] = "insert"
    <3>1. registry = Nobody /\ target[c] = m
      BY <1>2, <2>1, <2>3 DEF Current, CoreInv, TypeOK, TargetInv, LockInv, Holding
    <3>. QED BY <1>2, <1>4, <2>1, <2>3, <3>1 DEF Told, CoreInv, LockInv, Holding
  <2>4. CASE pc[c] = "relaunch"
    <3>1. registry = target[c] /\ watch[target[c]] # "notify"
      BY <2>4 DEF CoreInv, TypeOK, TargetInv, JoinInv
    <3>2. registry = m
      BY <1>2, <2>1, <2>4 DEF Current, CoreInv, LockInv, Holding
    <3>. QED BY <1>2, <3>1, <3>2
  <2>. QED BY <2>2, <2>3, <2>4 DEF Holding
<1>. QED BY <1>3, <1>5, <1>6

\* ProcExits: nobody has noticed yet.
LEMMA ProcExitsTruth ==
    ASSUME CoreInv, TruthInv, NEW p \in Pid, ProcExits(p) PROVE TruthInv'
<1> SUFFICES ASSUME ~overtaken', leaked' = {} PROVE PostedInv' /\ FreeInv' /\ HolderInv'
  BY DEF TruthInv
<1>1. PostedInv /\ FreeInv /\ HolderInv
  BY DEF TruthInv, ProcExits
<1>2. PostedInv'
  BY <1>1 DEF ProcExits, PostedInv, Ended
<1>3. FreeInv'
  BY <1>1 DEF ProcExits, FreeInv, Told
<1>4. HolderInv'
  BY <1>1 DEF ProcExits, HolderInv, Told, Ended
<1>. QED BY <1>2, <1>3, <1>4

\* KillTakesEffect: nobody has noticed yet.
LEMMA KillTakesEffectTruth ==
    ASSUME CoreInv, TruthInv, NEW p \in Pid, KillTakesEffect(p) PROVE TruthInv'
<1> SUFFICES ASSUME ~overtaken', leaked' = {} PROVE PostedInv' /\ FreeInv' /\ HolderInv'
  BY DEF TruthInv
<1>1. PostedInv /\ FreeInv /\ HolderInv
  BY DEF TruthInv, KillTakesEffect
<1>2. PostedInv'
  BY <1>1 DEF KillTakesEffect, PostedInv, Ended
<1>3. FreeInv'
  BY <1>1 DEF KillTakesEffect, FreeInv, Told
<1>4. HolderInv'
  BY <1>1 DEF KillTakesEffect, HolderInv, Told, Ended
<1>. QED BY <1>2, <1>3, <1>4

\* At first the record is that of no app, or has the adopted process.
LEMMA InitTruth == Init => TruthInv
<1> SUFFICES ASSUME Init PROVE PostedInv /\ FreeInv /\ HolderInv
  BY DEF TruthInv
<1>1. PostedInv /\ HolderInv
  BY DEF Init, PostedInv, HolderInv
<1>2. FreeInv
  <2>1. CASE Fresh
    BY <2>1 DEF Fresh, NoRecord, FreeInv
  <2>2. CASE Restore
    <3>1. PICK m \in Manager, p \in Pid :
              /\ registry = m /\ running[m] /\ cmd[m] = p
              /\ record = [status |-> "running", pid |-> p, reason |-> ""]
      BY <2>2 DEF Restore
    <3>. QED BY <3>1 DEF FreeInv, Told
  <2>. QED BY <2>1, <2>2 DEF Init
<1>. QED BY <1>1, <1>2

\* Every step keeps the record truthful: the action lemmas combined.
LEMMA NextTruth == CoreInv /\ TruthInv /\ [Next]_vars => TruthInv'
<1> SUFFICES ASSUME CoreInv, TruthInv, [Next]_vars PROVE TruthInv'
  OBVIOUS
<1>1. ASSUME NEW c \in Caller, Begin(c) PROVE TruthInv'
  BY <1>1, CheckNotRunningTruth, RegisterAppTruth, StartRefusedTruth, StartAppTruth,
     StartAppFailsTruth, StopTruth, StopKillFailsTruth, RemoveStoppedTruth DEF Begin
<1>2. ASSUME NEW c \in Caller, Continue(c) PROVE TruthInv'
  BY <1>2, NotifyStartTruth, InsertManagerTruth, JoinTruth, NotifyStopTruth, RelaunchTruth,
     RelaunchFailsTruth, ReadPidTruth, NotifyRestartTruth, DeregisterTruth DEF Continue
<1>3. ASSUME NEW c \in Caller, RemoveApp(c) PROVE TruthInv'
  BY <1>3, RemoveAppTruth
<1>4. ASSUME NEW m \in Manager, Watch(m) PROVE TruthInv'
  BY <1>4, WatchReadTruth, WatchReapTruth, WaitExitedTruth, MonitorStoppedTruth,
     MonitorGivesUpTruth, MonitorRestartsTruth, MonitorRestartFailsTruth, WatchNotifyTruth
     DEF Watch
<1>5. ASSUME NEW p \in Pid, ProcExits(p) \/ KillTakesEffect(p) PROVE TruthInv'
  BY <1>5, ProcExitsTruth, KillTakesEffectTruth
<1>6. CASE UNCHANGED vars
  BY <1>6 DEF vars, TruthInv, PostedInv, FreeInv, HolderInv, Told, Ended
<1>. QED BY <1>1, <1>2, <1>3, <1>4, <1>5, <1>6 DEF Next

\* The inductive invariant holds in every state of every behaviour.
THEOREM Invariance == Spec => []IInv
<1>1. Init => IInv
  BY InitCoreInv, InitTruth DEF IInv
<1>2. IInv /\ [Next]_vars => IInv'
  BY NextCoreInv, NextTruth DEF IInv
<1>. QED BY <1>1, <1>2, PTL DEF Spec

----------------------------------------------------------------------------
(* What follows *)

\* Every variable keeps its type (the state runtime.go, multimanager.go and
\* sync.go hold for an app).
THEOREM TypeCorrect == Spec => []TypeOK
<1>1. IInv => TypeOK
  BY DEF IInv, CoreInv
<1>. QED BY <1>1, Invariance, PTL

\* The monitor never starts a process more than MaxRestarts times: the test at
\* runtime.go:430 bounds the restarts under every interleaving.
THEOREM RestartsBounded == Spec => []RestartsAreBounded
<1>1. IInv => RestartsAreBounded
  BY DEF IInv, CoreInv
<1>. QED BY <1>1, Invariance, PTL

\* A live process can still be stopped, or it is one of the two kinds of
\* stray: whatever callers and the monitor do, the per-app lock and Manager.mu
\* never lose a process.
THEOREM LiveProcessReachable == Spec => []LiveProcessIsReachable
<1>1. IInv => LiveProcessIsReachable
  <2> SUFFICES ASSUME IInv, NEW p \in Pid, proc[p] = "alive", ~Stray(p)
               PROVE  \E m \in Manager :
                          /\ cmd[m] = p
                          /\ running[m]
                          /\ registry = m \/ (lock # Nobody /\ target[lock] = m)
    BY DEF LiveProcessIsReachable
  <2>1. PICK m \in Manager : running[m] /\ cmd[m] = p
    BY DEF IInv, CoreInv, AliveInv, Stray
  <2>2. m \notin orphaned
    BY <2>1 DEF Stray
  <2>. QED BY <2>1, <2>2 DEF IInv, CoreInv, RunningInv
<1>. QED BY <1>1, Invariance, PTL

\* Two processes of the app are never alive together, strays aside: a caller
\* starts a process only when the registered manager is not running, and the
\* monitor only in place of one it has waited for.
THEOREM OneLive == Spec => []OneLiveProcess
<1>1. IInv => OneLiveProcess
  <2> SUFFICES ASSUME IInv,
                      NEW p \in Pid, proc[p] = "alive", ~Stray(p),
                      NEW q \in Pid, proc[q] = "alive", ~Stray(q)
               PROVE  p = q
    BY DEF OneLiveProcess
  <2>1. PICK m \in Manager : running[m] /\ cmd[m] = p
    BY DEF IInv, CoreInv, AliveInv, Stray
  <2>2. PICK n \in Manager : running[n] /\ cmd[n] = q
    BY DEF IInv, CoreInv, AliveInv, Stray
  <2>3. m \notin orphaned /\ n \notin orphaned
    BY <2>1, <2>2 DEF Stray
  <2>4. m = n
    <3>1. CASE lock = Nobody
      BY <2>1, <2>2, <2>3, <3>1 DEF IInv, CoreInv, RunningInv
    <3>2. CASE lock # Nobody
      <4>1. lock \in Caller /\ pc[lock] \in Holding
        BY <3>2 DEF IInv, CoreInv, TypeOK, LockInv
      <4>2. registry = Nobody \/ registry = target[lock]
        BY <4>1 DEF IInv, CoreInv, TargetInv
      <4>. QED BY <2>1, <2>2, <2>3, <4>2 DEF IInv, CoreInv, RunningInv
    <3>. QED BY <3>1, <3>2
  <2>. QED BY <2>1, <2>2, <2>4
<1>. QED BY <1>1, Invariance, PTL

\* When nothing is under way the record agrees with the manager, and the only
\* way it can not is an event that was overtaken: sync.go applies whatever
\* arrives, and the order in which the events of runtime.go, multimanager.go and
\* the handlers arrive is right in every other case.
THEOREM Truthful == Spec => []RecordIsTruthful
<1>1. IInv => RecordIsTruthful
  <2> SUFFICES ASSUME IInv, Quiet, ~overtaken, leaked = {}
               PROVE  IF AppRunning
                      THEN record.status = "running" /\ record.pid = cmd[registry]
                      ELSE record.status # "running" /\ record.pid = Nobody
    BY DEF RecordIsTruthful
  <2>1. lock = Nobody /\ FreeInv
    BY DEF IInv, CoreInv, TypeOK, LockInv, TruthInv, Quiet, Holding
  <2>2. registry # Nobody => Told(registry, record.status, record.pid) /\ registry \in Manager
    BY <2>1 DEF FreeInv, IInv, CoreInv, TypeOK
  <2>3. registry = Nobody => record.status # "running" /\ record.pid = Nobody
    BY <2>1 DEF FreeInv, Quiet
  <2>. QED BY <2>2, <2>3 DEF Told, Quiet, AppRunning
<1>. QED BY <1>1, Invariance, PTL

\* A record left by a manual stop is changed by callers only: Stop waits for
\* monitorDone before it sends its event, so the watcher of the stopped
\* process cannot write over it (runtime.go:611-625).
THEOREM ManualStop == Spec => ManualStopSticks
<1> DEFINE Sticks == record.reason = "manual_stop" /\ record' # record /\ ~overtaken'
                         => pc' # pc
<1>1. IInv /\ [Next]_vars => [Sticks]_vars
  <2> SUFFICES ASSUME IInv, [Next]_vars, pc' = pc, ~overtaken',
                      record.reason = "manual_stop"
               PROVE  record' = record
    OBVIOUS
  <2>1. ASSUME NEW c \in Caller, Begin(c) PROVE record' = record
    <3>1. CASE RegisterApp(c)
      <4>1. pc[c] = "checked" /\ pc' = [pc EXCEPT ![c] = "registered"]
        BY <3>1 DEF RegisterApp, Goto
      <4>. QED BY <4>1 DEF IInv, CoreInv, TypeOK
    <3>. QED BY <2>1, <3>1 DEF Begin, CheckNotRunning, StartRefused, StartApp, StartAppFails,
            Stop, StopKillFails, RemoveStopped
  <2>2. ASSUME NEW c \in Caller, Continue(c) \/ RemoveApp(c) PROVE FALSE
    <3>1. pc[c] # "idle" /\ pc \in [Caller -> CallPC]
      BY <2>2 DEF Continue, NotifyStart, InsertManager, Join, NotifyStop, Relaunch,
         RelaunchFails, ReadPid, NotifyRestart, Deregister, RemoveApp, IInv, CoreInv, TypeOK
    <3>2. \E l \in CallPC : l # pc[c] /\ pc' = [pc EXCEPT ![c] = l]
      BY <2>2 DEF Continue, NotifyStart, InsertManager, Join, NotifyStop, Relaunch,
         RelaunchFails, ReadPid, NotifyRestart, Deregister, RemoveApp, Goto, Return, CallPC
    <3>. QED BY <3>1, <3>2
  <2>3. ASSUME NEW m \in Manager, WatchNotify(m) PROVE FALSE
    <3>1. Current(m) /\ ~Announcing(m) /\ watch[m] = "notify"
      BY <2>3 DEF WatchNotify
    <3>2. \A c \in Caller : pc[c] # "insert"
      BY DEF IInv, CoreInv, SilenceInv
    <3>3. registry = m /\ m # Nobody
      BY <3>1, <3>2 DEF Current
    <3>4. \A c \in Caller : pc[c] # "notifyStart"
      <4> SUFFICES ASSUME NEW c \in Caller, pc[c] = "notifyStart" PROVE FALSE
        OBVIOUS
      <4>1. target[c] = m
        BY <3>3 DEF IInv, CoreInv, TargetInv, Holding
      <4>. QED BY <3>1, <4>1 DEF Announcing
    <3>. QED BY <3>1, <3>3, <3>4 DEF IInv, CoreInv, SilenceInv
  <2>4. ASSUME NEW m \in Manager, Watch(m), ~WatchNotify(m) PROVE record' = record
    BY <2>4 DEF Watch, WatchRead, WatchReap, WaitExited, MonitorStopped, MonitorGivesUp,
       MonitorRestarts, MonitorRestartFails
  <2>5. ASSUME NEW p \in Pid, ProcExits(p) \/ KillTakesEffect(p) PROVE record' = record
    BY <2>5 DEF ProcExits, KillTakesEffect
  <2>6. CASE UNCHANGED vars
    BY <2>6 DEF vars
  <2>. QED BY <2>1, <2>2, <2>3, <2>4, <2>5, <2>6 DEF Next
<1>. QED BY <1>1, Invariance, PTL DEF Spec, ManualStopSticks
=============================================================================
