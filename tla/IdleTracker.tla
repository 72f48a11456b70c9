---------------------------- MODULE IdleTracker ----------------------------
(***************************************************************************)
(* idle.Tracker: the idle window of each application, which traffic moves, *)
(* and the goroutine that suspends the applications whose window has       *)
(* passed.                                                                 *)
(*                                                                         *)
(* Unlike the heap of ttl.Scheduler the queue is kept clean: Schedule      *)
(* replaces the entry of an application in place and Cancel takes it out.  *)
(* Touch moves a deadline in place, or drops the mutex and calls Schedule. *)
(* The goroutine never sleeps longer than a poll, so its timer may fire at *)
(* any time.                                                               *)
(***************************************************************************)
EXTENDS Integers, FiniteSets

CONSTANTS
    Caller,      \* threads that schedule, touch and cancel
    App,         \* application names
    Generation,  \* generations of an application
    Window,      \* idle timeouts callers pass
    Entry,       \* entry objects; a collected one may be made again
    None,
    MaxTime      \* bound of the model: the clock stops there

ASSUME ConstantsAssumption ==
    /\ None \notin Entry \cup App
    /\ Window \subseteq Nat
    /\ MaxTime \in Nat

VARIABLES
    now,
    entry,                         \* the entry objects
    queue, active, changed, done,  \* the fields of the Tracker
    runner,                        \* where run() is
    item,                          \* the entry whose suspension is under way
    pc,                            \* where a caller is
    arg                            \* what a Touch on its way to Schedule carries

vars == <<now, entry, queue, active, changed, done, runner, item, pc, arg>>

Time == 0..MaxTime
Deadline == {t + w : t \in Time, w \in Window} \cup {0}
Call == [app : App, generation : Generation, timeout : Window]
NoCall == [app |-> None, generation |-> None, timeout |-> None]
Object == [app : App, generation : Generation, deadline : Deadline]
NoObject == [app |-> None, generation |-> None, deadline |-> 0]

AppOf(i) == entry[i].app
DeadlineOf(i) == entry[i].deadline

TypeOK ==
    /\ now \in Time
    /\ entry \in [Entry -> Object \cup {NoObject}]
    /\ queue \subseteq Entry
    /\ active \in [App -> Entry \cup {None}]
    /\ changed \in BOOLEAN
    /\ done \in BOOLEAN
    /\ runner \in {"scan", "resting", "sleeping", "suspending", "exited"}
    /\ item \in Entry \cup {None}
    /\ pc \in [Caller -> {"idle", "schedule", "signal"}]
    /\ arg \in [Caller -> Call \cup {NoCall}]
    /\ \A c \in Caller : pc[c] = "schedule" => arg[c] \in Call

Init ==
    /\ now = 0
    /\ entry = [i \in Entry |-> NoObject]
    /\ queue = {}
    /\ active = [a \in App |-> None]
    /\ changed = FALSE
    /\ done = FALSE
    /\ runner = "scan"
    /\ item = None
    /\ pc = [c \in Caller |-> "idle"]
    /\ arg = [c \in Caller |-> NoCall]

----------------------------------------------------------------------------
(* Callers *)

\* Where an entry object may be allocated: nothing refers to what is there.
Free == {i \in Entry : i \notin queue /\ i # item /\ \A a \in App : active[a] # i}

\* Objects that are dropped are collected.
New(i, a, g, w, dropped) ==
    [e \in Entry |->
        IF e = i THEN [app |-> a, generation |-> g, deadline |-> now + w]
        ELSE IF e \in dropped THEN NoObject
        ELSE entry[e]]

\* Fault: a superseded entry stays in the queue, as in the heap of ttl.Scheduler.
ArmBeside(a, g, w) ==
    LET i == CHOOSE e \in Free : TRUE IN
    /\ entry' = New(i, a, g, w, {})
    /\ active' = [active EXCEPT ![a] = i]
    /\ queue' = queue \cup {i}

\* The section under the mutex: the new entry takes the place of the one the
\* queue has for the application, or is appended.
Arm(a, g, w) ==
    LET i == CHOOSE e \in Free : TRUE
        superseded == {e \in queue : AppOf(e) = a}
    IN
    /\ active' = [active EXCEPT ![a] = i]
    /\ \/ /\ superseded = {}
          /\ queue' = queue \cup {i}
          /\ entry' = New(i, a, g, w, {})
       \/ \E e \in superseded :
          /\ queue' = (queue \ {e}) \cup {i}
          /\ entry' = New(i, a, g, w, {e})

Schedule(c) ==
    /\ pc[c] = "idle"
    /\ Free # {}
    /\ \E a \in App, g \in Generation, w \in Window : w > 0 /\ Arm(a, g, w)
    /\ pc' = [pc EXCEPT ![c] = "signal"]
    /\ UNCHANGED <<now, changed, done, runner, item, arg>>

Serves(a, g) == active[a] # None /\ entry[active[a]].generation = g

TouchLive(c) ==
    /\ pc[c] = "idle"
    /\ \E a \in App, g \in Generation, w \in Window :
        /\ w > 0
        /\ Serves(a, g)
        /\ entry' = [entry EXCEPT ![active[a]].deadline = now + w]
    /\ pc' = [pc EXCEPT ![c] = "signal"]
    /\ UNCHANGED <<now, queue, active, changed, done, runner, item, arg>>

\* No entry, or one of another generation: the mutex is dropped before
\* Schedule takes it again.
TouchOther(c) ==
    /\ pc[c] = "idle"
    /\ \E a \in App, g \in Generation, w \in Window :
        /\ w > 0
        /\ ~Serves(a, g)
        /\ arg' = [arg EXCEPT ![c] = [app |-> a, generation |-> g, timeout |-> w]]
    /\ pc' = [pc EXCEPT ![c] = "schedule"]
    /\ UNCHANGED <<now, entry, queue, active, changed, done, runner, item>>

TouchSchedules(c) ==
    /\ pc[c] = "schedule"
    /\ Free # {}
    /\ Arm(arg[c].app, arg[c].generation, arg[c].timeout)
    /\ pc' = [pc EXCEPT ![c] = "signal"]
    /\ arg' = [arg EXCEPT ![c] = NoCall]
    /\ UNCHANGED <<now, changed, done, runner, item>>

\* Fault: the entry stays in the queue.
CancelActive(c) ==
    /\ pc[c] = "idle"
    /\ \E a \in App : active' = [active EXCEPT ![a] = None]
    /\ pc' = [pc EXCEPT ![c] = "signal"]
    /\ UNCHANGED <<now, entry, queue, changed, done, runner, item, arg>>

Cancel(c) ==
    /\ pc[c] = "idle"
    /\ \E a \in App :
        /\ active' = [active EXCEPT ![a] = None]
        /\ queue' = {e \in queue : AppOf(e) # a}
        /\ entry' = [e \in Entry |-> IF e \in queue /\ AppOf(e) = a THEN NoObject ELSE entry[e]]
    /\ pc' = [pc EXCEPT ![c] = "signal"]
    /\ UNCHANGED <<now, changed, done, runner, item, arg>>

\* The channel holds one signal; a second one adds nothing.
Signal(c) ==
    /\ pc[c] = "signal"
    /\ changed' = TRUE
    /\ pc' = [pc EXCEPT ![c] = "idle"]
    /\ UNCHANGED <<now, entry, queue, active, done, runner, item, arg>>

Close ==
    /\ ~done
    /\ done' = TRUE
    /\ UNCHANGED <<now, entry, queue, active, changed, runner, item, pc, arg>>

----------------------------------------------------------------------------
(* The goroutine: run *)

First(i) == i \in queue /\ \A j \in queue : DeadlineOf(i) <= DeadlineOf(j)

Rest ==
    /\ runner = "scan"
    /\ queue = {}
    /\ runner' = "resting"
    /\ UNCHANGED <<now, entry, queue, active, changed, done, item, pc, arg>>

\* The window of the first application has passed: its entry is taken out and
\* the mutex dropped.  From here on a touch comes too late.
Take ==
    /\ runner = "scan"
    /\ \E i \in queue :
        /\ First(i) /\ DeadlineOf(i) <= now
        /\ queue' = queue \ {i}
        /\ active' = [active EXCEPT ![AppOf(i)] = None]
        /\ item' = i
    /\ runner' = "suspending"
    /\ UNCHANGED <<now, entry, changed, done, pc, arg>>

\* suspend returns; the goroutine is the only user of pending.
SuspendReturns ==
    /\ runner = "suspending"
    /\ entry' = [entry EXCEPT ![item] = NoObject]
    /\ item' = None
    /\ runner' = "scan"
    /\ UNCHANGED <<now, queue, active, changed, done, pc, arg>>

\* Fault: the goroutine waits for a signal alone, without a poll.
SleepForGood ==
    /\ runner = "scan"
    /\ \E i \in queue : First(i) /\ DeadlineOf(i) > now
    /\ runner' = "resting"
    /\ UNCHANGED <<now, entry, queue, active, changed, done, item, pc, arg>>

Sleep ==
    /\ runner = "scan"
    /\ \E i \in queue : First(i) /\ DeadlineOf(i) > now
    /\ runner' = "sleeping"
    /\ UNCHANGED <<now, entry, queue, active, changed, done, item, pc, arg>>

WakeByPoll ==
    /\ runner = "sleeping"
    /\ runner' = "scan"
    /\ UNCHANGED <<now, entry, queue, active, changed, done, item, pc, arg>>

WakeBySignal ==
    /\ runner \in {"resting", "sleeping"}
    /\ changed
    /\ changed' = FALSE
    /\ runner' = "scan"
    /\ UNCHANGED <<now, entry, queue, active, done, item, pc, arg>>

WakeByClose ==
    /\ runner \in {"resting", "sleeping"}
    /\ done
    /\ runner' = "exited"
    /\ UNCHANGED <<now, entry, queue, active, changed, done, item, pc, arg>>

Tick ==
    /\ now < MaxTime
    /\ now' = now + 1
    /\ UNCHANGED <<entry, queue, active, changed, done, runner, item, pc, arg>>

----------------------------------------------------------------------------

Run ==
    \/ Rest \/ Take \/ SuspendReturns \/ Sleep
    \/ WakeByPoll \/ WakeBySignal \/ WakeByClose

Next ==
    \/ \E c \in Caller :
        \/ Schedule(c) \/ TouchLive(c) \/ TouchOther(c) \/ TouchSchedules(c)
        \/ Cancel(c) \/ Signal(c)
    \/ Close \/ Run \/ Tick

Spec == Init /\ [][Next]_vars

\* Goroutines are scheduled and time passes.  Nobody has to schedule, touch,
\* cancel or close.
FairSpec ==
    /\ Spec
    /\ WF_vars(Run) /\ WF_vars(Tick)
    /\ \A c \in Caller : WF_vars(Signal(c))

----------------------------------------------------------------------------
(* Properties *)

\* One idle window per application: the queue holds the active entries and
\* nothing else, whatever callers and the goroutine do to it, so no superseded
\* window is left to suspend an application in use ("leaving the old one in the
\* queue would let a stale deadline shadow the live one").
QueueIsActive ==
    /\ \A a \in App : active[a] # None => active[a] \in queue /\ AppOf(active[a]) = a
    /\ \A i \in queue : AppOf(i) # None /\ active[AppOf(i)] = i

\* The goroutine rests, without a poll, only while there is nothing to wait
\* for or while a signal is in the channel or about to be sent.
NoLostWakeup ==
    runner = "resting" /\ queue # {} =>
        changed \/ \E c \in Caller : pc[c] = "signal"

\* The entry whose suspension is under way is out of the queue.
ItemInv == (runner = "suspending" <=> item # None) /\ item \notin queue

\* The inductive invariant of the proofs.
IInv == TypeOK /\ QueueIsActive /\ NoLostWakeup /\ ItemInv

\* An application whose window has passed is suspended, unless traffic, a
\* cancel or a new schedule comes first or the tracker is closed.
IdleIsSuspended ==
    \A a \in App :
        (active[a] # None /\ DeadlineOf(active[a]) <= now) ~>
            (active[a] = None \/ DeadlineOf(active[a]) > now \/ done)

\* The promise kept: see Deadlines.  Schedule and Touch set the one deadline of
\* an application and a suspension begins only when that deadline is due.
Promise == INSTANCE Deadlines WITH
    Key <- App,
    Time <- Deadline,
    deadline <- [a \in App |-> IF active[a] = None THEN -1 ELSE DeadlineOf(active[a])],
    running  <- IF item = None THEN None ELSE AppOf(item)
PromiseSpec == Promise!Spec
=============================================================================
