--------------------------- MODULE TtlScheduler ---------------------------
(***************************************************************************)
(* ttl.Scheduler: the heap of entries, the active entry of each key, the   *)
(* wake-up channel with room for one signal, and the goroutine that sleeps *)
(* until the first deadline and calls back without the mutex.              *)
(*                                                                         *)
(* Each section under the mutex is a step, but the goroutine drops one     *)
(* stale entry a step: more interleavings than the code has.  The heap is  *)
(* a set whose first entries are those with the earliest deadline.  An     *)
(* entry stands for its generation: no two of them share one.              *)
(***************************************************************************)
EXTENDS Integers, FiniteSets

CONSTANTS
    Caller,   \* threads that schedule and cancel
    Key,      \* application names
    Entry,    \* the entry objects Schedule may create
    None,     \* no entry
    MaxTime   \* bound of the model: the clock stops there

ASSUME ConstantsAssumption ==
    /\ None \notin Entry
    /\ MaxTime \in Nat

VARIABLES
    now,
    key, expiresAt,  \* the fields of the entries
    made,            \* the entries created so far
    queue, active, changed, done,  \* the fields of the Scheduler
    runner,          \* where run() is
    item,            \* the entry whose callback it is in
    timer,           \* the time it sleeps until
    pc,              \* whether a caller still has to signal
    revoked,         \* history: entries cancelled or replaced while active
    fired            \* history: entries whose callback has returned

entryVars == <<key, expiresAt, made>>
histVars  == <<revoked, fired>>
vars == <<now, entryVars, queue, active, changed, done, runner, item, timer, pc, histVars>>

Time == 0..MaxTime

TypeOK ==
    /\ now \in Time
    /\ made \subseteq Entry
    /\ key \in [Entry -> Key \cup {None}]
    /\ \A i \in made : key[i] \in Key
    /\ expiresAt \in [Entry -> Time]
    /\ queue \subseteq made
    /\ active \in [Key -> made \cup {None}]
    /\ changed \in BOOLEAN
    /\ done \in BOOLEAN
    /\ runner \in {"scan", "resting", "sleeping", "calling", "exited"}
    /\ item \in made \cup {None}
    /\ timer \in Time
    /\ pc \in [Caller -> {"idle", "signal"}]
    /\ revoked \subseteq made
    /\ fired \subseteq made

Init ==
    /\ now = 0
    /\ made = {}
    /\ key = [i \in Entry |-> None]
    /\ expiresAt = [i \in Entry |-> 0]
    /\ queue = {}
    /\ active = [k \in Key |-> None]
    /\ changed = FALSE
    /\ done = FALSE
    /\ runner = "scan"
    /\ item = None
    /\ timer = 0
    /\ pc = [c \in Caller |-> "idle"]
    /\ revoked = {}
    /\ fired = {}

----------------------------------------------------------------------------
(* Callers *)

\* The section under the mutex: a new entry, whose deadline may have passed
\* already, becomes the active one of its key; the entry it replaces stays in
\* the heap.
Push(k, i, t) ==
    /\ made' = made \cup {i}
    /\ key' = [key EXCEPT ![i] = k]
    /\ expiresAt' = [expiresAt EXCEPT ![i] = t]
    /\ queue' = queue \cup {i}
    /\ active' = [active EXCEPT ![k] = i]
    /\ revoked' = revoked \cup ({active[k]} \ {None})

Schedule(c) ==
    /\ pc[c] = "idle"
    /\ \E k \in Key, i \in Entry \ made, t \in Time : Push(k, i, t)
    /\ pc' = [pc EXCEPT ![c] = "signal"]
    /\ UNCHANGED <<now, changed, done, runner, item, timer, fired>>

Cancel(c) ==
    /\ pc[c] = "idle"
    /\ \E k \in Key :
        /\ active' = [active EXCEPT ![k] = None]
        /\ revoked' = revoked \cup ({active[k]} \ {None})
    /\ pc' = [pc EXCEPT ![c] = "signal"]
    /\ UNCHANGED <<now, entryVars, queue, changed, done, runner, item, timer, fired>>

\* The channel holds one signal; a second one adds nothing.
Signal(c) ==
    /\ pc[c] = "signal"
    /\ changed' = TRUE
    /\ pc' = [pc EXCEPT ![c] = "idle"]
    /\ UNCHANGED <<now, entryVars, queue, active, done, runner, item, timer, histVars>>

Close ==
    /\ ~done
    /\ done' = TRUE
    /\ UNCHANGED <<now, entryVars, queue, active, changed, runner, item, timer, pc, histVars>>

----------------------------------------------------------------------------
(* The goroutine: run *)

\* An entry the heap may have at its top.
First(i) == i \in queue /\ \A j \in queue : expiresAt[i] <= expiresAt[j]
Current(i) == active[key[i]] = i

\* Fault: the top entry is dropped without looking at it.
DropAny ==
    /\ runner = "scan"
    /\ \E i \in queue : First(i) /\ queue' = queue \ {i}
    /\ UNCHANGED <<now, entryVars, active, changed, done, runner, item, timer, pc, histVars>>

Drop ==
    /\ runner = "scan"
    /\ \E i \in queue : First(i) /\ ~Current(i) /\ queue' = queue \ {i}
    /\ UNCHANGED <<now, entryVars, active, changed, done, runner, item, timer, pc, histVars>>

\* Fault: the goroutine ends when there is nothing to wait for.
RestForGood ==
    /\ runner = "scan"
    /\ queue = {}
    /\ runner' = "exited"
    /\ UNCHANGED <<now, entryVars, queue, active, changed, done, item, timer, pc, histVars>>

Rest ==
    /\ runner = "scan"
    /\ queue = {}
    /\ runner' = "resting"
    /\ UNCHANGED <<now, entryVars, queue, active, changed, done, item, timer, pc, histVars>>

\* Fault: the entry stays active.
TakeActive ==
    /\ runner = "scan"
    /\ \E i \in queue :
        /\ First(i) /\ Current(i) /\ expiresAt[i] <= now
        /\ queue' = queue \ {i}
        /\ item' = i
    /\ runner' = "calling"
    /\ UNCHANGED <<now, entryVars, active, changed, done, timer, pc, histVars>>

\* The first entry is due: from here on Cancel comes too late for it.
Take ==
    /\ runner = "scan"
    /\ \E i \in queue :
        /\ First(i) /\ Current(i) /\ expiresAt[i] <= now
        /\ queue' = queue \ {i}
        /\ active' = [active EXCEPT ![key[i]] = None]
        /\ item' = i
    /\ runner' = "calling"
    /\ UNCHANGED <<now, entryVars, changed, done, timer, pc, histVars>>

\* The callback returns; it ran without the mutex.
Call ==
    /\ runner = "calling"
    /\ fired' = fired \cup {item}
    /\ item' = None
    /\ runner' = "scan"
    /\ UNCHANGED <<now, entryVars, queue, active, changed, done, timer, pc, revoked>>

Sleep ==
    /\ runner = "scan"
    /\ \E i \in queue :
        /\ First(i) /\ Current(i) /\ expiresAt[i] > now
        /\ timer' = expiresAt[i]
    /\ runner' = "sleeping"
    /\ UNCHANGED <<now, entryVars, queue, active, changed, done, item, pc, histVars>>

WakeByTimer ==
    /\ runner = "sleeping"
    /\ timer <= now
    /\ runner' = "scan"
    /\ UNCHANGED <<now, entryVars, queue, active, changed, done, item, timer, pc, histVars>>

WakeBySignal ==
    /\ runner \in {"resting", "sleeping"}
    /\ changed
    /\ changed' = FALSE
    /\ runner' = "scan"
    /\ UNCHANGED <<now, entryVars, queue, active, done, item, timer, pc, histVars>>

\* done is looked at only while the goroutine waits: entries that are due
\* already are still called.
WakeByClose ==
    /\ runner \in {"resting", "sleeping"}
    /\ done
    /\ runner' = "exited"
    /\ UNCHANGED <<now, entryVars, queue, active, changed, done, item, timer, pc, histVars>>

Tick ==
    /\ now < MaxTime
    /\ now' = now + 1
    /\ UNCHANGED <<entryVars, queue, active, changed, done, runner, item, timer, pc, histVars>>

----------------------------------------------------------------------------

Run ==
    \/ Drop \/ Rest \/ Take \/ Call \/ Sleep
    \/ WakeByTimer \/ WakeBySignal \/ WakeByClose

Next ==
    \/ \E c \in Caller : Schedule(c) \/ Cancel(c) \/ Signal(c)
    \/ Close \/ Run \/ Tick

Spec == Init /\ [][Next]_vars

\* Goroutines are scheduled, time passes, and callbacks return.  Nobody has to
\* schedule, cancel or close.
FairSpec ==
    /\ Spec
    /\ WF_vars(Run) /\ WF_vars(Tick)
    /\ \A c \in Caller : WF_vars(Signal(c))

----------------------------------------------------------------------------
(* Properties *)

\* A callback is begun only for an entry that is due, that had not been
\* cancelled or replaced by then, and that was not called back before.
CallIsJustified ==
    runner = "calling" =>
        /\ expiresAt[item] <= now
        /\ item \notin revoked \cup fired

\* The goroutine never waits past a deadline: if the entry of a key is due
\* before the timer, or there is no timer, a signal is in the channel or a
\* caller is about to send one.
NoLostWakeup ==
    \A k \in Key :
        active[k] # None /\ runner \in {"resting", "sleeping"} =>
            \/ runner = "sleeping" /\ timer <= expiresAt[active[k]]
            \/ changed
            \/ \E c \in Caller : pc[c] = "signal"

\* The inductive invariant of the proofs: the active entry of a key is in the
\* heap and untouched, the heap holds nothing that was taken, and a callback is
\* justified.
ActiveInv ==
    \A k \in Key : active[k] # None =>
        /\ active[k] \in queue
        /\ key[active[k]] = k
        /\ active[k] \notin revoked
QueueInv == \A i \in queue : i # item /\ i \notin fired
ItemInv ==
    /\ runner = "calling" <=> item # None
    /\ CallIsJustified
IInv == TypeOK /\ ActiveInv /\ QueueInv /\ ItemInv /\ NoLostWakeup

\* Every entry that stays active is called back once it is due, unless the
\* scheduler is closed.
DueIsCalled ==
    \A i \in Entry :
        (i \in made /\ expiresAt[i] <= now) ~> (i \in fired \cup revoked \/ done)

\* The promise kept: see Deadlines.
Promise == INSTANCE Deadlines WITH
    deadline <- [k \in Key |-> IF active[k] = None THEN -1 ELSE expiresAt[active[k]]],
    running  <- IF item = None THEN None ELSE key[item]
PromiseSpec == Promise!Spec
=============================================================================
