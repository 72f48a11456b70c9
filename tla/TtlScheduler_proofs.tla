------------------------ MODULE TtlScheduler_proofs ------------------------
(***************************************************************************)
(* Proofs about TtlScheduler, for any set of callers, keys and entries and *)
(* any horizon: its inductive invariant, what follows from it, and that    *)
(* the scheduler implements Deadlines.                                     *)
(***************************************************************************)
EXTENDS TtlScheduler, TLAPS

\* A call or tick that leaves the clock within its bound.
LEMMA TickInTime ==
    ASSUME now \in Time, now < MaxTime
    PROVE  now + 1 \in Time
  BY ConstantsAssumption DEF Time

\* The invariant holds at the start: nothing is scheduled.
LEMMA InitInv == Init => IInv
  <1> SUFFICES ASSUME Init
               PROVE  IInv
    OBVIOUS
  <1> USE DEF Init
  <1>1. TypeOK
    <2>1. 0 \in Time
      BY ConstantsAssumption DEF Time
    <2>2. key \in [Entry -> Key \cup {None}] /\ active \in [Key -> made \cup {None}]
      OBVIOUS
    <2>3. expiresAt \in [Entry -> Time] /\ pc \in [Caller -> {"idle", "signal"}]
      BY <2>1
    <2> QED
      BY <2>1, <2>2, <2>3 DEF TypeOK
  <1>2. ActiveInv /\ QueueInv /\ NoLostWakeup
    BY DEF ActiveInv, QueueInv, NoLostWakeup
  <1>3. ItemInv
    BY DEF ItemInv, CallIsJustified
  <1> QED
    BY <1>1, <1>2, <1>3 DEF IInv

\* Every step keeps the types.
LEMMA TypeStep ==
    ASSUME TypeOK, ItemInv, [Next]_vars
    PROVE  TypeOK'
  <1> USE DEF TypeOK
  <1>1. CASE UNCHANGED vars
    BY <1>1 DEF vars, entryVars, histVars
  <1>2. ASSUME NEW c \in Caller, Schedule(c)
        PROVE  TypeOK'
    BY <1>2 DEF Schedule, Push
  <1>3. ASSUME NEW c \in Caller, Cancel(c)
        PROVE  TypeOK'
    BY <1>3 DEF Cancel, entryVars
  <1>4. ASSUME NEW c \in Caller, Signal(c)
        PROVE  TypeOK'
    BY <1>4 DEF Signal, entryVars, histVars
  <1>5. CASE Close
    BY <1>5 DEF Close, entryVars, histVars
  <1>6. CASE Drop \/ Rest
    BY <1>6 DEF Drop, Rest, entryVars, histVars
  <1>7. CASE Take
    BY <1>7 DEF Take, entryVars, histVars
  <1>8. CASE Call
    BY <1>8 DEF Call, ItemInv, entryVars
  <1>9. CASE Sleep
    BY <1>9 DEF Sleep, entryVars, histVars
  <1>10. CASE WakeByTimer \/ WakeBySignal \/ WakeByClose
    BY <1>10 DEF WakeByTimer, WakeBySignal, WakeByClose, entryVars, histVars
  <1>11. CASE Tick
    BY <1>11, TickInTime DEF Tick, entryVars, histVars
  <1> QED
    BY <1>1, <1>2, <1>3, <1>4, <1>5, <1>6, <1>7, <1>8, <1>9, <1>10, <1>11 DEF Next, Run

\* An active entry is an entry, with a deadline.
LEMMA ActiveTyping ==
    ASSUME TypeOK, NEW k \in Key, active[k] # None
    PROVE  active[k] \in Entry /\ expiresAt[active[k]] \in Int
  BY ConstantsAssumption DEF TypeOK, Time

\* Every step keeps the active entries in the heap and untouched.
LEMMA ActiveStep ==
    ASSUME TypeOK, ActiveInv, [Next]_vars
    PROVE  ActiveInv'
  <1> USE DEF ActiveInv
  <1>1. CASE UNCHANGED vars
    BY <1>1 DEF vars, entryVars, histVars
  <1>2. ASSUME NEW c \in Caller, Schedule(c)
        PROVE  ActiveInv'
    <2>1. PICK k \in Key, i \in Entry \ made, t \in Time : Push(k, i, t)
      BY <1>2 DEF Schedule
    <2> SUFFICES ASSUME NEW j \in Key, active'[j] # None
                 PROVE  active'[j] \in queue' /\ key'[active'[j]] = j /\ active'[j] \notin revoked'
      OBVIOUS
    <2>2. CASE j = k
      <3>1. active'[j] = i
        BY <2>1, <2>2 DEF Push, TypeOK
      <3>2. i \notin revoked /\ i # active[k]
        BY ConstantsAssumption, <2>1 DEF TypeOK
      <3> QED
        BY <2>1, <2>2, <3>1, <3>2 DEF Push, TypeOK
    <2>3. CASE j # k
      <3>1. active'[j] = active[j] /\ active[j] # i
        BY ConstantsAssumption, <2>1, <2>3 DEF Push, TypeOK
      <3>2. key'[active[j]] = j /\ active[j] \in queue'
        BY <2>1, <3>1 DEF Push, TypeOK
      <3>3. active[j] # active[k]
        BY <2>3, <3>1
      <3> QED
        BY <2>1, <3>1, <3>2, <3>3 DEF Push
    <2> QED
      BY <2>2, <2>3
  <1>3. ASSUME NEW c \in Caller, Cancel(c)
        PROVE  ActiveInv'
    BY <1>3 DEF Cancel, entryVars, TypeOK
  <1>4. CASE Drop
    BY <1>4 DEF Drop, Current, entryVars, histVars, TypeOK
  <1>5. CASE Take
    BY <1>5 DEF Take, Current, entryVars, histVars, TypeOK
  <1>6. ASSUME UNCHANGED <<entryVars, queue, active, revoked>>
        PROVE  ActiveInv'
    BY <1>6 DEF entryVars
  <1>7. ASSUME NEW c \in Caller, Signal(c)
        PROVE  ActiveInv'
    BY <1>6, <1>7 DEF Signal, histVars
  <1>8. CASE Close \/ Rest \/ Call \/ Sleep \/ Tick
    BY <1>6, <1>8 DEF Close, Rest, Call, Sleep, Tick, histVars
  <1>9. CASE WakeByTimer \/ WakeBySignal \/ WakeByClose
    BY <1>6, <1>9 DEF WakeByTimer, WakeBySignal, WakeByClose, histVars
  <1> QED
    BY <1>1, <1>2, <1>3, <1>4, <1>5, <1>7, <1>8, <1>9 DEF Next, Run

\* Every step keeps what was taken out of the heap, and every callback justified.
LEMMA QueueItemStep ==
    ASSUME TypeOK, ActiveInv, QueueInv, ItemInv, [Next]_vars
    PROVE  QueueInv' /\ ItemInv'
  <1> USE DEF QueueInv, ItemInv, CallIsJustified
  <1>1. CASE UNCHANGED vars
    BY <1>1 DEF vars, entryVars, histVars
  <1>2. ASSUME NEW c \in Caller, Schedule(c)
        PROVE  QueueInv' /\ ItemInv'
    <2>1. PICK k \in Key, i \in Entry \ made, t \in Time : Push(k, i, t)
      BY <1>2 DEF Schedule
    <2>2. UNCHANGED <<now, runner, item, fired>>
      BY <1>2 DEF Schedule
    <2>3. i # item /\ i \notin fired
      BY ConstantsAssumption, <2>1 DEF TypeOK
    <2>4. QueueInv'
      BY <2>1, <2>2, <2>3 DEF Push
    <2>5. ASSUME runner = "calling"
          PROVE  expiresAt'[item] <= now /\ item \notin revoked' \cup fired
      <3>1. item \in made /\ item \notin revoked /\ expiresAt[item] <= now
        BY <2>5 DEF TypeOK
      <3>2. expiresAt'[item] = expiresAt[item]
        BY <2>1, <2>3, <3>1 DEF Push, TypeOK
      <3>3. active[k] # item
        BY <3>1, ConstantsAssumption DEF ActiveInv, TypeOK
      <3> QED
        BY <2>1, <2>5, <3>1, <3>2, <3>3 DEF Push
    <2> QED
      BY <2>2, <2>4, <2>5
  <1>3. ASSUME NEW c \in Caller, Cancel(c)
        PROVE  QueueInv' /\ ItemInv'
    <2>1. PICK k \in Key : revoked' = revoked \cup ({active[k]} \ {None})
      BY <1>3 DEF Cancel
    <2>2. UNCHANGED <<now, expiresAt, queue, runner, item, fired>>
      BY <1>3 DEF Cancel, entryVars
    <2>3. active[k] # None => active[k] # item
      BY DEF ActiveInv
    <2> QED
      BY <2>1, <2>2, <2>3
  <1>4. CASE Drop
    BY <1>4 DEF Drop, entryVars, histVars
  <1>5. CASE Take
    BY <1>5, ConstantsAssumption DEF Take, Current, ActiveInv, entryVars, histVars, TypeOK
  <1>6. CASE Call
    BY <1>6, ConstantsAssumption DEF Call, entryVars, TypeOK
  <1>7. ASSUME UNCHANGED <<now, entryVars, queue, item, histVars>>,
               runner # "calling", runner' # "calling"
        PROVE  QueueInv' /\ ItemInv'
    BY <1>7 DEF entryVars, histVars
  <1>8. CASE Rest \/ Sleep \/ WakeByTimer \/ WakeBySignal \/ WakeByClose
    BY <1>7, <1>8 DEF Rest, Sleep, WakeByTimer, WakeBySignal, WakeByClose
  <1>9. ASSUME NEW c \in Caller, Signal(c)
        PROVE  QueueInv' /\ ItemInv'
    BY <1>9 DEF Signal, entryVars, histVars
  <1>10. CASE Close
    BY <1>10 DEF Close, entryVars, histVars
  <1>11. CASE Tick
    BY <1>11 DEF Tick, entryVars, histVars, TypeOK, Time
  <1> QED
    BY <1>1, <1>2, <1>3, <1>4, <1>5, <1>6, <1>8, <1>9, <1>10, <1>11 DEF Next, Run

\* Every step keeps the goroutine's wake-up in time.
LEMMA WakeupStep ==
    ASSUME TypeOK, ActiveInv, NoLostWakeup, [Next]_vars
    PROVE  NoLostWakeup'
  <1> USE DEF NoLostWakeup
  <1>1. CASE UNCHANGED vars
    BY <1>1 DEF vars, entryVars, histVars
  <1>2. ASSUME NEW c \in Caller, Schedule(c) \/ Cancel(c)
        PROVE  NoLostWakeup'
    <2>1. pc'[c] = "signal"
      BY <1>2 DEF Schedule, Cancel, TypeOK
    <2> QED
      BY <2>1
  <1>3. ASSUME NEW c \in Caller, Signal(c)
        PROVE  NoLostWakeup'
    BY <1>3 DEF Signal
  <1>4. CASE Rest
    BY <1>4 DEF Rest, ActiveInv, entryVars
  <1>5. CASE Sleep
    <2>1. PICK i \in queue : First(i) /\ timer' = expiresAt[i]
      BY <1>5 DEF Sleep
    <2>2. UNCHANGED <<active, expiresAt>> /\ runner' = "sleeping"
      BY <1>5 DEF Sleep, entryVars
    <2>3. ASSUME NEW k \in Key, active[k] # None
          PROVE  timer' <= expiresAt[active[k]]
      BY <2>1, <2>3 DEF First, ActiveInv
    <2> QED
      BY <2>2, <2>3
  <1>6. CASE Drop
    BY <1>6 DEF Drop
  <1>7. CASE Take \/ Call
    BY <1>7 DEF Take, Call
  <1>8. CASE WakeByTimer \/ WakeBySignal \/ WakeByClose
    BY <1>8 DEF WakeByTimer, WakeBySignal, WakeByClose
  <1>9. CASE Close \/ Tick
    BY <1>9 DEF Close, Tick, entryVars
  <1> QED
    BY <1>1, <1>2, <1>3, <1>4, <1>5, <1>6, <1>7, <1>8, <1>9 DEF Next, Run

\* The inductive invariant holds in every reachable state of the scheduler.
THEOREM Invariance == Spec => []IInv
  <1>1. IInv /\ [Next]_vars => IInv'
    BY TypeStep, ActiveStep, QueueItemStep, WakeupStep DEF IInv
  <1> QED
    BY InitInv, <1>1, PTL DEF Spec

\* The types are right in every reachable state.
THEOREM TypeCorrect == Spec => []TypeOK
  BY Invariance, PTL DEF IInv

\* Every callback is begun for an entry that is due, current and not called yet.
THEOREM CallsJustified == Spec => []CallIsJustified
  BY Invariance, PTL DEF IInv, ItemInv

\* The goroutine never waits past the deadline of an active entry unsignalled.
THEOREM WakeupNotLost == Spec => []NoLostWakeup
  BY Invariance, PTL DEF IInv

----------------------------------------------------------------------------
(* The scheduler implements Deadlines *)

\* The deadline and the running callback, as Deadlines sees them.
Pending == [k \in Key |-> IF active[k] = None THEN -1 ELSE expiresAt[active[k]]]
Running == IF item = None THEN None ELSE key[item]

\* A step that leaves the active entries, the callback and the clock alone is
\* none of the promise's business.
LEMMA Unseen ==
    ASSUME UNCHANGED <<entryVars, active, item, now>>
    PROVE  UNCHANGED <<Pending, Running, now>>
  BY DEF Pending, Running, entryVars

\* Scheduling arms the key, with any deadline.
LEMMA ScheduleArms ==
    ASSUME IInv, NEW c \in Caller, Schedule(c)
    PROVE  \E k \in Key : /\ \E t \in Time : Pending' = [Pending EXCEPT ![k] = t]
                          /\ UNCHANGED <<Running, now>>
  <1>1. PICK k \in Key, i \in Entry \ made, t \in Time : Push(k, i, t)
    BY DEF Schedule
  <1>2. i # None /\ i # item /\ \A j \in Key : active[j] # i
    BY ConstantsAssumption DEF IInv, TypeOK
  <1>3. Running' = Running
    BY <1>1, <1>2 DEF Push, Schedule, Running, IInv, TypeOK
  <1>4. ASSUME NEW j \in Key
        PROVE  Pending'[j] = IF j = k THEN t ELSE Pending[j]
    <2>1. CASE j = k
      BY <1>1, <1>2, <2>1 DEF Push, Pending, IInv, TypeOK
    <2>2. CASE j # k
      <3>1. active'[j] = active[j]
        BY <1>1, <2>2 DEF Push, IInv, TypeOK
      <3>2. active[j] # None => expiresAt'[active[j]] = expiresAt[active[j]]
        BY <1>1, <1>2 DEF Push, IInv, TypeOK
      <3> QED
        BY <2>2, <3>1, <3>2 DEF Pending
    <2> QED
      BY <2>1, <2>2
  <1>5. Pending' = [Pending EXCEPT ![k] = t]
    BY <1>4 DEF Pending
  <1> QED
    BY <1>3, <1>5 DEF Schedule

\* Cancelling withdraws the deadline.
LEMMA CancelDisarms ==
    ASSUME IInv, NEW c \in Caller, Cancel(c)
    PROVE  \E k \in Key : Pending' = [Pending EXCEPT ![k] = -1] /\ UNCHANGED <<Running, now>>
  <1>1. PICK k \in Key : active' = [active EXCEPT ![k] = None]
    BY DEF Cancel
  <1>2. Pending' = [Pending EXCEPT ![k] = -1]
    BY <1>1 DEF Cancel, Pending, entryVars, IInv, TypeOK
  <1> QED
    BY <1>2 DEF Cancel, Running, entryVars

\* Taking an entry expires its key: the deadline is due and goes, and no other
\* callback is running.
LEMMA TakeExpires ==
    ASSUME IInv, Take
    PROVE  \E k \in Key : /\ Running = None
                          /\ Pending[k] # -1
                          /\ Pending[k] <= now
                          /\ Pending' = [Pending EXCEPT ![k] = -1]
                          /\ Running' = k
                          /\ now' = now
  <1>1. PICK i \in queue : /\ Current(i)
                           /\ expiresAt[i] <= now
                           /\ active' = [active EXCEPT ![key[i]] = None]
                           /\ item' = i
    BY DEF Take
  <1>2. i \in Entry /\ i # None /\ key[i] \in Key /\ expiresAt[i] \in 0..MaxTime
    BY ConstantsAssumption DEF IInv, TypeOK, Time
  <1>3. Running = None
    BY DEF Take, Running, IInv, ItemInv
  <1>4. Pending[key[i]] = expiresAt[i]
    BY <1>1, <1>2 DEF Pending, Current
  <1>5. Pending' = [Pending EXCEPT ![key[i]] = -1]
    BY <1>1, <1>2 DEF Take, Pending, entryVars, IInv, TypeOK
  <1>6. Running' = key[i]
    BY <1>1, <1>2 DEF Take, Running, entryVars
  <1>7. expiresAt[i] # -1 /\ expiresAt[i] <= now
    BY <1>1, <1>2, ConstantsAssumption
  <1>8. now' = now
    BY DEF Take
  <1> HIDE DEF Pending, Running
  <1>9. Pending[key[i]] # -1 /\ Pending[key[i]] <= now
    BY <1>4, <1>7
  <1> QED
    BY <1>2, <1>3, <1>5, <1>6, <1>8, <1>9

\* Every step is one the promise allows, or is not seen.
LEMMA StepImplements ==
    ASSUME IInv, [Next]_vars
    PROVE  [Promise!Next]_<<Pending, Running, now>>
  <1> USE DEF Promise!Next
  <1>1. ASSUME NEW c \in Caller, Schedule(c)
        PROVE  Promise!Next
    BY <1>1, ScheduleArms DEF Promise!Arm, Pending, Running
  <1>2. ASSUME NEW c \in Caller, Cancel(c)
        PROVE  Promise!Next
    BY <1>2, CancelDisarms DEF Promise!Disarm, Promise!Never, Pending, Running
  <1>3. CASE Take
    BY <1>3, TakeExpires DEF Promise!Expire, Promise!Never, Pending, Running
  <1>4. CASE Call
    <2>1. Pending' = Pending /\ Running' = None /\ now' = now
      BY <1>4 DEF Call, Pending, Running, entryVars
    <2> QED
      BY <2>1 DEF Promise!Return, Pending, Running
  <1>5. CASE Tick
    <2>1. Pending' = Pending /\ Running' = Running /\ now' = now + 1
      BY <1>5 DEF Tick, Pending, Running, entryVars
    <2> QED
      BY <2>1 DEF Promise!Tick, Pending, Running
  <1>6. ASSUME NEW c \in Caller, Signal(c)
        PROVE  UNCHANGED <<Pending, Running, now>>
    BY <1>6, Unseen DEF Signal
  <1>7. CASE Close \/ Drop \/ Rest \/ Sleep
    BY <1>7, Unseen DEF Close, Drop, Rest, Sleep
  <1>8. CASE WakeByTimer \/ WakeBySignal \/ WakeByClose
    BY <1>8, Unseen DEF WakeByTimer, WakeBySignal, WakeByClose
  <1>9. CASE UNCHANGED vars
    BY <1>9, Unseen DEF vars
  <1> QED
    BY <1>1, <1>2, <1>3, <1>4, <1>5, <1>6, <1>7, <1>8, <1>9 DEF Next, Run

\* The scheduler implements its promise: a callback is begun only at a deadline
\* that was set last and not withdrawn, takes it along, and runs alone.
THEOREM Implements == Spec => PromiseSpec
  <1>1. Init => Promise!Init
    BY DEF Init, Promise!Init, Promise!Never
  <1>2. IInv /\ [Next]_vars => [Promise!Next]_<<Pending, Running, now>>
    BY StepImplements
  <1> QED
    BY <1>1, <1>2, Invariance, PTL DEF Spec, PromiseSpec, Promise!Spec, Pending, Running
=============================================================================
