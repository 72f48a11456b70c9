------------------------- MODULE IdleTracker_proofs -------------------------
(***************************************************************************)
(* Proofs about IdleTracker, for any set of callers, applications, windows *)
(* and entries and any horizon: its inductive invariant, and that the      *)
(* tracker implements Deadlines, the promise ttl.Scheduler keeps too.      *)
(***************************************************************************)
EXTENDS IdleTracker, TLAPS

\* Deadlines are natural numbers, and what a caller sets is one.
LEMMA DeadlineTyping ==
    /\ Deadline \subseteq Nat
    /\ 0 \in Deadline
    /\ \A t \in Time, w \in Window : t + w \in Deadline
  BY ConstantsAssumption DEF Deadline, Time

\* What an entry object holds.
LEMMA EntryTyping ==
    ASSUME TypeOK, NEW i \in Entry
    PROVE  /\ AppOf(i) \in App \cup {None}
           /\ DeadlineOf(i) \in Deadline
           /\ AppOf(i) # None => entry[i] \in Object
  <1>1. entry[i] \in Object \cup {NoObject}
    BY DEF TypeOK
  <1>2. CASE entry[i] \in Object
    BY <1>2 DEF Object, AppOf, DeadlineOf
  <1>3. CASE entry[i] = NoObject
    BY <1>3, DeadlineTyping DEF NoObject, AppOf, DeadlineOf
  <1> QED
    BY <1>1, <1>2, <1>3

\* The active entry of an application is an entry of that application.
LEMMA ActiveTyping ==
    ASSUME TypeOK, QueueIsActive, NEW a \in App, active[a] # None
    PROVE  /\ active[a] \in Entry /\ active[a] \in queue
           /\ AppOf(active[a]) = a
           /\ entry[active[a]] \in Object
           /\ DeadlineOf(active[a]) \in Deadline
  <1>1. active[a] \in Entry /\ active[a] \in queue /\ AppOf(active[a]) = a
    BY DEF TypeOK, QueueIsActive
  <1>2. a # None
    BY ConstantsAssumption
  <1> QED
    BY <1>1, <1>2, EntryTyping

\* An entry in the queue is the active one of an application.
LEMMA QueueTyping ==
    ASSUME TypeOK, QueueIsActive, NEW i \in queue
    PROVE  /\ i \in Entry /\ i # None
           /\ AppOf(i) \in App
           /\ active[AppOf(i)] = i
           /\ DeadlineOf(i) \in Deadline
  <1>1. i \in Entry /\ i # None
    BY ConstantsAssumption DEF TypeOK
  <1>2. AppOf(i) # None /\ active[AppOf(i)] = i
    BY DEF QueueIsActive
  <1> QED
    BY <1>1, <1>2, EntryTyping

\* A new entry of an application takes the place of the one the queue had; the
\* other entries in use are left alone.
ArmsWith(a, g, w, i) ==
    /\ i \in Entry /\ i # item /\ i # None
    /\ active' = [active EXCEPT ![a] = i]
    /\ queue' = {e \in queue : AppOf(e) # a} \cup {i}
    /\ entry' \in [Entry -> Object \cup {NoObject}]
    /\ entry'[i] = [app |-> a, generation |-> g, deadline |-> now + w]
    /\ \A e \in Entry : (e \in queue /\ AppOf(e) # a) \/ (e = item /\ e \notin queue) => entry'[e] = entry[e]
    /\ \A e \in queue : e # i

LEMMA ArmEffect ==
    ASSUME TypeOK, QueueIsActive, Free # {},
           NEW a \in App, NEW g \in Generation, NEW w \in Window, Arm(a, g, w)
    PROVE  \E i \in Entry : ArmsWith(a, g, w, i)
  <1> DEFINE i == CHOOSE e \in Free : TRUE
             o == [app |-> a, generation |-> g, deadline |-> now + w]
  <1>1. i \in Free
    OBVIOUS
  <1>2. i \in Entry /\ i \notin queue /\ i # item /\ i # None
    BY <1>1, ConstantsAssumption DEF Free
  <1>3. o \in Object
    BY DeadlineTyping DEF Object, TypeOK
  <1>4. \A dropped : New(i, a, g, w, dropped) \in [Entry -> Object \cup {NoObject}]
    <2> SUFFICES ASSUME NEW dropped, NEW e \in Entry
                 PROVE  (IF e = i THEN o ELSE IF e \in dropped THEN NoObject ELSE entry[e])
                            \in Object \cup {NoObject}
      BY DEF New
    <2>1. entry[e] \in Object \cup {NoObject}
      BY DEF TypeOK
    <2> HIDE DEF o, i
    <2> QED
      BY <1>3, <2>1
  <1>5. PICK dropped \in SUBSET queue :
            /\ active' = [active EXCEPT ![a] = i]
            /\ queue' = (queue \ dropped) \cup {i}
            /\ entry' = New(i, a, g, w, dropped)
            /\ dropped = {e \in queue : AppOf(e) = a}
    <2> DEFINE superseded == {e \in queue : AppOf(e) = a}
    <2>1. CASE superseded = {} /\ queue' = queue \cup {i} /\ entry' = New(i, a, g, w, {})
      BY <2>1 DEF Arm
    <2>2. ASSUME NEW e \in superseded,
                 queue' = (queue \ {e}) \cup {i}, entry' = New(i, a, g, w, {e})
          PROVE  superseded = {e}
      BY QueueTyping
    <2>3. CASE \E e \in superseded : queue' = (queue \ {e}) \cup {i} /\ entry' = New(i, a, g, w, {e})
      BY <2>2, <2>3 DEF Arm
    <2> QED
      BY <2>1, <2>3 DEF Arm
  <1>6. entry'[i] = o
    BY <1>2, <1>5 DEF New
  <1>7. ASSUME NEW e \in Entry, (e \in queue /\ AppOf(e) # a) \/ (e = item /\ e \notin queue)
        PROVE  entry'[e] = entry[e]
    BY <1>2, <1>5, <1>7 DEF New
  <1>8. queue' = {e \in queue : AppOf(e) # a} \cup {i}
    BY <1>5
  <1> HIDE DEF i
  <1> QED
    BY <1>2, <1>4, <1>5, <1>6, <1>7, <1>8 DEF ArmsWith

\* The sections that arm: Schedule, called by a user or by a Touch.
LEMMA Arms ==
    ASSUME TypeOK, QueueIsActive, NEW c \in Caller, Schedule(c) \/ TouchSchedules(c)
    PROVE  \E a \in App, g \in Generation, w \in Window, i \in Entry : ArmsWith(a, g, w, i)
  <1>1. CASE Schedule(c)
    BY <1>1, ArmEffect DEF Schedule
  <1>2. CASE TouchSchedules(c)
    <2>1. arg[c] \in Call
      BY <1>2 DEF TouchSchedules, TypeOK
    <2>2. arg[c].app \in App /\ arg[c].generation \in Generation /\ arg[c].timeout \in Window
      BY <2>1 DEF Call
    <2> QED
      BY <1>2, <2>2, ArmEffect DEF TouchSchedules
  <1> QED
    BY <1>1, <1>2

\* The invariant holds at the start: nothing is scheduled.
LEMMA InitInv == Init => IInv
  <1> SUFFICES ASSUME Init
               PROVE  IInv
    OBVIOUS
  <1> USE DEF Init
  <1>1. TypeOK
    <2>1. now \in Time
      BY ConstantsAssumption DEF Time
    <2>2. active \in [App -> Entry \cup {None}] /\ entry \in [Entry -> Object \cup {NoObject}]
      OBVIOUS
    <2>3. pc \in [Caller -> {"idle", "schedule", "signal"}] /\ arg \in [Caller -> Call \cup {NoCall}]
      OBVIOUS
    <2> QED
      BY <2>1, <2>2, <2>3 DEF TypeOK
  <1>2. QueueIsActive /\ NoLostWakeup /\ ItemInv
    BY DEF QueueIsActive, NoLostWakeup, ItemInv
  <1> QED
    BY <1>1, <1>2 DEF IInv

\* A call or tick that leaves the clock within its bound.
LEMMA TickInTime ==
    ASSUME now \in Time, now < MaxTime
    PROVE  now + 1 \in Time
  BY ConstantsAssumption DEF Time

\* Every step keeps the types.
LEMMA TypeStep ==
    ASSUME TypeOK, QueueIsActive, ItemInv, [Next]_vars
    PROVE  TypeOK'
  <1>1. CASE UNCHANGED vars
    BY <1>1 DEF vars, TypeOK
  <1>2. ASSUME NEW c \in Caller, Schedule(c) \/ TouchSchedules(c)
        PROVE  TypeOK'
    <2>1. PICK a \in App, i \in Entry : /\ active' = [active EXCEPT ![a] = i]
                                        /\ queue' = {e \in queue : AppOf(e) # a} \cup {i}
                                        /\ entry' \in [Entry -> Object \cup {NoObject}]
      BY <1>2, Arms DEF ArmsWith
    <2>2. active' \in [App -> Entry \cup {None}] /\ queue' \subseteq Entry
      BY <2>1 DEF TypeOK
    <2>3. UNCHANGED <<now, changed, done, runner, item>>
      BY <1>2 DEF Schedule, TouchSchedules
    <2>4. /\ pc' = [pc EXCEPT ![c] = "signal"]
          /\ arg' = arg \/ arg' = [arg EXCEPT ![c] = NoCall]
      BY <1>2 DEF Schedule, TouchSchedules
    <2>5. pc' \in [Caller -> {"idle", "schedule", "signal"}] /\ arg' \in [Caller -> Call \cup {NoCall}]
      BY <2>4 DEF TypeOK
    <2>6. \A d \in Caller : pc'[d] = "schedule" => arg'[d] \in Call
      BY <2>4 DEF TypeOK
    <2> QED
      BY <2>1, <2>2, <2>3, <2>5, <2>6 DEF TypeOK
  <1>3. ASSUME NEW c \in Caller, TouchLive(c)
        PROVE  TypeOK'
    <2>1. PICK a \in App, g \in Generation, w \in Window :
            /\ Serves(a, g)
            /\ entry' = [entry EXCEPT ![active[a]].deadline = now + w]
      BY <1>3 DEF TouchLive
    <2>2. entry[active[a]] \in Object
      BY <2>1, ActiveTyping DEF Serves
    <2>3. now + w \in Deadline
      BY DeadlineTyping DEF TypeOK
    <2>4. [entry[active[a]] EXCEPT !.deadline = now + w] \in Object
      BY <2>2, <2>3 DEF Object
    <2>5. entry' \in [Entry -> Object \cup {NoObject}]
      BY <2>1, <2>4 DEF TypeOK
    <2> QED
      BY <1>3, <2>5 DEF TouchLive, TypeOK
  <1>4. ASSUME NEW c \in Caller, TouchOther(c)
        PROVE  TypeOK'
    <2>1. PICK o \in Call : arg' = [arg EXCEPT ![c] = o]
      BY <1>4 DEF TouchOther, Call
    <2> QED
      BY <1>4, <2>1 DEF TouchOther, TypeOK
  <1>5. ASSUME NEW c \in Caller, Cancel(c)
        PROVE  TypeOK'
    <2>1. active' \in [App -> Entry \cup {None}] /\ queue' \subseteq Entry
      BY <1>5 DEF Cancel, TypeOK
    <2>2. entry' \in [Entry -> Object \cup {NoObject}]
      BY <1>5 DEF Cancel, TypeOK
    <2> QED
      BY <1>5, <2>1, <2>2 DEF Cancel, TypeOK
  <1>6. ASSUME NEW c \in Caller, Signal(c)
        PROVE  TypeOK'
    BY <1>6 DEF Signal, TypeOK
  <1>7. CASE Take
    <2>1. active' \in [App -> Entry \cup {None}]
      BY <1>7 DEF Take, TypeOK
    <2> QED
      BY <1>7, <2>1 DEF Take, TypeOK
  <1>8. CASE SuspendReturns
    BY <1>8 DEF SuspendReturns, ItemInv, TypeOK
  <1>9. CASE Close \/ Rest \/ Sleep
    BY <1>9 DEF Close, Rest, Sleep, TypeOK
  <1>10. CASE WakeByPoll \/ WakeBySignal \/ WakeByClose
    BY <1>10 DEF WakeByPoll, WakeBySignal, WakeByClose, TypeOK
  <1>11. CASE Tick
    BY <1>11, TickInTime DEF Tick, TypeOK
  <1> QED
    BY <1>1, <1>2, <1>3, <1>4, <1>5, <1>6, <1>7, <1>8, <1>9, <1>10, <1>11 DEF Next, Run

\* Every step keeps the queue to the active entries, one for an application.
LEMMA QueueStep ==
    ASSUME TypeOK, QueueIsActive, ItemInv, [Next]_vars
    PROVE  QueueIsActive'
  <1>1. CASE UNCHANGED <<entry, queue, active>>
    BY <1>1 DEF QueueIsActive, AppOf
  <1>2. ASSUME NEW c \in Caller, Schedule(c) \/ TouchSchedules(c)
        PROVE  QueueIsActive'
    <2>1. PICK a \in App, g \in Generation, w \in Window, i \in Entry : ArmsWith(a, g, w, i)
      BY <1>2, Arms
    <2>2. entry'[i].app = a /\ a # None
      BY <2>1, ConstantsAssumption DEF ArmsWith
    <2>3. ASSUME NEW b \in App, active'[b] # None
          PROVE  active'[b] \in queue' /\ entry'[active'[b]].app = b
      <3>1. CASE b = a
        BY <2>1, <2>2, <3>1 DEF ArmsWith, TypeOK
      <3>2. CASE b # a
        <4>1. active'[b] = active[b] /\ active[b] # None
          BY <2>1, <2>3, <3>2 DEF ArmsWith, TypeOK
        <4>2. active[b] \in Entry /\ active[b] \in queue /\ AppOf(active[b]) = b
          BY <4>1, ActiveTyping
        <4>3. entry'[active[b]] = entry[active[b]] /\ active[b] \in queue'
          BY <2>1, <3>2, <4>2 DEF ArmsWith
        <4> QED
          BY <4>1, <4>2, <4>3 DEF AppOf
      <3> QED
        BY <3>1, <3>2
    <2>4. ASSUME NEW e \in queue'
          PROVE  entry'[e].app # None /\ active'[entry'[e].app] = e
      <3>1. CASE e = i
        BY <2>1, <2>2, <3>1 DEF ArmsWith, TypeOK
      <3>2. CASE e # i
        <4>1. e \in queue /\ AppOf(e) # a
          BY <2>1, <2>4, <3>2 DEF ArmsWith
        <4>2. e \in Entry /\ AppOf(e) \in App /\ active[AppOf(e)] = e
          BY <4>1, QueueTyping
        <4>3. entry'[e].app = AppOf(e)
          BY <2>1, <4>1, <4>2 DEF ArmsWith, AppOf
        <4>4. active'[AppOf(e)] = e
          BY <2>1, <4>1, <4>2 DEF ArmsWith, TypeOK
        <4>5. AppOf(e) # None
          BY <4>2, ConstantsAssumption
        <4> QED
          BY <4>3, <4>4, <4>5
      <3> QED
        BY <3>1, <3>2
    <2> QED
      BY <2>3, <2>4 DEF QueueIsActive, AppOf
  <1>3. ASSUME NEW c \in Caller, TouchLive(c)
        PROVE  QueueIsActive'
    <2>1. PICK a \in App, w \in Window : entry' = [entry EXCEPT ![active[a]].deadline = now + w]
      BY <1>3 DEF TouchLive
    <2>2. \A e \in Entry : entry[e] \in Object \cup {NoObject}
      BY DEF TypeOK
    <2>3. ASSUME NEW e \in Entry
          PROVE  entry'[e].app = entry[e].app
      BY <2>1, <2>2 DEF TypeOK, Object, NoObject
    <2>4. queue \subseteq Entry /\ active \in [App -> Entry \cup {None}]
      BY DEF TypeOK
    <2> QED
      BY <1>3, <2>3, <2>4 DEF TouchLive, QueueIsActive, AppOf
  <1>4. ASSUME NEW c \in Caller, Cancel(c)
        PROVE  QueueIsActive'
    <2>1. PICK a \in App : /\ active' = [active EXCEPT ![a] = None]
                           /\ queue' = {e \in queue : AppOf(e) # a}
                           /\ \A e \in Entry : e \in queue /\ AppOf(e) # a => entry'[e] = entry[e]
      BY <1>4 DEF Cancel
    <2>2. ASSUME NEW b \in App, active'[b] # None
          PROVE  active'[b] \in queue' /\ entry'[active'[b]].app = b
      <3>1. b # a /\ active'[b] = active[b]
        BY <2>1, <2>2 DEF TypeOK
      <3>2. active[b] \in Entry /\ active[b] \in queue /\ AppOf(active[b]) = b
        BY <2>2, <3>1, ActiveTyping
      <3> QED
        BY <2>1, <3>1, <3>2 DEF AppOf
    <2>3. ASSUME NEW e \in queue'
          PROVE  entry'[e].app # None /\ active'[entry'[e].app] = e
      <3>1. e \in queue /\ AppOf(e) # a
        BY <2>1, <2>3
      <3>2. e \in Entry /\ AppOf(e) \in App /\ active[AppOf(e)] = e /\ AppOf(e) # None
        BY <3>1, QueueTyping, ConstantsAssumption
      <3>3. entry'[e].app = AppOf(e)
        BY <2>1, <3>1, <3>2 DEF AppOf
      <3>4. active'[AppOf(e)] = e
        BY <2>1, <3>1, <3>2 DEF TypeOK
      <3> QED
        BY <3>2, <3>3, <3>4
    <2> QED
      BY <2>2, <2>3 DEF QueueIsActive, AppOf
  <1>5. CASE Take
    <2>1. PICK i \in queue : /\ queue' = queue \ {i}
                             /\ active' = [active EXCEPT ![AppOf(i)] = None]
      BY <1>5 DEF Take
    <2>2. entry' = entry
      BY <1>5 DEF Take
    <2>3. ASSUME NEW b \in App, active'[b] # None
          PROVE  active'[b] \in queue' /\ AppOf(active'[b]) = b
      <3>1. b # AppOf(i) /\ active'[b] = active[b]
        BY <2>1, <2>3 DEF TypeOK
      <3>2. active[b] \in queue /\ AppOf(active[b]) = b
        BY <2>3, <3>1, ActiveTyping
      <3> QED
        BY <2>1, <3>1, <3>2
    <2>4. ASSUME NEW e \in queue'
          PROVE  AppOf(e) # None /\ active'[AppOf(e)] = e
      <3>1. e \in queue /\ e # i
        BY <2>1, <2>4
      <3>2. AppOf(e) \in App /\ active[AppOf(e)] = e /\ AppOf(e) # None
        BY <3>1, QueueTyping, ConstantsAssumption
      <3>3. AppOf(e) # AppOf(i)
        BY <2>1, <3>1, <3>2, QueueTyping
      <3> QED
        BY <2>1, <3>2, <3>3 DEF TypeOK
    <2> QED
      BY <2>2, <2>3, <2>4 DEF QueueIsActive, AppOf
  <1>6. CASE SuspendReturns
    <2>1. \A e \in Entry : e # item => entry'[e] = entry[e]
      BY <1>6 DEF SuspendReturns, TypeOK
    <2>2. item \notin queue /\ queue' = queue /\ active' = active
      BY <1>6 DEF SuspendReturns, ItemInv
    <2>3. queue \subseteq Entry
      BY DEF TypeOK
    <2> QED
      BY <2>1, <2>2, <2>3 DEF QueueIsActive, AppOf
  <1>7. ASSUME NEW c \in Caller, TouchOther(c) \/ Signal(c)
        PROVE  QueueIsActive'
    BY <1>1, <1>7 DEF TouchOther, Signal
  <1>8. CASE Close \/ Rest \/ Sleep \/ Tick
    BY <1>1, <1>8 DEF Close, Rest, Sleep, Tick
  <1>9. CASE WakeByPoll \/ WakeBySignal \/ WakeByClose
    BY <1>1, <1>9 DEF WakeByPoll, WakeBySignal, WakeByClose
  <1>10. CASE UNCHANGED vars
    BY <1>1, <1>10 DEF vars
  <1> QED
    BY <1>2, <1>3, <1>4, <1>5, <1>6, <1>7, <1>8, <1>9, <1>10 DEF Next, Run

\* Every step keeps the entry being suspended out of the queue.
LEMMA ItemStep ==
    ASSUME TypeOK, QueueIsActive, ItemInv, [Next]_vars
    PROVE  ItemInv'
  <1>1. CASE UNCHANGED vars
    BY <1>1 DEF vars, ItemInv
  <1>2. ASSUME NEW c \in Caller, Schedule(c) \/ TouchSchedules(c)
        PROVE  ItemInv'
    <2>1. PICK a \in App, i \in Entry : i # item /\ queue' = {e \in queue : AppOf(e) # a} \cup {i}
      BY <1>2, Arms DEF ArmsWith
    <2>2. UNCHANGED <<runner, item>>
      BY <1>2 DEF Schedule, TouchSchedules
    <2> QED
      BY <2>1, <2>2 DEF ItemInv
  <1>3. ASSUME NEW c \in Caller, TouchLive(c) \/ TouchOther(c) \/ Cancel(c) \/ Signal(c)
        PROVE  ItemInv'
    BY <1>3 DEF TouchLive, TouchOther, Cancel, Signal, ItemInv
  <1>4. CASE Take
    BY <1>4, QueueTyping DEF Take, ItemInv
  <1>5. CASE SuspendReturns
    BY <1>5, QueueTyping DEF SuspendReturns, ItemInv
  <1>6. CASE Close \/ Rest \/ Sleep \/ Tick
    BY <1>6 DEF Close, Rest, Sleep, Tick, ItemInv
  <1>7. CASE WakeByPoll \/ WakeBySignal \/ WakeByClose
    BY <1>7 DEF WakeByPoll, WakeBySignal, WakeByClose, ItemInv
  <1> QED
    BY <1>1, <1>2, <1>3, <1>4, <1>5, <1>6, <1>7 DEF Next, Run

\* Every step keeps a resting goroutine's signal on its way.
LEMMA WakeupStep ==
    ASSUME TypeOK, NoLostWakeup, [Next]_vars
    PROVE  NoLostWakeup'
  <1> USE DEF NoLostWakeup
  <1>1. CASE UNCHANGED vars
    BY <1>1 DEF vars
  <1>2. ASSUME NEW c \in Caller, Schedule(c) \/ TouchLive(c) \/ TouchSchedules(c) \/ Cancel(c)
        PROVE  NoLostWakeup'
    <2>1. pc'[c] = "signal"
      BY <1>2 DEF Schedule, TouchLive, TouchSchedules, Cancel, TypeOK
    <2> QED
      BY <2>1
  <1>3. ASSUME NEW c \in Caller, TouchOther(c)
        PROVE  NoLostWakeup'
    <2>1. pc[c] = "idle" /\ pc' = [pc EXCEPT ![c] = "schedule"]
      BY <1>3 DEF TouchOther
    <2>2. \A d \in Caller : pc[d] = "signal" => pc'[d] = "signal"
      BY <2>1 DEF TypeOK
    <2> QED
      BY <1>3, <2>2 DEF TouchOther
  <1>4. ASSUME NEW c \in Caller, Signal(c)
        PROVE  NoLostWakeup'
    BY <1>4 DEF Signal
  <1>5. CASE Rest
    BY <1>5 DEF Rest
  <1>6. CASE Take \/ SuspendReturns \/ Sleep
    BY <1>6 DEF Take, SuspendReturns, Sleep
  <1>7. CASE WakeByPoll \/ WakeBySignal \/ WakeByClose
    BY <1>7 DEF WakeByPoll, WakeBySignal, WakeByClose
  <1>8. CASE Close \/ Tick
    BY <1>8 DEF Close, Tick
  <1> QED
    BY <1>1, <1>2, <1>3, <1>4, <1>5, <1>6, <1>7, <1>8 DEF Next, Run

\* The inductive invariant holds in every reachable state: whatever callers and
\* the goroutine do, an application has one idle window and no signal is lost.
THEOREM Invariance == Spec => []IInv
  <1>1. IInv /\ [Next]_vars => IInv'
    BY TypeStep, QueueStep, ItemStep, WakeupStep DEF IInv
  <1> QED
    BY InitInv, <1>1, PTL DEF Spec

----------------------------------------------------------------------------
(* The tracker implements Deadlines *)

\* The deadline of each application and the running suspension, as Deadlines sees
\* them.
Pending == [a \in App |-> IF active[a] = None THEN -1 ELSE DeadlineOf(active[a])]
Running == IF item = None THEN None ELSE AppOf(item)

\* A step that leaves the entries, the active ones, the suspension and the clock
\* alone is none of the promise's business.
LEMMA Unseen ==
    ASSUME UNCHANGED <<entry, active, item, now>>
    PROVE  UNCHANGED <<Pending, Running, now>>
  BY DEF Pending, Running, AppOf, DeadlineOf

\* Schedule, and a Touch that comes to it, set the deadline of the application and
\* of no other.
LEMMA ScheduleArms ==
    ASSUME IInv, NEW c \in Caller, Schedule(c) \/ TouchSchedules(c)
    PROVE  \E a \in App : /\ \E t \in Deadline : Pending' = [Pending EXCEPT ![a] = t]
                          /\ UNCHANGED <<Running, now>>
  <1> USE DEF IInv
  <1>1. PICK a \in App, g \in Generation, w \in Window, i \in Entry : ArmsWith(a, g, w, i)
    BY Arms
  <1>2. now + w \in Deadline
    BY DeadlineTyping DEF TypeOK
  <1>3. item' = item /\ now' = now
    BY DEF Schedule, TouchSchedules
  <1>4. item # None => item \in Entry /\ entry'[item] = entry[item]
    BY <1>1 DEF ArmsWith, ItemInv, TypeOK
  <1>5. Running' = Running
    BY <1>3, <1>4 DEF Running, AppOf
  <1>6. ASSUME NEW b \in App
        PROVE  Pending'[b] = IF b = a THEN now + w ELSE Pending[b]
    <2>1. CASE b = a
      <3>1. active'[b] = i /\ i # None /\ entry'[i].deadline = now + w
        BY <1>1, <2>1 DEF ArmsWith, TypeOK
      <3> QED
        BY <2>1, <3>1 DEF Pending, DeadlineOf
    <2>2. CASE b # a
      <3>1. active'[b] = active[b]
        BY <1>1, <2>2 DEF ArmsWith, TypeOK
      <3>2. ASSUME active[b] # None
            PROVE  entry'[active[b]] = entry[active[b]]
        <4>1. active[b] \in Entry /\ active[b] \in queue /\ AppOf(active[b]) = b
          BY <3>2, ActiveTyping
        <4> QED
          BY <1>1, <2>2, <4>1 DEF ArmsWith
      <3> QED
        BY <2>2, <3>1, <3>2 DEF Pending, DeadlineOf
    <2> QED
      BY <2>1, <2>2
  <1>7. Pending' = [Pending EXCEPT ![a] = now + w]
    BY <1>6 DEF Pending
  <1> QED
    BY <1>2, <1>3, <1>5, <1>7

\* A Touch of the live generation moves the deadline in place.
LEMMA TouchArms ==
    ASSUME IInv, NEW c \in Caller, TouchLive(c)
    PROVE  \E a \in App : /\ \E t \in Deadline : Pending' = [Pending EXCEPT ![a] = t]
                          /\ UNCHANGED <<Running, now>>
  <1> USE DEF IInv
  <1>1. PICK a \in App, g \in Generation, w \in Window :
            /\ Serves(a, g)
            /\ entry' = [entry EXCEPT ![active[a]].deadline = now + w]
    BY DEF TouchLive
  <1>2. UNCHANGED <<now, active, item>> /\ active[a] # None
    BY <1>1 DEF TouchLive, Serves
  <1>3. now + w \in Deadline
    BY DeadlineTyping DEF TypeOK
  <1>4. active[a] \in Entry /\ active[a] \in queue /\ entry[active[a]] \in Object
    BY <1>2, ActiveTyping
  <1>5. entry'[active[a]].deadline = now + w
    BY <1>1, <1>4 DEF TypeOK, Object
  <1>6. \A e \in Entry : e # active[a] => entry'[e] = entry[e]
    BY <1>1 DEF TypeOK
  <1>7. Running' = Running
    BY <1>2, <1>4, <1>6 DEF Running, AppOf, ItemInv, TypeOK
  <1>8. ASSUME NEW b \in App
        PROVE  Pending'[b] = IF b = a THEN now + w ELSE Pending[b]
    <2>1. CASE b = a
      BY <1>2, <1>5, <2>1 DEF Pending, DeadlineOf
    <2>2. CASE b # a
      <3>1. active[b] # None => active[b] \in Entry /\ active[b] # active[a]
        BY <1>2, <2>2, ActiveTyping
      <3> QED
        BY <1>2, <1>6, <2>2, <3>1 DEF Pending, DeadlineOf
    <2> QED
      BY <2>1, <2>2
  <1>9. Pending' = [Pending EXCEPT ![a] = now + w]
    BY <1>8 DEF Pending
  <1> QED
    BY <1>2, <1>3, <1>7, <1>9

\* Cancel withdraws the deadline of the application and of no other.
LEMMA CancelDisarms ==
    ASSUME IInv, NEW c \in Caller, Cancel(c)
    PROVE  \E a \in App : Pending' = [Pending EXCEPT ![a] = -1] /\ UNCHANGED <<Running, now>>
  <1> USE DEF IInv
  <1>1. PICK a \in App :
            /\ active' = [active EXCEPT ![a] = None]
            /\ \A e \in Entry : e \notin queue \/ AppOf(e) # a => entry'[e] = entry[e]
    BY DEF Cancel
  <1>2. now' = now /\ item' = item
    BY DEF Cancel
  <1>3. Running' = Running
    BY <1>1, <1>2 DEF Running, AppOf, ItemInv, TypeOK
  <1>4. ASSUME NEW b \in App
        PROVE  Pending'[b] = IF b = a THEN -1 ELSE Pending[b]
    <2>1. CASE b = a
      BY <1>1, <2>1 DEF Pending, TypeOK
    <2>2. CASE b # a
      <3>1. active'[b] = active[b]
        BY <1>1, <2>2 DEF TypeOK
      <3>2. active[b] # None => active[b] \in Entry /\ AppOf(active[b]) = b
        BY ActiveTyping
      <3>3. active[b] # None => entry'[active[b]] = entry[active[b]]
        BY <1>1, <2>2, <3>2
      <3> QED
        BY <2>2, <3>1, <3>3 DEF Pending, DeadlineOf
    <2> QED
      BY <2>1, <2>2
  <1>5. Pending' = [Pending EXCEPT ![a] = -1]
    BY <1>4 DEF Pending
  <1> QED
    BY <1>2, <1>3, <1>5

\* Taking an entry expires its application: the deadline is due and goes, and no
\* other suspension is under way.
LEMMA TakeExpires ==
    ASSUME IInv, Take
    PROVE  \E a \in App : /\ Running = None
                          /\ Pending[a] # -1
                          /\ Pending[a] <= now
                          /\ Pending' = [Pending EXCEPT ![a] = -1]
                          /\ Running' = a
                          /\ now' = now
  <1> USE DEF IInv
  <1>1. PICK i \in queue : /\ DeadlineOf(i) <= now
                           /\ active' = [active EXCEPT ![AppOf(i)] = None]
                           /\ item' = i
    BY DEF Take
  <1>2. i # None /\ AppOf(i) \in App /\ active[AppOf(i)] = i /\ DeadlineOf(i) \in Deadline
    BY QueueTyping
  <1>3. DeadlineOf(i) # -1
    BY <1>2, DeadlineTyping
  <1>4. Running = None
    BY DEF Take, Running, ItemInv
  <1>5. Pending[AppOf(i)] = DeadlineOf(i)
    BY <1>2 DEF Pending
  <1>6. now' = now /\ entry' = entry
    BY DEF Take
  <1>7. Running' = AppOf(i)
    BY <1>1, <1>2, <1>6 DEF Running, AppOf
  <1>8. Pending' = [Pending EXCEPT ![AppOf(i)] = -1]
    <2>1. ASSUME NEW b \in App
          PROVE  Pending'[b] = IF b = AppOf(i) THEN -1 ELSE Pending[b]
      <3>1. active'[b] = IF b = AppOf(i) THEN None ELSE active[b]
        BY <1>1 DEF TypeOK
      <3> QED
        BY <1>6, <3>1 DEF Pending, DeadlineOf
    <2> QED
      BY <2>1 DEF Pending
  <1> HIDE DEF Pending, Running
  <1>9. Pending[AppOf(i)] # -1 /\ Pending[AppOf(i)] <= now
    BY <1>1, <1>3, <1>5
  <1> QED
    BY <1>2, <1>4, <1>6, <1>7, <1>8, <1>9

\* The end of a suspension changes no deadline: its entry was in use no more.
LEMMA SuspensionReturns ==
    ASSUME IInv, SuspendReturns
    PROVE  Pending' = Pending /\ Running' = None /\ now' = now
  <1> USE DEF IInv
  <1>1. now' = now /\ active' = active /\ item' = None
    BY DEF SuspendReturns
  <1>2. \A e \in Entry : e # item => entry'[e] = entry[e]
    BY DEF SuspendReturns, TypeOK
  <1>3. ASSUME NEW b \in App, active[b] # None
        PROVE  entry'[active[b]] = entry[active[b]]
    <2>1. active[b] \in Entry /\ active[b] \in queue
      BY <1>3, ActiveTyping
    <2> QED
      BY <1>2, <2>1 DEF ItemInv
  <1>4. Pending' = Pending
    BY <1>1, <1>3 DEF Pending, DeadlineOf
  <1> QED
    BY <1>1, <1>4 DEF Running

\* Every step is one the promise allows, or is not seen.
LEMMA StepImplements ==
    ASSUME IInv, [Next]_vars
    PROVE  [Promise!Next]_<<Pending, Running, now>>
  <1> USE DEF Promise!Next
  <1>1. ASSUME NEW c \in Caller, Schedule(c) \/ TouchSchedules(c)
        PROVE  Promise!Next
    BY <1>1, ScheduleArms DEF Promise!Arm, Pending, Running
  <1>2. ASSUME NEW c \in Caller, TouchLive(c)
        PROVE  Promise!Next
    BY <1>2, TouchArms DEF Promise!Arm, Pending, Running
  <1>3. ASSUME NEW c \in Caller, Cancel(c)
        PROVE  Promise!Next
    BY <1>3, CancelDisarms DEF Promise!Disarm, Promise!Never, Pending, Running
  <1>4. CASE Take
    BY <1>4, TakeExpires DEF Promise!Expire, Promise!Never, Pending, Running
  <1>5. CASE SuspendReturns
    BY <1>5, SuspensionReturns DEF Promise!Return, Pending, Running
  <1>6. CASE Tick
    <2>1. Pending' = Pending /\ Running' = Running /\ now' = now + 1
      BY <1>6 DEF Tick, Pending, Running, AppOf, DeadlineOf
    <2> QED
      BY <2>1 DEF Promise!Tick, Pending, Running
  <1>7. ASSUME NEW c \in Caller, TouchOther(c) \/ Signal(c)
        PROVE  UNCHANGED <<Pending, Running, now>>
    BY <1>7, Unseen DEF TouchOther, Signal
  <1>8. CASE Close \/ Rest \/ Sleep
    BY <1>8, Unseen DEF Close, Rest, Sleep
  <1>9. CASE WakeByPoll \/ WakeBySignal \/ WakeByClose
    BY <1>9, Unseen DEF WakeByPoll, WakeBySignal, WakeByClose
  <1>10. CASE UNCHANGED vars
    BY <1>10, Unseen DEF vars
  <1> QED
    BY <1>1, <1>2, <1>3, <1>4, <1>5, <1>6, <1>7, <1>8, <1>9, <1>10 DEF Next, Run

\* The tracker keeps the promise: a suspension is begun only at a deadline that
\* was set or moved last and not withdrawn, takes it along, and runs alone.
THEOREM Implements == Spec => PromiseSpec
  <1>1. Init => Promise!Init
    BY DEF Init, Promise!Init, Promise!Never
  <1>2. IInv /\ [Next]_vars => [Promise!Next]_<<Pending, Running, now>>
    BY StepImplements
  <1> QED
    BY <1>1, <1>2, Invariance, PTL DEF Spec, PromiseSpec, Promise!Spec, Pending, Running
=============================================================================
