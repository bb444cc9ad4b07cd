-------------------------- MODULE PollerQueueProofs --------------------------
(***************************************************************************)
(* Theorems about PollerQueue, for any swaps, any number of slots and any   *)
(* number of faults. QInv is inductive: the tasks at work are those on the  *)
(* map, a slot is counted for each task of the queue, and a swap that was   *)
(* triggered is accounted for.                                              *)
(***************************************************************************)
EXTENDS PollerQueue, FiniteSetTheorems, TLAPS

(* The map `running` is true: what is on it is at work, once.               *)
MapIsTrue ==
  /\ \A s \in Ids : tasks[s] = IF s \in running THEN 1 ELSE 0
  /\ event \subseteq running

(* SlotsCounted, with what counting needs.                                  *)
SlotsAreCounted == SlotsCounted /\ IsFiniteSet(event)

(* Nothing is queued once the poller has stopped.                           *)
StoppedIsEmpty == stopped => queue = <<>> /\ retry = {}

(* Only accepted swaps are triggered.                                       *)
OwedAreAccepted == \A s \in owed : row[s] # "none"

QInv ==
  /\ TypeOK
  /\ MapIsTrue
  /\ SlotsAreCounted
  /\ StoppedIsEmpty
  /\ NoIdleSlot
  /\ OwedAreAccepted
  /\ TriggerRemembered

-----------------------------------------------------------------------------
(* The queue as a set without repetitions.                                  *)

LEMMA EnqueuedIsASet ==
  ASSUME NEW s \in Ids, queue \in Seq(Ids), IsInjective(queue)
  PROVE  /\ Enqueued(s) \in Seq(Ids)
         /\ IsInjective(Enqueued(s))
         /\ ToSet(Enqueued(s)) = ToSet(queue) \cup {s}
<1>1. CASE s \in ToSet(queue)
  BY <1>1 DEF Enqueued
<1>2. CASE s \notin ToSet(queue)
  <2> DEFINE q == Append(queue, s)
  <2>1. /\ q \in Seq(Ids) /\ Len(q) = Len(queue) + 1 /\ q[Len(queue) + 1] = s
        /\ \A i \in 1..Len(queue) : q[i] = queue[i]
    OBVIOUS
  <2>2. \A i \in 1..Len(queue) : queue[i] # s
    BY <1>2 DEF ToSet
  <2>3. \A i, j \in 1..Len(queue) : queue[i] = queue[j] => i = j
    BY DEF IsInjective
  <2>4. \A i, j \in 1..(Len(queue) + 1) : q[i] = q[j] => i = j
    BY <2>1, <2>2, <2>3
  <2>5. ToSet(q) = ToSet(queue) \cup {s}
    BY <2>1 DEF ToSet
  <2>6. Enqueued(s) = q
    BY <1>2 DEF Enqueued
  <2> QED
    BY <2>1, <2>4, <2>5, <2>6 DEF IsInjective
<1> QED
  BY <1>1, <1>2

LEMMA TailIsASet ==
  ASSUME queue \in Seq(Ids), IsInjective(queue), queue # <<>>
  PROVE  /\ Tail(queue) \in Seq(Ids)
         /\ IsInjective(Tail(queue))
         /\ Head(queue) \in Ids
         /\ ToSet(queue) = {Head(queue)} \cup ToSet(Tail(queue))
<1> DEFINE q == Tail(queue)
<1>1. /\ q \in Seq(Ids) /\ Len(q) = Len(queue) - 1 /\ Len(queue) \in Nat \ {0}
      /\ \A i \in 1..Len(q) : q[i] = queue[i + 1]
  OBVIOUS
<1>2. Head(queue) = queue[1] /\ Head(queue) \in Ids
  OBVIOUS
<1>3. \A i, j \in 1..Len(queue) : queue[i] = queue[j] => i = j
  BY DEF IsInjective
<1>4. \A i, j \in 1..Len(q) : q[i] = q[j] => i = j
  BY <1>1, <1>3
<1>5. ToSet(queue) = {Head(queue)} \cup ToSet(q)
  <2>1. \A i \in 1..Len(queue) : i = 1 \/ (i - 1 \in 1..Len(q) /\ q[i - 1] = queue[i])
    BY <1>1
  <2>2. \A i \in 1..Len(q) : i + 1 \in 1..Len(queue) /\ q[i] = queue[i + 1]
    BY <1>1
  <2>3. 1 \in 1..Len(queue)
    BY <1>1
  <2>4. ASSUME NEW x \in ToSet(queue) PROVE x \in {Head(queue)} \cup ToSet(q)
    <3>1. PICK i \in 1..Len(queue) : x = queue[i]
      BY DEF ToSet
    <3>2. CASE i = 1
      BY <1>2, <3>1, <3>2
    <3>3. CASE i - 1 \in 1..Len(q) /\ q[i - 1] = queue[i]
      <4>1. ToSet(q) = {q[j] : j \in 1..Len(q)}
        <5>1. DOMAIN q = 1..Len(q)
          BY <1>1
        <5> QED
          BY <5>1 DEF ToSet
      <4> QED
        BY <3>1, <3>3, <4>1
    <3> QED
      BY <2>1, <3>2, <3>3
  <2>5. ASSUME NEW x \in ToSet(q) PROVE x \in ToSet(queue)
    <3>1. PICK i \in 1..Len(q) : x = q[i]
      BY <1>1 DEF ToSet
    <3> QED
      BY <1>1, <2>2, <3>1 DEF ToSet
  <2>6. Head(queue) \in ToSet(queue)
    BY <1>2, <2>3 DEF ToSet
  <2> QED
    BY <2>4, <2>5, <2>6
<1> QED
  BY <1>1, <1>2, <1>4, <1>5 DEF IsInjective

LEMMA TodoTyped ==
  /\ \A L \in SUBSET Ids : [rows |-> TRUE, left |-> L] \in [rows : BOOLEAN, left : SUBSET Ids]
  /\ {s \in Ids : row[s] = "pending"} \in SUBSET Ids /\ {} \in SUBSET Ids
  /\ Unread \in [rows : BOOLEAN, left : SUBSET Ids]
<1>1. \A L \in SUBSET Ids : [rows |-> TRUE, left |-> L] \in [rows : BOOLEAN, left : SUBSET Ids]
  OBVIOUS
<1>2. {s \in Ids : row[s] = "pending"} \in SUBSET Ids
  OBVIOUS
<1>3. Unread \in [rows : BOOLEAN, left : SUBSET Ids]
  BY DEF Unread
<1> QED
  BY <1>1, <1>2, <1>3

LEMMA EmptyIsASet == <<>> \in Seq(Ids) /\ IsInjective(<<>>)
<1>1. DOMAIN <<>> = {}
  OBVIOUS
<1> QED
  BY <1>1 DEF IsInjective

-----------------------------------------------------------------------------
LEMMA InitHolds == Init => QInv
<1> SUFFICES ASSUME Init PROVE QInv
  OBVIOUS
<1> USE PollerAssumption
<1>1. TypeOK
  <2>1. /\ passing = TRUE /\ timer = FALSE /\ again = FALSE /\ stopped = FALSE
        /\ row \in [Ids -> {"none", "pending", "done"}] /\ tasks \in [Ids -> Nat]
    BY DEF Init, Loop!Init
  <2>2. todo \in [rows : BOOLEAN, left : SUBSET Ids]
    BY DEF Init, Unread
  <2>3. 0 \in 0..Slots /\ 0 \in 0..MaxFaults
    OBVIOUS
  <2>4. queue \in Seq(Ids) /\ IsInjective(queue)
    BY EmptyIsASet DEF Init
  <2> QED
    BY <2>1, <2>2, <2>3, <2>4 DEF Init, TypeOK
<1>2. MapIsTrue /\ StoppedIsEmpty /\ NoIdleSlot /\ OwedAreAccepted /\ TriggerRemembered
  BY DEF Init, MapIsTrue, StoppedIsEmpty, NoIdleSlot, OwedAreAccepted, TriggerRemembered
<1>3. SlotsAreCounted
  BY FS_EmptySet DEF Init, SlotsAreCounted, SlotsCounted
<1> QED
  BY <1>1, <1>2, <1>3 DEF QInv

(* A step that leaves the queue's own state alone, and no trigger or row    *)
(* behind.                                                                  *)
LEMMA ElsewhereKeeps ==
  ASSUME QInv, TypeOK', UNCHANGED <<work, draining, ending, stopped>>, faults <= faults',
         \A s \in Ids : row'[s] = row[s] \/ (row[s] = "none" /\ row'[s] = "pending")
                                         \/ row'[s] = "done"
  PROVE  QInv'
<1> USE DEF work
<1>1. MapIsTrue' /\ SlotsAreCounted' /\ StoppedIsEmpty' /\ NoIdleSlot'
  BY DEF QInv, MapIsTrue, SlotsAreCounted, SlotsCounted, StoppedIsEmpty, NoIdleSlot
<1>2. OwedAreAccepted'
  BY DEF QInv, TypeOK, OwedAreAccepted
<1>3. TriggerRemembered'
  <2> SUFFICES ASSUME NEW s \in owed, row'[s] = "pending", ~stopped, faults' = 0
               PROVE  s \in ToSet(queue) \/ (s \in retry /\ s \in running)
    BY DEF TriggerRemembered
  <2>1. s \in Ids /\ row[s] = "pending"
    BY DEF QInv, TypeOK, OwedAreAccepted
  <2>2. faults = 0
    BY PollerAssumption DEF QInv, TypeOK
  <2> QED
    BY <2>1, <2>2 DEF QInv, TriggerRemembered
<1> QED
  BY <1>1, <1>2, <1>3 DEF QInv

(* A round of drain.                                                        *)
LEMMA RoundKeeps == QInv /\ DrainRound => QInv'
<1> SUFFICES ASSUME QInv, DrainRound PROVE QInv'
  OBVIOUS
<1> DEFINE s == Head(queue)
<1>0. /\ draining /\ ~stopped /\ active < Slots /\ queue # <<>> /\ queue' = Tail(queue)
      /\ UNCHANGED <<row, draining, ending, passing, again, stopped, timer, todo, on>>
  BY DEF DrainRound, DrainGoesOn, loop, pass
<1>1. /\ queue' \in Seq(Ids) /\ IsInjective(queue') /\ s \in Ids
      /\ ToSet(queue) = {s} \cup ToSet(queue')
  BY <1>0, TailIsASet DEF QInv, TypeOK
<1>2. StoppedIsEmpty' /\ NoIdleSlot'
  BY <1>0 DEF StoppedIsEmpty, NoIdleSlot
<1> HIDE DEF s
<1>3. CASE DrainRetries
  <2>1. s \in running /\ retry' = retry \cup {s}
        /\ UNCHANGED <<faults, running, active, event, tasks, owed>>
    BY <1>3 DEF DrainRetries, s
  <2>2. TypeOK'
    BY <1>0, <1>1, <2>1 DEF QInv, TypeOK
  <2>3. MapIsTrue' /\ SlotsAreCounted' /\ OwedAreAccepted'
    BY <1>0, <2>1 DEF QInv, MapIsTrue, SlotsAreCounted, SlotsCounted, OwedAreAccepted
  <2>4. TriggerRemembered'
    BY <1>0, <1>1, <2>1 DEF QInv, TriggerRemembered
  <2> QED
    BY <1>2, <2>2, <2>3, <2>4 DEF QInv
<1>4. CASE DrainSkips
  <2>1. /\ UNCHANGED <<retry, running, active, event, tasks, owed>>
        /\ \/ faults < MaxFaults /\ faults' = faults + 1
           \/ row[s] # "pending" /\ faults' = faults
    BY <1>4 DEF DrainSkips, s
  <2>2. TypeOK'
    <3>1. faults' \in 0..MaxFaults
      BY <2>1, PollerAssumption DEF QInv, TypeOK
    <3> QED
      BY <1>0, <1>1, <2>1, <3>1 DEF QInv, TypeOK
  <2>3. MapIsTrue' /\ SlotsAreCounted' /\ OwedAreAccepted'
    BY <1>0, <2>1 DEF QInv, MapIsTrue, SlotsAreCounted, SlotsCounted, OwedAreAccepted
  <2>4. TriggerRemembered'
    <3>1. faults' = 0 => faults' = faults /\ row[s] # "pending"
      BY <2>1, PollerAssumption DEF QInv, TypeOK
    <3> QED
      BY <1>0, <1>1, <2>1, <3>1 DEF QInv, TriggerRemembered
  <2> QED
    BY <1>2, <2>2, <2>3, <2>4 DEF QInv
<1>5. CASE DrainStarts
  <2>1. /\ s \notin running /\ running' = running \cup {s}
        /\ tasks' = [tasks EXCEPT ![s] = @ + 1] /\ owed' = owed \ {s}
        /\ active' = active + 1 /\ event' = event \cup {s}
        /\ UNCHANGED <<faults, retry>>
    BY <1>5 DEF DrainStarts, RunOne, s
  <2>2. TypeOK'
    <3>1. active' \in 0..Slots
      BY <1>0, <2>1, PollerAssumption DEF QInv, TypeOK
    <3>2. tasks' \in [Ids -> Nat]
      BY <1>1, <2>1 DEF QInv, TypeOK
    <3> QED
      BY <1>0, <1>1, <2>1, <3>1, <3>2 DEF QInv, TypeOK
  <2>3. MapIsTrue'
    BY <1>1, <2>1 DEF QInv, TypeOK, MapIsTrue
  <2>4. SlotsAreCounted'
    <3>1. s \notin event
      BY <2>1 DEF QInv, MapIsTrue
    <3>2. IsFiniteSet(event') /\ Cardinality(event') = Cardinality(event) + 1
      BY <2>1, <3>1, FS_AddElement DEF QInv, SlotsAreCounted
    <3>3. Cardinality(event) \in Nat /\ ending \in Nat
      BY FS_CardinalityType, PollerAssumption DEF QInv, TypeOK, SlotsAreCounted
    <3> QED
      BY <1>0, <2>1, <3>2, <3>3 DEF QInv, SlotsAreCounted, SlotsCounted
  <2>5. OwedAreAccepted' /\ TriggerRemembered'
    BY <1>0, <1>1, <2>1 DEF QInv, OwedAreAccepted, TriggerRemembered
  <2> QED
    BY <1>2, <2>2, <2>3, <2>4, <2>5 DEF QInv
<1> QED
  BY <1>3, <1>4, <1>5 DEF DrainRound

LEMMA ReturnKeeps == QInv /\ DrainReturns => QInv'
<1> SUFFICES ASSUME QInv, DrainReturns PROVE QInv'
  OBVIOUS
<1> USE DEF world, work, loop, pass
<1>1. /\ draining' = FALSE /\ ~DrainGoesOn
      /\ UNCHANGED <<world, work, ending, loop, pass>>
  BY DEF DrainReturns
<1>2. TypeOK'
  BY <1>1 DEF QInv, TypeOK
<1>3. MapIsTrue' /\ SlotsAreCounted' /\ StoppedIsEmpty' /\ OwedAreAccepted' /\ TriggerRemembered'
  BY <1>1 DEF QInv, MapIsTrue, SlotsAreCounted, SlotsCounted, StoppedIsEmpty,
              OwedAreAccepted, TriggerRemembered
<1>4. NoIdleSlot'
  <2>1. stopped => queue = <<>>
    BY DEF QInv, StoppedIsEmpty
  <2>2. active <= Slots /\ active \in Int /\ Slots \in Int
    BY PollerAssumption DEF QInv, TypeOK
  <2>3. queue # <<>> => active = Slots
    BY <1>1, <2>1, <2>2 DEF DrainGoesOn
  <2> QED
    BY <1>1, <2>3 DEF NoIdleSlot
<1> QED
  BY <1>2, <1>3, <1>4 DEF QInv

(* What the end of a task, settled or rejected, leaves of the queue.        *)
LEMMA EndKeeps ==
  ASSUME QInv, NEW s \in Ids, tasks[s] > 0, LeavesMap(s), GivesSlotBack(s), draining' = TRUE,
         UNCHANGED <<active, owed, loop>>, todo' \in [rows : BOOLEAN, left : SUBSET Ids],
         on' = (IF on = s THEN None ELSE on),
         faults' \in 0..MaxFaults, faults <= faults',
         row' = row \/ (row[s] = "pending" /\ row' = [row EXCEPT ![s] = "done"])
  PROVE  QInv'
<1> USE DEF loop
<1>1. s \in running
  BY DEF QInv, MapIsTrue
<1>2. /\ running' = running \ {s} /\ retry' = retry \ {s} /\ event' = event \ {s}
      /\ tasks' = [tasks EXCEPT ![s] = @ - 1]
      /\ queue' = IF s \in retry THEN Enqueued(s) ELSE queue
  BY DEF LeavesMap, GivesSlotBack
<1>3. /\ queue' \in Seq(Ids) /\ IsInjective(queue')
      /\ ToSet(queue') = ToSet(queue) \cup (IF s \in retry THEN {s} ELSE {})
  BY <1>2, EnqueuedIsASet DEF QInv, TypeOK
<1>4. SlotsAreCounted' /\ ending' \in 0..Slots
  <2>1. Cardinality(event) \in Nat /\ ending \in Nat /\ active \in 0..Slots /\ Slots \in Nat
    BY FS_CardinalityType, PollerAssumption DEF QInv, TypeOK, SlotsAreCounted
  <2>2. active = Cardinality(event) + ending /\ IsFiniteSet(event)
    BY DEF QInv, SlotsAreCounted, SlotsCounted
  <2>3. CASE s \in event
    <3>1. /\ IsFiniteSet(event') /\ Cardinality(event') = Cardinality(event) - 1
      BY <1>2, <2>2, <2>3, FS_RemoveElement
    <3>2. Cardinality(event') \in Nat
      BY <3>1, FS_CardinalityType
    <3>3. ending' = ending + 1
      BY <2>3 DEF GivesSlotBack
    <3>4. active' = Cardinality(event') + ending' /\ ending' \in 0..Slots
      BY <2>1, <2>2, <3>1, <3>2, <3>3
    <3> QED
      BY <3>1, <3>4 DEF SlotsAreCounted, SlotsCounted
  <2>4. CASE s \notin event
    <3>1. event' = event /\ ending' = ending
      BY <1>2, <2>4 DEF GivesSlotBack
    <3> QED
      BY <3>1 DEF QInv, TypeOK, SlotsAreCounted, SlotsCounted
  <2> QED
    BY <2>3, <2>4
<1>5. row' \in [Ids -> {"none", "pending", "done"}]
  BY DEF QInv, TypeOK
<1>6. tasks' \in [Ids -> Nat]
  BY <1>2 DEF QInv, TypeOK
<1>7. on' \in Ids \cup {None}
  BY DEF QInv, TypeOK
<1>8. TypeOK'
  BY <1>2, <1>3, <1>4, <1>5, <1>6, <1>7 DEF QInv, TypeOK
<1>9. MapIsTrue'
  BY <1>1, <1>2 DEF QInv, TypeOK, MapIsTrue
<1>10. StoppedIsEmpty' /\ NoIdleSlot'
  BY <1>2 DEF QInv, StoppedIsEmpty, NoIdleSlot
<1>11. OwedAreAccepted'
  BY DEF QInv, TypeOK, OwedAreAccepted
<1>12. TriggerRemembered'
  <2> SUFFICES ASSUME NEW x \in owed, row'[x] = "pending", ~stopped, faults' = 0
               PROVE  x \in ToSet(queue') \/ (x \in retry' /\ x \in running')
    BY DEF TriggerRemembered
  <2>1. x \in Ids /\ row[x] = "pending"
    BY DEF QInv, TypeOK
  <2>2. faults = 0
    BY PollerAssumption DEF QInv, TypeOK
  <2>3. x \in ToSet(queue) \/ (x \in retry /\ x \in running)
    BY <2>1, <2>2 DEF QInv, TriggerRemembered
  <2> QED
    BY <1>2, <1>3, <2>3
<1> QED
  BY <1>4, <1>8, <1>9, <1>10, <1>11, <1>12 DEF QInv

LEMMA TriggerKeeps ==
  ASSUME QInv, NEW s \in Ids, Trigger(s) PROVE QInv'
<1> USE DEF world, loop, pass
<1>1. /\ Settled /\ ~stopped /\ row[s] # "none" /\ owed' = owed \cup {s} /\ draining' = TRUE
      /\ UNCHANGED <<world, running, active, event, tasks, ending, loop, pass>>
  BY DEF Trigger
<1>2. /\ queue' \in Seq(Ids) /\ IsInjective(queue') /\ ToSet(queue) \subseteq ToSet(queue')
      /\ retry \subseteq retry' /\ retry' \subseteq Ids
      /\ s \in ToSet(queue') \/ (s \in retry' /\ s \in running)
  <2>1. CASE s \in running /\ retry' = retry \cup {s} /\ queue' = queue
    BY <2>1 DEF QInv, TypeOK
  <2>2. CASE s \notin running /\ queue' = Enqueued(s) /\ retry' = retry
    BY <2>2, EnqueuedIsASet DEF QInv, TypeOK
  <2> QED
    BY <2>1, <2>2 DEF Trigger
<1>3. TypeOK'
  BY <1>1, <1>2 DEF QInv, TypeOK
<1>4. MapIsTrue' /\ SlotsAreCounted' /\ StoppedIsEmpty' /\ NoIdleSlot' /\ OwedAreAccepted'
  BY <1>1 DEF QInv, MapIsTrue, SlotsAreCounted, SlotsCounted, StoppedIsEmpty, NoIdleSlot,
              OwedAreAccepted
<1>5. TriggerRemembered'
  BY <1>1, <1>2 DEF QInv, TriggerRemembered
<1> QED
  BY <1>3, <1>4, <1>5 DEF QInv

LEMMA SlotKeeps == QInv /\ SlotFrees => QInv'
<1> SUFFICES ASSUME QInv, SlotFrees PROVE QInv'
  OBVIOUS
<1> USE DEF world, loop, pass
<1>1. /\ ending > 0 /\ ending' = ending - 1 /\ active' = active - 1 /\ draining' = TRUE
      /\ UNCHANGED <<world, queue, retry, running, event, tasks, owed, loop, pass>>
  BY DEF SlotFrees
<1>2. SlotsAreCounted' /\ active' \in 0..Slots /\ ending' \in 0..Slots
  <2>1. Cardinality(event) \in Nat /\ ending \in 0..Slots /\ active \in 0..Slots /\ Slots \in Nat
    BY FS_CardinalityType, PollerAssumption DEF QInv, TypeOK, SlotsAreCounted
  <2>2. active = Cardinality(event) + ending /\ IsFiniteSet(event)
    BY DEF QInv, SlotsAreCounted, SlotsCounted
  <2>3. active' = Cardinality(event) + ending' /\ active' \in 0..Slots /\ ending' \in 0..Slots
    BY <1>1, <2>1, <2>2
  <2> QED
    BY <1>1, <2>2, <2>3 DEF SlotsAreCounted, SlotsCounted
<1>3. TypeOK'
  BY <1>1, <1>2 DEF QInv, TypeOK
<1>4. MapIsTrue' /\ StoppedIsEmpty' /\ NoIdleSlot' /\ OwedAreAccepted' /\ TriggerRemembered'
  BY <1>1 DEF QInv, MapIsTrue, StoppedIsEmpty, NoIdleSlot, OwedAreAccepted, TriggerRemembered
<1> QED
  BY <1>2, <1>3, <1>4 DEF QInv

LEMMA TakeKeeps ==
  ASSUME QInv, NEW s \in Ids, PassTakes(s) PROVE QInv'
<1> USE DEF world, loop
<1>1. /\ ~draining /\ on' = s /\ todo' = [todo EXCEPT !.left = @ \ {s}]
      /\ UNCHANGED <<world, queue, retry, active, event, draining, ending, loop>>
  BY DEF PassTakes
<1>2. todo' \in [rows : BOOLEAN, left : SUBSET Ids]
  BY <1>1 DEF QInv, TypeOK
<1>3. CASE s \in running /\ UNCHANGED <<running, tasks, owed>>
  <2>1. TypeOK'
    BY <1>1, <1>2, <1>3 DEF QInv, TypeOK
  <2> QED
    BY <1>1, <1>3, <2>1
       DEF QInv, MapIsTrue, SlotsAreCounted, SlotsCounted, StoppedIsEmpty, NoIdleSlot,
           OwedAreAccepted, TriggerRemembered
<1>4. CASE s \notin running /\ running' = running \cup {s}
           /\ tasks' = [tasks EXCEPT ![s] = @ + 1] /\ owed' = owed \ {s}
  <2>1. tasks' \in [Ids -> Nat]
    BY <1>4 DEF QInv, TypeOK
  <2>2. TypeOK'
    BY <1>1, <1>2, <1>4, <2>1 DEF QInv, TypeOK
  <2>3. MapIsTrue'
    BY <1>1, <1>4 DEF QInv, TypeOK, MapIsTrue
  <2>4. SlotsAreCounted' /\ StoppedIsEmpty' /\ NoIdleSlot' /\ OwedAreAccepted'
    BY <1>1, <1>4 DEF QInv, SlotsAreCounted, SlotsCounted, StoppedIsEmpty, NoIdleSlot,
                      OwedAreAccepted
  <2>5. TriggerRemembered'
    BY <1>1, <1>4 DEF QInv, TriggerRemembered
  <2> QED
    BY <2>2, <2>3, <2>4, <2>5 DEF QInv
<1> QED
  BY <1>3, <1>4 DEF PassTakes, RunOne

LEMMA StopKeeps == QInv /\ Stop => QInv'
<1> SUFFICES ASSUME QInv, Stop PROVE QInv'
  OBVIOUS
<1> USE DEF world, pass
<1>1. /\ stopped' = TRUE /\ again' = FALSE /\ timer' = FALSE /\ passing' = passing
      /\ queue' = <<>> /\ retry' = {}
      /\ UNCHANGED <<world, running, active, event, tasks, owed, draining, ending, pass>>
  BY DEF Stop, Loop!Stop
<1>2. TypeOK'
  BY <1>1, EmptyIsASet DEF QInv, TypeOK
<1>3. MapIsTrue' /\ SlotsAreCounted' /\ StoppedIsEmpty' /\ NoIdleSlot' /\ OwedAreAccepted'
      /\ TriggerRemembered'
  BY <1>1 DEF QInv, MapIsTrue, SlotsAreCounted, SlotsCounted, StoppedIsEmpty, NoIdleSlot,
              OwedAreAccepted, TriggerRemembered
<1> QED
  BY <1>2, <1>3 DEF QInv

-----------------------------------------------------------------------------
LEMMA StepKeeps == QInv /\ [Next]_vars => QInv'
<1> SUFFICES ASSUME QInv, [Next]_vars PROVE QInv'
  OBVIOUS
<1> USE DEF world, work, loop, pass
<1>0. faults \in Int /\ MaxFaults \in Int
  BY PollerAssumption DEF QInv, TypeOK
<1>1. ASSUME NEW s \in Ids, Trigger(s) PROVE QInv'
  BY <1>1, TriggerKeeps
<1>2. ASSUME NEW s \in Ids, TaskEnds(s) PROVE QInv'
  <2>1. todo' \in [rows : BOOLEAN, left : SUBSET Ids] /\ faults' \in 0..MaxFaults /\ faults <= faults'
    BY <1>0, <1>2 DEF TaskEnds, QInv, TypeOK
  <2> QED
    BY <1>2, <2>1, EndKeeps DEF TaskEnds
<1>3. ASSUME NEW s \in Ids, TaskRejects(s) PROVE QInv'
  <2>1. todo' \in [rows : BOOLEAN, left : SUBSET Ids]
    BY <1>3 DEF TaskRejects, QInv, TypeOK
  <2>2. faults' \in 0..MaxFaults /\ faults <= faults'
    BY <1>0, <1>3 DEF TaskRejects, QInv, TypeOK
  <2> QED
    BY <1>3, <2>1, <2>2, EndKeeps DEF TaskRejects
<1>4. ASSUME NEW s \in Ids, PassTakes(s) PROVE QInv'
  BY <1>4, TakeKeeps
<1>5. ASSUME NEW s \in Ids, RowMoves(s) PROVE QInv'
  <2>1. TypeOK'
    BY <1>5 DEF RowMoves, QInv, TypeOK
  <2>2. \A x \in Ids : row'[x] = row[x] \/ (row[x] = "none" /\ row'[x] = "pending")
                                        \/ row'[x] = "done"
    BY <1>5 DEF RowMoves, QInv, TypeOK
  <2>3. UNCHANGED <<work, draining, ending, stopped>> /\ faults <= faults'
    BY <1>0, <1>5 DEF RowMoves
  <2> QED
    BY <2>1, <2>2, <2>3, ElsewhereKeeps
<1>6. CASE DrainRound
  BY <1>6, RoundKeeps
<1>7. CASE DrainReturns
  BY <1>7, ReturnKeeps
<1>8. CASE SlotFrees
  BY <1>8, SlotKeeps
<1>9. CASE PassReads
  <2>1. todo' \in [rows : BOOLEAN, left : SUBSET Ids]
    BY <1>9, TodoTyped DEF PassReads
  <2>2. faults' \in 0..MaxFaults /\ faults <= faults'
    BY <1>0, <1>9 DEF PassReads, QInv, TypeOK
  <2>3. TypeOK'
    BY <1>9, <2>1, <2>2 DEF PassReads, QInv, TypeOK
  <2> QED
    BY <1>9, <2>2, <2>3, ElsewhereKeeps DEF PassReads
<1>10. CASE TriggerPass \/ PassEnds \/ TimerFires
  <2>1. UNCHANGED <<world, work, draining, ending, stopped, on>>
    BY <1>10 DEF TriggerPass, PassEnds, TimerFires, Loop!Trigger, Loop!PassEnds, Loop!TimerFires
  <2>2. todo' \in [rows : BOOLEAN, left : SUBSET Ids]
    <3>1. todo' = todo \/ todo' = Unread
      BY <1>10 DEF TriggerPass, PassEnds, TimerFires
    <3> QED
      BY <3>1, TodoTyped DEF QInv, TypeOK
  <2>3. passing' \in BOOLEAN /\ again' \in BOOLEAN /\ timer' \in BOOLEAN
    BY <1>10 DEF TriggerPass, PassEnds, TimerFires, Loop!Trigger, Loop!PassEnds, Loop!TimerFires,
                 QInv, TypeOK
  <2>4. TypeOK'
    BY <2>1, <2>2, <2>3 DEF QInv, TypeOK
  <2>5. faults <= faults'
    BY <1>0, <2>1
  <2> QED
    BY <2>1, <2>4, <2>5, ElsewhereKeeps
<1>11. CASE Stop
  BY <1>11, StopKeeps
<1>12. CASE UNCHANGED vars
  <2>1. TypeOK'
    BY <1>12 DEF vars, QInv, TypeOK
  <2>2. UNCHANGED <<work, draining, ending, stopped, row>> /\ faults <= faults'
    BY <1>0, <1>12 DEF vars
  <2> QED
    BY <2>1, <2>2, ElsewhereKeeps
<1> QED
  BY <1>1, <1>2, <1>3, <1>4, <1>5, <1>6, <1>7, <1>8, <1>9, <1>10, <1>11, <1>12 DEF Next

LEMMA QInvHolds == Spec => []QInv
  BY InitHolds, StepKeeps, PTL DEF Spec

(* Type correctness; the slots in use are never more than the poller has,   *)
(* and the queue holds a swap at most once.                                 *)
THEOREM QueueTypeCorrect == Spec => []TypeOK
<1>1. QInv => TypeOK
  BY DEF QInv
<1> QED
  BY <1>1, QInvHolds, PTL

(* The pass and the queue never work on one swap twice at once.             *)
THEOREM NeverTwoTasks == Spec => []OnePerSwap
<1>1. QInv => OnePerSwap
  BY DEF QInv, MapIsTrue, OnePerSwap
<1> QED
  BY <1>1, QInvHolds, PTL

(* Every slot is held by a task, on whatever path tasks ended.              *)
THEOREM NoSlotLeaks == Spec => []SlotsCounted
<1>1. QInv => SlotsCounted
  BY DEF QInv, SlotsAreCounted
<1> QED
  BY <1>1, QInvHolds, PTL

(* Nothing waits in the queue with a slot free once drain is done.          *)
THEOREM NoMissedWakeup == Spec => []NoIdleSlot
<1>1. QInv => NoIdleSlot
  BY DEF QInv
<1> QED
  BY <1>1, QInvHolds, PTL

(* A trigger that no task has answered is not forgotten, short of a fault.  *)
THEOREM TriggersAreKept == Spec => []TriggerRemembered
<1>1. QInv => TriggerRemembered
  BY DEF QInv
<1> QED
  BY <1>1, QInvHolds, PTL
=============================================================================
