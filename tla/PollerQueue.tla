----------------------------- MODULE PollerQueue -----------------------------
(***************************************************************************)
(* Which swap the settlement poller works on, and when                     *)
(* (startOfflineSettlementPoller; what one task does is OfflineSwap's).    *)
(*                                                                         *)
(* Two callers start tasks: the catch-up pass, which takes the pending     *)
(* rows one after another, and the queue of swaps the lockup watcher saw   *)
(* move, which runs up to Slots of them side by side. They share the map   *)
(* of running tasks. drain, which both the queue and an ended task call, is *)
(* taken one round of its loop at a time, with nothing else in between.     *)
(***************************************************************************)
EXTENDS Integers, Sequences, FiniteSets, Functions, SequencesExt

CONSTANTS
  Ids,         (* swaps                                                     *)
  None,        (* the pass awaits no task                                   *)
  Slots,       (* tasks the queue may have at once: 8 in the code           *)
  Hung,        (* swaps whose task need not come back                       *)
  MaxFaults    (* bound on the database reads that throw                    *)

ASSUME PollerAssumption ==
  /\ None \notin Ids /\ Hung \subseteq Ids
  /\ Slots \in Nat \ {0} /\ MaxFaults \in Nat

VARIABLES
  row,         (* the swap's row: none, pending or done                     *)
  faults,      (* reads that have thrown                                    *)
  queue,       (* `queued`, in insertion order                              *)
  retry,       (* triggered while their task was running                    *)
  running,     (* the keys of the map `running`                             *)
  active,      (* slots in use                                              *)
  event,       (* running tasks that hold a slot                            *)
  ending,      (* tasks that ended and still hold theirs                    *)
  tasks,       (* tasks[s]: how many settle s right now                     *)
  owed,        (* swaps triggered and not looked at since                   *)
  draining,    (* drain is in its loop                                      *)
  passing, again, stopped, timer,   (* the catch-up loop                    *)
  todo, on     (* the pass: rows it has still to take, the one it awaits    *)

world == <<row, faults>>
work  == <<queue, retry, running, active, event, tasks, owed>>
loop  == <<passing, again, stopped, timer>>
pass  == <<todo, on>>
vars  == <<world, work, draining, ending, loop, pass>>

Loop == INSTANCE CatchUpLoop WITH
          Immediate <- TRUE, inFlight <- passing, queued <- again, next <- timer

(* The pass has not read its rows yet.                                      *)
Unread == [rows |-> FALSE, left |-> {}]

TypeOK ==
  /\ row \in [Ids -> {"none", "pending", "done"}]
  /\ faults \in 0..MaxFaults
  /\ queue \in Seq(Ids) /\ IsInjective(queue)
  /\ retry \subseteq Ids /\ running \subseteq Ids /\ event \subseteq Ids /\ owed \subseteq Ids
  /\ active \in 0..Slots /\ ending \in 0..Slots
  /\ tasks \in [Ids -> Nat]
  /\ draining \in BOOLEAN
  /\ passing \in BOOLEAN /\ again \in BOOLEAN /\ stopped \in BOOLEAN /\ timer \in BOOLEAN
  /\ todo \in [rows : BOOLEAN, left : SUBSET Ids]
  /\ on \in Ids \cup {None}

-----------------------------------------------------------------------------
(* Between two turns of the event loop: drain has returned and the finallys *)
(* of ended tasks have run. Events and timers wait for it.                  *)
Settled == ending = 0 /\ ~draining

(* Adding to a Set what it holds changes nothing.                           *)
Enqueued(s) == IF s \in ToSet(queue) THEN queue ELSE Append(queue, s)

(* Mutant of RunOne: starts one whatever is running.                        *)
RunOneAgain(s) ==
  /\ running' = running \cup {s}
  /\ tasks' = [tasks EXCEPT ![s] = @ + 1]
  /\ owed' = owed \ {s}

(* runOne: a task already running is joined, not doubled.                   *)
RunOne(s) ==
  \/ s \in running /\ UNCHANGED <<running, tasks, owed>>
  \/ /\ s \notin running
     /\ running' = running \cup {s}
     /\ tasks' = [tasks EXCEPT ![s] = @ + 1]
     /\ owed' = owed \ {s}

-----------------------------------------------------------------------------
(* drain.                                                                   *)

(* Mutant of DrainGoesOn: one slot too many.                                *)
DrainGoesOnLate == ~stopped /\ active <= Slots /\ queue # <<>>

DrainGoesOn == ~stopped /\ active < Slots /\ queue # <<>>

(* The head of the queue is running: it gets its look after that task.      *)
DrainRetries ==
  /\ Head(queue) \in running
  /\ retry' = retry \cup {Head(queue)}
  /\ UNCHANGED <<faults, running, active, event, tasks, owed>>

(* Reading the rows throws, or the row is not pending: the entry is gone.   *)
DrainSkips ==
  /\ Head(queue) \notin running
  /\ \/ faults < MaxFaults /\ faults' = faults + 1
     \/ row[Head(queue)] # "pending" /\ UNCHANGED faults
  /\ UNCHANGED <<retry, running, active, event, tasks, owed>>

DrainStarts ==
  /\ Head(queue) \notin running /\ row[Head(queue)] = "pending"
  /\ RunOne(Head(queue))
  /\ active' = active + 1
  /\ event' = event \cup {Head(queue)}
  /\ UNCHANGED <<faults, retry>>

DrainRound ==
  /\ draining /\ DrainGoesOn
  /\ queue' = Tail(queue)
  /\ DrainRetries \/ DrainSkips \/ DrainStarts
  /\ UNCHANGED <<row, draining, ending, loop, pass>>

DrainReturns ==
  /\ draining /\ ~DrainGoesOn
  /\ draining' = FALSE
  /\ UNCHANGED <<world, work, ending, loop, pass>>

-----------------------------------------------------------------------------
(* The poller.                                                              *)

(* Mutant of Trigger: a swap being worked on needs no second look.          *)
TriggerIfIdle(s) ==
  /\ Settled /\ ~stopped
  /\ row[s] # "none"
  /\ queue' = IF s \in running THEN queue ELSE Enqueued(s)
  /\ owed' = owed \cup {s}
  /\ draining' = TRUE
  /\ UNCHANGED <<world, retry, running, active, event, tasks, ending, loop, pass>>

(* trigger(swapId), from the lockup watcher or one of its delayed rechecks. *)
Trigger(s) ==
  /\ Settled /\ ~stopped
  /\ row[s] # "none"
  /\ \/ s \in running /\ retry' = retry \cup {s} /\ UNCHANGED queue
     \/ s \notin running /\ queue' = Enqueued(s) /\ UNCHANGED retry
  /\ owed' = owed \cup {s}
  /\ draining' = TRUE
  /\ UNCHANGED <<world, running, active, event, tasks, ending, loop, pass>>

(* Mutant of LeavesMap: a retry is taken off the set and not put back.      *)
LeavesMapForgets(s) ==
  /\ running' = running \ {s}
  /\ tasks' = [tasks EXCEPT ![s] = @ - 1]
  /\ retry' = retry \ {s}
  /\ UNCHANGED queue

(* The task's own finally: off the map, a retry back in the queue.          *)
LeavesMap(s) ==
  /\ running' = running \ {s}
  /\ tasks' = [tasks EXCEPT ![s] = @ - 1]
  /\ retry' = retry \ {s}
  /\ queue' = IF s \in retry THEN Enqueued(s) ELSE queue

(* Mutant of GivesSlotBack: only a task that settled its row gives it back. *)
GivesSlotBackIfSettled(s) ==
  /\ ending' = IF s \in event /\ row'[s] = "done" THEN ending + 1 ELSE ending
  /\ event' = event \ {s}

(* A task of the queue gives its slot back in drain's finally, later in the *)
(* same turn; one of the pass has none.                                     *)
GivesSlotBack(s) ==
  /\ ending' = IF s \in event THEN ending + 1 ELSE ending
  /\ event' = event \ {s}

(* settleOne settled the row, or left it for another look.                  *)
TaskEnds(s) ==
  /\ ~draining /\ tasks[s] > 0
  /\ \/ UNCHANGED row
     \/ row[s] = "pending" /\ row' = [row EXCEPT ![s] = "done"]
  /\ LeavesMap(s) /\ GivesSlotBack(s) /\ draining' = TRUE
  /\ on' = IF on = s THEN None ELSE on
  /\ UNCHANGED <<faults, active, owed, loop, todo>>

(* The read at the head of the task threw: a pass awaiting it is over.      *)
TaskRejects(s) ==
  /\ ~draining /\ tasks[s] > 0
  /\ faults < MaxFaults /\ faults' = faults + 1
  /\ LeavesMap(s) /\ GivesSlotBack(s) /\ draining' = TRUE
  /\ on' = IF on = s THEN None ELSE on
  /\ todo' = IF on = s THEN [todo EXCEPT !.left = {}] ELSE todo
  /\ UNCHANGED <<row, active, owed, loop>>

(* Mutant of SlotFrees: nobody drains into the slot.                        *)
SlotFreesIdle ==
  /\ ~draining /\ ending > 0
  /\ ending' = ending - 1
  /\ active' = active - 1
  /\ UNCHANGED <<world, queue, retry, running, event, tasks, owed, draining, loop, pass>>

(* drain's own finally.                                                     *)
SlotFrees ==
  /\ ~draining /\ ending > 0
  /\ ending' = ending - 1
  /\ active' = active - 1
  /\ draining' = TRUE
  /\ UNCHANGED <<world, queue, retry, running, event, tasks, owed, loop, pass>>

(* trigger() without a swap asks for a whole pass.                          *)
TriggerPass ==
  /\ Settled
  /\ Loop!Trigger
  /\ UNCHANGED <<world, work, draining, ending, pass>>

PassReads ==
  /\ ~draining /\ passing /\ ~todo.rows
  /\ \/ todo' = [rows |-> TRUE, left |-> {s \in Ids : row[s] = "pending"}] /\ UNCHANGED faults
     \/ /\ faults < MaxFaults /\ faults' = faults + 1
        /\ todo' = [rows |-> TRUE, left |-> {}]
  /\ UNCHANGED <<row, work, draining, ending, loop, on>>

(* A stopped poller does not keep its pass from going on to the next row.   *)
PassTakes(s) ==
  /\ ~draining /\ on = None
  /\ s \in todo.left
  /\ RunOne(s)
  /\ on' = s
  /\ todo' = [todo EXCEPT !.left = @ \ {s}]
  /\ UNCHANGED <<world, queue, retry, active, event, draining, ending, loop>>

(* Mutant of PassEnds: a pass cut short by an error schedules no other.     *)
PassEndsForGood ==
  /\ ~draining /\ todo.rows /\ todo.left = {} /\ on = None
  /\ IF faults > 0 THEN passing' = FALSE /\ UNCHANGED <<again, stopped, timer>>
                   ELSE Loop!PassEnds
  /\ todo' = Unread
  /\ UNCHANGED <<world, work, draining, ending, on>>

PassEnds ==
  /\ ~draining /\ todo.rows /\ todo.left = {} /\ on = None
  /\ Loop!PassEnds
  /\ todo' = Unread
  /\ UNCHANGED <<world, work, draining, ending, on>>

TimerFires ==
  /\ Settled
  /\ Loop!TimerFires
  /\ UNCHANGED <<world, work, draining, ending, pass>>

Stop ==
  /\ Settled /\ ~stopped
  /\ Loop!Stop
  /\ queue' = <<>> /\ retry' = {}
  /\ UNCHANGED <<world, running, active, event, tasks, owed, draining, ending, pass>>

(* External: a swap is accepted; a row lapses.                              *)
RowMoves(s) ==
  /\ Settled
  /\ \/ row[s] = "none" /\ row' = [row EXCEPT ![s] = "pending"]
     \/ row[s] = "pending" /\ row' = [row EXCEPT ![s] = "done"]
  /\ UNCHANGED <<faults, work, draining, ending, loop, pass>>

Init ==
  /\ row \in [Ids -> {"none", "pending"}]
  /\ faults = 0
  /\ queue = <<>> /\ retry = {} /\ running = {} /\ active = 0 /\ event = {} /\ ending = 0
  /\ tasks = [s \in Ids |-> 0] /\ owed = {} /\ draining = FALSE
  /\ Loop!Init
  /\ todo = Unread /\ on = None

Next ==
  \/ \E s \in Ids :
       Trigger(s) \/ TaskEnds(s) \/ TaskRejects(s) \/ PassTakes(s) \/ RowMoves(s)
  \/ DrainRound \/ DrainReturns \/ TriggerPass \/ SlotFrees \/ PassReads \/ PassEnds \/ TimerFires \/ Stop

(* The event loop gets to whatever is ready, though triggers may put it off *)
(* again and again: promises settle and timers fire. A task of Hung may     *)
(* never come back, and nobody owes a trigger, a row or a stop.             *)
Fairness ==
  /\ WF_vars(DrainRound \/ DrainReturns)
  /\ \A s \in Ids \ Hung : SF_vars(TaskEnds(s))
  /\ SF_vars(SlotFrees) /\ SF_vars(PassReads) /\ SF_vars(PassEnds) /\ SF_vars(TimerFires)
  /\ SF_vars(\E s \in Ids : PassTakes(s))

Spec == Init /\ [][Next]_vars /\ Fairness

-----------------------------------------------------------------------------

(* The pass and the queue never settle one swap twice at once, which would *)
(* submit two claims of one lockup; OfflineSwap has one task per swap.     *)
OnePerSwap == \A s \in Ids : tasks[s] <= 1

(* A slot is held by a running task of the queue, or by one that ended     *)
(* within the turn: none leaks, on any path, so the queue keeps its width. *)
SlotsCounted == active = Cardinality(event) + ending

(* When drain is done, a swap waits in the queue only for a slot: no wakeup *)
(* is missed.                                                               *)
NoIdleSlot == queue # <<>> /\ ~draining => active = Slots

(* A trigger that no task has answered is in the queue or will be put back *)
(* there by the task that runs now, which may have read the chain before.  *)
TriggerRemembered ==
  \A s \in owed :
    row[s] = "pending" /\ ~stopped /\ faults = 0 =>
      s \in ToSet(queue) \/ (s \in retry /\ s \in running)

(* A swap whose task hangs, and with it the pass that awaits it, does not  *)
(* keep the others' events from being answered while a slot is left.       *)
EventsServed ==
  [](Cardinality(event \cap Hung) < Slots) =>
    \A s \in Ids \ Hung :
      s \in owed ~> (s \notin owed \/ row[s] # "pending" \/ stopped \/ faults > 0)

(* "this covers what no event can": if every task comes back, a pending    *)
(* row is looked at again and again, also after a pass that threw or a     *)
(* trigger lost to a failed read.                                          *)
CatchUpCovers ==
  (\A s \in Hung : []<>(tasks[s] = 0)) =>
    \A s \in Ids : []<>(tasks[s] > 0 \/ row[s] # "pending" \/ stopped)
=============================================================================
