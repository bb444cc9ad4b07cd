----------------------------- MODULE CatchUpLoop -----------------------------
(***************************************************************************)
(* startCatchUpLoop, the clock every background worker runs on: one pass   *)
(* at a time, on a trigger or an interval after the last one ended. What a *)
(* pass does is the business of the module that instantiates this one.     *)
(***************************************************************************)

CONSTANT Immediate    (* does the first pass run at once?                   *)

VARIABLES
  inFlight,   (* a pass is under way                                        *)
  queued,     (* one more is to follow it                                   *)
  stopped,
  next        (* the timer of the next pass is armed                        *)

vars == <<inFlight, queued, stopped, next>>

Init ==
  /\ inFlight = Immediate
  /\ next = ~Immediate
  /\ queued = FALSE
  /\ stopped = FALSE

(* A trigger in the middle of a pass is kept for after it.                  *)
Trigger ==
  /\ ~stopped
  /\ \/ inFlight /\ queued' = TRUE /\ UNCHANGED <<inFlight, next>>
     \/ ~inFlight /\ inFlight' = TRUE /\ next' = FALSE /\ UNCHANGED queued
  /\ stopped' = stopped

TimerFires ==
  /\ next /\ ~stopped
  /\ next' = FALSE
  /\ inFlight' = TRUE
  /\ UNCHANGED queued
  /\ stopped' = stopped

(* Resolved or rejected, a pass gives way to the queued one or the timer.   *)
PassEnds ==
  /\ inFlight
  /\ \/ queued /\ ~stopped /\ queued' = FALSE /\ UNCHANGED <<inFlight, next>>
     \/ /\ ~(queued /\ ~stopped)
        /\ inFlight' = FALSE
        /\ next' = ~stopped
        /\ UNCHANGED queued
  /\ stopped' = stopped

Stop ==
  /\ stopped' = TRUE /\ queued' = FALSE /\ next' = FALSE
  /\ UNCHANGED inFlight
=============================================================================
