----------------------------- MODULE FixedFloat -----------------------------
(***************************************************************************)
(* Token deposits through FixedFloat. A payer's callback reserves create's *)
(* share of the request budget, asks a price, has the corridor swap made   *)
(* and creates an order that pays its invoice. The order poller follows    *)
(* what FixedFloat says of the order. The corridor alone settles the row;  *)
(* the payer's deposit txid, whichever of the poller and the settlement    *)
(* hook sees it, becomes the row's reference.                              *)
(*                                                                         *)
(* Callbacks, poller and hook run at the same time and share one client:   *)
(* its sliding window of weights and its pause after errors. Both are lost *)
(* with the process; rows and orders are not, nor is what FixedFloat       *)
(* counts of the requests it got.                                          *)
(***************************************************************************)
EXTENDS Integers, FiniteSets

CONSTANTS
  Orders,             (* token callbacks; one makes one order, if any      *)
  Address,            (* [Orders -> any]: the receiver of each             *)
  MaxOpen, MaxOpenPerAddress,
  Limit, Window,      (* FfBudget's, the window in ticks of the clock      *)
  CallWeight, CreateWeight,
  Cycle,              (* an expired order is asked about every Cycle passes *)
  None

ASSUME FixedFloatAssumption ==
  /\ {MaxOpen, MaxOpenPerAddress, Limit, Window, CallWeight, CreateWeight, Cycle} \subseteq Nat \ {0}
  /\ IsFiniteSet(Orders) /\ None \notin Orders /\ None \notin Nat

VARIABLES
  quote,       (* of each callback: where it stands                        *)
  spent,       (* FfBudget.spent: the age of its reservation's entry       *)
  sent,        (* the age of its create, as FixedFloat counts it           *)
  calls,       (* how many other calls of each age FixedFloat counts       *)
  uptime,      (* ticks since the last restart, at most a window's         *)
  overheld,    (* history: creates whose entry had left the window         *)
  paused,      (* the breaker is open                                      *)
  order,       (* at FixedFloat: [status, txid]                            *)
  status,      (* ff_orders.status                                         *)
  txid,        (* orders with a deposit_txid                               *)
  settled, referenced,     (* their settlement rows                        *)
  lapsed, past,            (* past their deadline, past the TTL            *)
  poll,        (* the order poller's pass                                  *)
  hook         (* ffReferenceOnSettle of each settled order                *)

budget == <<spent, calls, sent, overheld, uptime, paused>>
db     == <<status, txid, settled, referenced>>
vars   == <<quote, budget, order, db, lapsed, past, poll, hook>>

(* PENDING stands for every status between deposit and DONE, EMERGENCY too. *)
Statuses == {"NEW", "EXPIRED", "PENDING", "DONE"}
Answers  == [status : Statuses, txid : BOOLEAN]
Ages     == 0..(Window - 1)

ASSUME NoneAssumption == None \notin Statuses /\ None \notin Answers

IdlePoll == [todo |-> {}, asking |-> None, got |-> None, pass |-> 0]

TypeOK ==
  /\ quote \in [Orders -> {"none", "pricing", "swapping", "creating", "over"}]
  /\ spent \in [Orders -> Nat \cup {None}]
  /\ calls \in [Ages -> Nat]
  /\ sent \in [Orders -> Ages \cup {None}] /\ overheld \subseteq Orders
  /\ uptime \in Ages
  /\ paused \in BOOLEAN
  /\ order \in [Orders -> Answers \cup {None}]
  /\ status \in [Orders -> Statuses \cup {None}]
  /\ txid \subseteq Orders /\ settled \subseteq Orders
  /\ referenced \subseteq settled \cap txid
  /\ \A o \in Orders : status[o] = None => o \notin txid \cup settled
  /\ lapsed \subseteq Orders /\ past \subseteq Orders
  /\ poll \in [todo : SUBSET Orders, asking : Orders \cup {None}, got : Answers \cup {None},
               pass : 0..(Cycle - 1)]
  /\ hook \in [Orders -> {"none", "due", "asking"}]

-----------------------------------------------------------------------------
(* The budget and the breaker.                                             *)

(* used(): entries that left the window are dropped whenever anybody asks. *)
Kept == [o \in Orders |-> IF spent[o] # None /\ spent[o] < Window THEN spent[o] ELSE None]

(* FfBudget.spent: the calls made since the process started. FixedFloat    *)
(* counts these, and those of the process before.                          *)
Ours == [a \in Ages |-> IF a <= uptime THEN calls[a] ELSE 0]

(* The calls cs counts, one by one.                                        *)
Made(cs) == UNION {{a} \X (1..cs[a]) : a \in Ages}

Weight(os, cs) == CreateWeight * Cardinality(os) + CallWeight * Cardinality(Made(cs))

Used == Weight({o \in Orders : Kept[o] # None}, Ours)

(* Taken, or refused: FfBudgetError, or FfCooldownError while paused.      *)
TakeCall ==
  /\ ~paused /\ Used + CallWeight <= Limit
  /\ spent' = Kept /\ calls' = [calls EXCEPT ![0] = @ + 1]
  /\ UNCHANGED <<sent, overheld, uptime, paused>>

CallRefused ==
  \/ paused /\ UNCHANGED budget
  \/ /\ ~paused /\ Used + CallWeight > Limit
     /\ spent' = Kept /\ UNCHANGED <<calls, sent, overheld, uptime, paused>>

(* FixedFloat answers: any answer closes the breaker. An error opens it    *)
(* when it is the fifth in a row or a 429.                                 *)
Passes == paused' = FALSE /\ UNCHANGED <<spent, calls, sent, overheld, uptime>>
Fails  == paused' \in {paused, TRUE} /\ UNCHANGED <<spent, calls, sent, overheld, uptime>>

(* The rates' refresh calls ccies, which is answered or fails. Bound: once *)
(* an order is stored, the poller's calls stand for these.                 *)
Refresh ==
  /\ \A o \in Orders : status[o] = None
  /\ ~paused /\ Used + CallWeight <= Limit
  /\ spent' = Kept /\ calls' = [calls EXCEPT ![0] = @ + 1]
  /\ paused' \in BOOLEAN
  /\ UNCHANGED <<quote, sent, overheld, uptime, order, db, lapsed, past, poll, hook>>

Resume ==
  /\ paused /\ paused' = FALSE
  /\ UNCHANGED <<quote, spent, calls, sent, overheld, uptime, order, db, lapsed, past, poll, hook>>

(* A tick at FixedFloat: what was sent a window ago is no longer counted.  *)
WindowMoves ==
  /\ sent' = [o \in Orders |-> IF sent[o] \in {None, Window - 1} THEN None ELSE sent[o] + 1]
  /\ calls' = [a \in Ages |-> IF a = 0 THEN 0 ELSE calls[a - 1]]

Tick ==
  /\ WindowMoves
  /\ spent' = [o \in Orders |-> IF spent[o] \in {None, Window} THEN spent[o] ELSE spent[o] + 1]
  /\ uptime' = IF uptime = Window - 1 THEN uptime ELSE uptime + 1
  /\ UNCHANGED <<quote, overheld, paused, order, db, lapsed, past, poll, hook>>

-----------------------------------------------------------------------------
(* A payer's callback.                                                     *)

InFlight == {o \in Orders : quote[o] \in {"pricing", "swapping", "creating"}}
AwaitingDeposit == {o \in Orders : status[o] = "NEW" /\ o \notin lapsed}

(* The open-order caps; a callback adds itself to the quotes in flight.    *)
Room(o) ==
  /\ Cardinality({p \in InFlight \cup AwaitingDeposit : Address[p] = Address[o]}) < MaxOpenPerAddress
  /\ Cardinality(InFlight \cup AwaitingDeposit) < MaxOpen

(* reserveCreate, and in the same breath the price call.                   *)
Callback(o) ==
  /\ quote[o] = "none" /\ Room(o)
  /\ ~paused /\ Used + CreateWeight + CallWeight <= Limit
  /\ spent' = [Kept EXCEPT ![o] = 0]
  /\ calls' = [calls EXCEPT ![0] = @ + 1]
  /\ quote' = [quote EXCEPT ![o] = "pricing"]
  /\ UNCHANGED <<sent, overheld, uptime, paused, order, db, lapsed, past, poll, hook>>

CallbackBusy(o) ==
  /\ quote[o] = "none" /\ Room(o)
  /\ ~paused /\ Used + CreateWeight + CallWeight > Limit
  /\ spent' = Kept
  /\ UNCHANGED <<quote, calls, sent, overheld, uptime, paused, order, db, lapsed, past, poll, hook>>

(* release: a create that was sent keeps its entry.                        *)
Release(o) == spent' = IF quote[o] = "creating" THEN spent ELSE [spent EXCEPT ![o] = None]

Over(o) == quote' = [quote EXCEPT ![o] = "over"]

(* The price, the corridor swap or the order cannot be had, or is refused, *)
(* or cannot be stored. Only FixedFloat's own failures count for the       *)
(* breaker, and an answer that is then refused is an answer.               *)
QuoteFails(o) ==
  /\ o \in InFlight
  /\ Over(o) /\ Release(o)
  /\ paused' \in IF quote[o] = "swapping" THEN {paused} ELSE BOOLEAN
  /\ UNCHANGED <<calls, sent, overheld, uptime, order, db, lapsed, past, poll, hook>>

Priced(o) ==
  /\ quote[o] = "pricing"
  /\ quote' = [quote EXCEPT ![o] = "swapping"]
  /\ Passes
  /\ UNCHANGED <<order, db, lapsed, past, poll, hook>>

(* Mutant of Restamp: the entry keeps the time of the reservation.         *)
RestampNever(o) == UNCHANGED spent

(* An entry that used() has dropped is re-dated in vain.                   *)
Restamp(o) == spent' = [spent EXCEPT ![o] = IF @ = None THEN None ELSE 0]

(* The swap is made; create is sent, unless calls are paused.              *)
Create(o) ==
  /\ quote[o] = "swapping" /\ ~paused
  /\ Restamp(o)
  /\ sent' = [sent EXCEPT ![o] = 0]
  /\ overheld' = IF spent[o] = None THEN overheld \cup {o} ELSE overheld
  /\ quote' = [quote EXCEPT ![o] = "creating"]
  /\ UNCHANGED <<calls, uptime, paused, order, db, lapsed, past, poll, hook>>

(* createAccepted: settlement, swap and order in one transaction.          *)
Accepted(o) ==
  /\ quote[o] = "creating"
  /\ Over(o) /\ Passes
  /\ order' = [order EXCEPT ![o] = [status |-> "NEW", txid |-> FALSE]]
  /\ status' = [status EXCEPT ![o] = "NEW"]
  /\ UNCHANGED <<txid, settled, referenced, lapsed, past, poll, hook>>

-----------------------------------------------------------------------------
(* What FixedFloat says, recorded.                                         *)

(* Mutant of FillReference: a row that has not settled takes it too.       *)
FillReferenceAny(known) == referenced' = referenced \cup known

(* fillReference: a settled row takes the txid of its order.               *)
FillReference(known) == referenced' = referenced \cup (settled \cap known)

(* recordStatus.                                                           *)
Record(o, a) ==
  LET known == IF a.txid THEN txid \cup {o} ELSE txid IN
  /\ status' = [status EXCEPT ![o] = a.status]
  /\ txid' = known
  /\ FillReference(known \cap {o})
  /\ UNCHANGED settled

(* Mutant of Listed: an order that is DONE is never asked about again.     *)
ListedUntilDone == {o \in Orders : status[o] # None /\ o \notin past /\ status[o] # "DONE"}

(* listOpen.                                                               *)
Listed ==
  {o \in Orders : status[o] # None /\ o \notin past /\
     (status[o] # "DONE" \/ (o \notin txid /\ o \in settled /\ o \notin referenced))}

(* Mutant of Wide: expired orders are never asked about.                   *)
WideNever == FALSE

(* Every Cycle-th pass asks about expired orders too.                      *)
Wide == poll.pass = 0

PassStarts ==
  LET todo == {o \in Listed : status[o] # "EXPIRED" \/ Wide} IN
  /\ poll.todo = {} /\ poll.asking = None
  /\ poll' = [poll EXCEPT !.todo = todo, !.pass = (@ + 1) % Cycle]
  /\ UNCHANGED <<quote, budget, order, db, lapsed, past, hook>>

(* With no budget for a call the pass is over.                             *)
PollAsks ==
  /\ poll.asking = None
  /\ \E o \in poll.todo :
       \/ TakeCall /\ poll' = [poll EXCEPT !.asking = o, !.todo = @ \ {o}]
       \/ CallRefused /\ poll' = [poll EXCEPT !.todo = {}]
  /\ UNCHANGED <<quote, order, db, lapsed, past, hook>>

(* FixedFloat answers; the answer takes its time.                          *)
PollAnswered ==
  /\ poll.asking # None /\ poll.got = None
  /\ poll' = [poll EXCEPT !.got = order[poll.asking]]
  /\ UNCHANGED <<quote, budget, order, db, lapsed, past, hook>>

PollRecords(o) ==
  /\ poll.asking = o /\ poll.got # None
  /\ Passes /\ Record(o, poll.got)
  /\ poll' = [poll EXCEPT !.asking = None, !.got = None]
  /\ UNCHANGED <<quote, order, lapsed, past, hook>>

(* The call fails, or what is answered is about another order.             *)
PollFails ==
  /\ poll.asking # None
  /\ Fails \/ Passes
  /\ poll' = [poll EXCEPT !.asking = None, !.got = None]
  /\ UNCHANGED <<quote, order, db, lapsed, past, hook>>

-----------------------------------------------------------------------------
(* The offline poller settles the row, lets the solver's transport go and  *)
(* then calls the hook, which asks once.                                   *)

Settle(o) ==
  /\ status[o] # None /\ o \notin settled /\ o \notin past
  /\ order[o].status \in {"PENDING", "DONE"}
  /\ settled' = settled \cup {o}
  /\ hook' = [hook EXCEPT ![o] = "due"]
  /\ UNCHANGED <<quote, budget, order, status, txid, referenced, lapsed, past, poll>>

HookRuns(o) ==
  /\ hook[o] = "due"
  /\ IF o \in txid \ referenced
     THEN FillReference({o}) /\ hook' = [hook EXCEPT ![o] = "none"] /\ UNCHANGED budget
     ELSE /\ \/ TakeCall /\ hook' = [hook EXCEPT ![o] = "asking"]
             \/ CallRefused /\ hook' = [hook EXCEPT ![o] = "none"]
          /\ UNCHANGED referenced
  /\ UNCHANGED <<quote, order, status, txid, settled, lapsed, past, poll>>

HookAnswered(o) ==
  /\ hook[o] = "asking"
  /\ hook' = [hook EXCEPT ![o] = "none"]
  /\ \/ Passes /\ Record(o, order[o])
     \/ (Fails \/ Passes) /\ UNCHANGED db
  /\ UNCHANGED <<quote, order, lapsed, past, poll>>

-----------------------------------------------------------------------------
(* External: FixedFloat with its payers, time, and the process.            *)

(* Bound: nobody looks at what becomes of an order past the TTL.           *)
Progress(o) ==
  /\ order[o] # None /\ o \notin past
  /\ LET s == order[o].status IN
     \E t \in Statuses :
       /\ \/ s \in {"NEW", "EXPIRED"} /\ t = "PENDING"     \* a deposit, late or not
          \/ s = "NEW" /\ o \in lapsed /\ t = "EXPIRED"
          \/ s = "PENDING" /\ t = "DONE"
       /\ order' = [order EXCEPT ![o].status = t]
  /\ UNCHANGED <<quote, budget, db, lapsed, past, poll, hook>>

ReportsTxid(o) ==
  /\ order[o] # None /\ o \notin past
  /\ order[o].status \in {"PENDING", "DONE"} /\ ~order[o].txid
  /\ order' = [order EXCEPT ![o].txid = TRUE]
  /\ UNCHANGED <<quote, budget, db, lapsed, past, poll, hook>>

Later(o) ==
  /\ status[o] # None
  /\ \/ o \notin lapsed /\ lapsed' = lapsed \cup {o} /\ UNCHANGED past
     \/ o \in lapsed \ past /\ past' = past \cup {o} /\ UNCHANGED lapsed
  /\ UNCHANGED <<quote, budget, order, db, poll, hook>>

(* A new process knows of no request; FixedFloat's count goes on. A boot   *)
(* takes a tick: the two processes send nothing in the same one.           *)
Restart ==
  /\ quote' = [o \in Orders |-> IF o \in InFlight THEN "over" ELSE quote[o]]
  /\ spent' = [o \in Orders |-> None] /\ uptime' = 0 /\ paused' = FALSE
  /\ WindowMoves
  /\ poll' = IdlePoll /\ hook' = [o \in Orders |-> "none"]
  /\ UNCHANGED <<overheld, order, db, lapsed, past>>

-----------------------------------------------------------------------------

Init ==
  /\ quote = [o \in Orders |-> "none"]
  /\ spent = [o \in Orders |-> None] /\ sent = [o \in Orders |-> None]
  /\ calls = [a \in Ages |-> 0] /\ uptime = Window - 1 /\ overheld = {} /\ paused = FALSE
  /\ order = [o \in Orders |-> None] /\ status = [o \in Orders |-> None]
  /\ txid = {} /\ settled = {} /\ referenced = {}
  /\ lapsed = {} /\ past = {}
  /\ poll = IdlePoll /\ hook = [o \in Orders |-> "none"]

CallbackStep(o) ==
  Callback(o) \/ CallbackBusy(o) \/ QuoteFails(o) \/ Priced(o) \/ Create(o) \/ Accepted(o)

PollStep == PassStarts \/ PollAsks \/ PollAnswered \/ PollFails \/ \E o \in Orders : PollRecords(o)

HookStep(o) == HookRuns(o) \/ HookAnswered(o)

Next ==
  \/ PollStep \/ Tick \/ Refresh \/ Resume \/ Restart
  \/ \E o \in Orders :
       CallbackStep(o) \/ Settle(o) \/ HookStep(o) \/ Progress(o) \/ ReportsTxid(o) \/ Later(o)

(* Time passes, the poller goes round, and neither a call that fails nor a *)
(* restart gets in the way of the same order for ever. Nobody owes a       *)
(* deposit or a settlement.                                                *)
Fairness ==
  /\ WF_vars(Tick) /\ WF_vars(PollStep)
  /\ SF_vars(Resume) /\ SF_vars(PollAnswered)
  /\ \A o \in Orders :
       /\ SF_vars(PollAsks /\ poll'.asking = o) /\ SF_vars(PollRecords(o))
       /\ WF_vars(HookStep(o))

Spec == Init /\ [][Next]_vars
FairSpec == Spec /\ Fairness

-----------------------------------------------------------------------------

(* "It stops 25 units short of FixedFloat's 250": what FixedFloat counts   *)
(* in one window never weighs more than the limit, whoever sent it and     *)
(* however late after its reservation. Two things are excepted: a create   *)
(* whose reservation had left the window when it was sent, and what a      *)
(* process that has since died sent inside this window, which its          *)
(* successor cannot know of.                                               *)
WindowHolds ==
  Weight({o \in Orders \ overheld : sent[o] # None /\ sent[o] <= uptime}, Ours) <= Limit

(* FIXEDFLOAT_MAX_OPEN_ORDERS and its limit per receiver: no more orders   *)
(* wait for a deposit than that, however many callbacks overlap and        *)
(* however late the poller learns what was paid.                           *)
CapsHold ==
  LET open == {o \in Orders : status[o] # None /\ order[o].status = "NEW" /\ o \notin lapsed} IN
  /\ Cardinality(open) <= MaxOpen
  /\ \A o \in open : Cardinality({p \in open : Address[p] = Address[o]}) <= MaxOpenPerAddress

(* Settled, its txid on record, and nobody left to bring the two together. *)
Stranded(o) ==
  o \in settled \cap txid /\ o \notin referenced /\ status[o] = "DONE" /\ hook[o] = "none"

(* A settled row whose deposit FixedFloat reports gets its reference, in   *)
(* whichever order the two arrive, as long as it is inside the TTL and the *)
(* process did not die between the settlement and its hook.                *)
SettledIsReferenced ==
  \A o \in Orders :
    o \in settled /\ order[o].txid ~> o \in referenced \/ o \in past \/ Stranded(o)

(* "A late deposit revives an EXPIRED one": a deposit, however late, is    *)
(* noticed inside the TTL.                                                 *)
DepositIsNoticed ==
  \A o \in Orders :
    status[o] # None /\ order[o].status \in {"PENDING", "DONE"} ~>
      status[o] \in {"PENDING", "DONE"} \/ o \in past
=============================================================================
