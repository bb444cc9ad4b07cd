-------------------------- MODULE FixedFloatProofs --------------------------
(***************************************************************************)
(* Proofs about module FixedFloat, for any callbacks, receivers, caps and  *)
(* budget. The caps hold because what FixedFloat was last heard to say     *)
(* never runs ahead of the order: a callback counts at least every order   *)
(* that is open, and only a callback opens one. The budget holds because   *)
(* a create that was sent is on the client's books at its true age.        *)
(***************************************************************************)
EXTENDS FixedFloat, FiniteSetTheorems, TLAPS

(* What is on record, or on its way there, is there or was.                *)
Sound ==
  /\ \A o \in Orders : status[o] # None => order[o] # None
  /\ \A o \in Orders : hook[o] # "none" => o \in settled
  /\ \A o \in poll.todo : status[o] # None
  /\ poll.asking # None => status[poll.asking] # None
  /\ poll.got # None => poll.asking # None
  /\ \A o \in Orders : quote[o] # "over" => status[o] = None

Behind(s, o) == s # "NEW" => order[o].status # "NEW"

NotAhead ==
  /\ \A o \in Orders : status[o] # None => Behind(status[o], o)
  /\ poll.got # None => Behind(poll.got.status, poll.asking)

(* Orders that wait for a deposit, and the quotes that may become one.     *)
Open ==
  InFlight \cup {o \in Orders : status[o] # None /\ order[o].status = "NEW" /\ o \notin lapsed}

OpenAt(a) == {o \in Open : Address[o] = a}

OpenIsCapped ==
  /\ Cardinality(Open) <= MaxOpen
  /\ \A o \in Orders : Cardinality(OpenAt(Address[o])) <= MaxOpenPerAddress

FInv == TypeOK /\ Sound /\ NotAhead
CInv == FInv /\ OpenIsCapped

-----------------------------------------------------------------------------

LEMMA NumbersAreNat ==
  /\ MaxOpen \in Nat \ {0} /\ MaxOpenPerAddress \in Nat \ {0}
  /\ Window \in Nat \ {0} /\ Cycle \in Nat \ {0}
BY FixedFloatAssumption

LEMMA AgesAreNat == Ages \subseteq Nat /\ 0 \in Ages /\ Window - 1 \in Ages
BY NumbersAreNat DEF Ages

LEMMA KeptTyped ==
  ASSUME TypeOK
  PROVE  Kept \in [Orders -> Nat \cup {None}]
BY DEF TypeOK, Kept

LEMMA CallTaken ==
  ASSUME TypeOK, TakeCall \/ CallRefused \/ Passes \/ Fails
  PROVE  /\ spent' \in [Orders -> Nat \cup {None}] /\ calls' \in [Ages -> Nat]
         /\ sent' \in [Orders -> Ages \cup {None}] /\ overheld' \subseteq Orders
         /\ uptime' \in Ages /\ paused' \in BOOLEAN
<1>1. CASE TakeCall
  <2>1. spent' = Kept /\ calls' = [calls EXCEPT ![0] = @ + 1] /\ UNCHANGED <<sent, overheld, uptime, paused>>
    BY <1>1 DEF TakeCall
  <2>2. calls' \in [Ages -> Nat]
    BY <2>1, AgesAreNat DEF TypeOK
  <2> QED
    BY <2>1, <2>2, KeptTyped DEF TypeOK
<1>2. CASE CallRefused
  BY <1>2, KeptTyped DEF TypeOK, CallRefused, budget
<1>3. CASE Passes
  BY <1>3 DEF TypeOK, Passes
<1>4. CASE Fails
  BY <1>4 DEF TypeOK, Fails
<1> QED
  BY <1>1, <1>2, <1>3, <1>4

(* An answer is recorded: only where there is an order, and only what is   *)
(* settled and known becomes a reference.                                  *)
LEMMA Recorded ==
  ASSUME TypeOK, NEW o \in Orders, NEW a \in Answers, status[o] # None, Record(o, a)
  PROVE  /\ status' = [status EXCEPT ![o] = a.status]
         /\ status' \in [Orders -> Statuses \cup {None}]
         /\ \A p \in Orders : status'[p] = None <=> status[p] = None
         /\ txid' \subseteq Orders /\ referenced' \subseteq settled' \cap txid'
         /\ settled' = settled
         /\ \A p \in Orders : status'[p] = None => p \notin txid' \cup settled'
<1>1. a.status \in Statuses /\ a.txid \in BOOLEAN
  BY DEF Answers
<1> DEFINE known == IF a.txid THEN txid \cup {o} ELSE txid
<1>2. /\ status' = [status EXCEPT ![o] = a.status] /\ txid' = known /\ settled' = settled
      /\ referenced' = referenced \cup (settled \cap (known \cap {o}))
  BY DEF Record, FillReference
<1>3. status' \in [Orders -> Statuses \cup {None}] /\ \A p \in Orders : status'[p] = None <=> status[p] = None
  BY <1>1, <1>2, NoneAssumption DEF TypeOK
<1> QED
  BY <1>1, <1>2, <1>3 DEF TypeOK

-----------------------------------------------------------------------------
(* One lemma per group of actions.                                         *)

LEMMA FInvInit == Init => FInv
<1> SUFFICES ASSUME Init PROVE FInv
  OBVIOUS
<1>1. IdlePoll \in [todo : SUBSET Orders, asking : Orders \cup {None},
                   got : Answers \cup {None}, pass : 0..(Cycle - 1)]
  BY NumbersAreNat DEF IdlePoll
<1>2. TypeOK
  BY <1>1, AgesAreNat DEF Init, TypeOK
<1>3. Sound /\ NotAhead
  BY DEF Init, Sound, NotAhead, IdlePoll
<1> QED
  BY <1>2, <1>3 DEF FInv

LEMMA CallbackKeeps ==
  ASSUME FInv, NEW o \in Orders, CallbackStep(o)
  PROVE  FInv'
<1>1. CASE Callback(o)
  BY <1>1, KeptTyped, AgesAreNat DEF FInv, TypeOK, Sound, NotAhead, Behind, Callback, db
<1>2. CASE CallbackBusy(o)
  BY <1>2, KeptTyped DEF FInv, TypeOK, Sound, NotAhead, Behind, CallbackBusy, db
<1>3. CASE QuoteFails(o)
  BY <1>3 DEF FInv, TypeOK, Sound, NotAhead, Behind, QuoteFails, Over, Release, db
<1>4. CASE Priced(o)
  <2>1. quote[o] = "pricing" /\ quote' = [quote EXCEPT ![o] = "swapping"]
        /\ UNCHANGED <<order, status, txid, settled, referenced, lapsed, past, poll, hook>>
    BY <1>4 DEF Priced, db
  <2>2. TypeOK'
    BY <1>4, <2>1, CallTaken DEF FInv, TypeOK, Priced
  <2>3. Sound' /\ NotAhead'
    BY <2>1 DEF FInv, TypeOK, Sound, NotAhead, Behind
  <2> QED
    BY <2>2, <2>3 DEF FInv
<1>5. CASE Create(o)
  BY <1>5, AgesAreNat DEF FInv, TypeOK, Sound, NotAhead, Behind, Create, Restamp, db
<1>6. CASE Accepted(o)
  <2> DEFINE fresh == [status |-> "NEW", txid |-> FALSE]
  <2>a. fresh \in Answers /\ fresh.status = "NEW" /\ fresh # None /\ "NEW" \in Statuses /\ "NEW" # None
    <3>1. "NEW" \in Statuses /\ fresh \in Answers /\ fresh.status = "NEW"
      BY DEF Statuses, Answers
    <3> HIDE DEF fresh
    <3> QED
      BY <3>1, NoneAssumption
  <2>b. /\ order' = [order EXCEPT ![o] = fresh] /\ status' = [status EXCEPT ![o] = "NEW"]
        /\ quote' = [quote EXCEPT ![o] = "over"] /\ quote[o] = "creating" /\ Passes
        /\ UNCHANGED <<txid, settled, referenced, lapsed, past, poll, hook>>
    BY <1>6 DEF Accepted, Over
  <2>c. status[o] = None
    BY <2>b DEF FInv, Sound
  <2> HIDE DEF fresh
  <2>0. order'[o] = fresh /\ status'[o] = "NEW" /\ quote'[o] = "over"
        /\ \A p \in Orders \ {o} : order'[p] = order[p] /\ status'[p] = status[p] /\ quote'[p] = quote[p]
    BY <2>b DEF FInv, TypeOK
  <2>1. TypeOK'
    <3>1. order' \in [Orders -> Answers \cup {None}] /\ status' \in [Orders -> Statuses \cup {None}]
          /\ quote' \in [Orders -> {"none", "pricing", "swapping", "creating", "over"}]
      BY <2>a, <2>b DEF FInv, TypeOK
    <3> QED
      <4>1. /\ spent' \in [Orders -> Nat \cup {None}] /\ calls' \in [Ages -> Nat]
            /\ sent' \in [Orders -> Ages \cup {None}] /\ overheld' \subseteq Orders
            /\ uptime' \in Ages /\ paused' \in BOOLEAN
        BY <2>b, CallTaken DEF FInv
      <4>2. \A p \in Orders : status'[p] = None => p \notin txid \cup settled
        BY <2>0, <2>a DEF FInv, TypeOK
      <4> QED
        BY <2>b, <3>1, <4>1, <4>2 DEF FInv, TypeOK
  <2>2. Sound'
    BY <2>0, <2>a, <2>b DEF FInv, TypeOK, Sound
  <2>3. NotAhead'
    <3>1. poll.asking # o
      BY <2>c, FixedFloatAssumption DEF FInv, TypeOK, Sound
    <3>2. \A p \in Orders : status'[p] # None => Behind(status[p], p)'
      BY <2>0, <2>a DEF FInv, NotAhead, Behind
    <3>3. poll'.got # None => Behind(poll.got.status, poll.asking)'
      BY <2>0, <2>b, <3>1 DEF FInv, TypeOK, Sound, NotAhead, Behind
    <3> QED
      BY <3>2, <3>3 DEF NotAhead
  <2> QED
    BY <2>1, <2>2, <2>3 DEF FInv
<1> QED
  BY <1>1, <1>2, <1>3, <1>4, <1>5, <1>6 DEF CallbackStep

LEMMA PollKeeps ==
  ASSUME FInv, PollStep
  PROVE  FInv'
<1>1. CASE PassStarts
  <2>1. (poll.pass + 1) % Cycle \in 0..(Cycle - 1)
    BY NumbersAreNat DEF FInv, TypeOK
  <2>2. {o \in Listed : status[o] # "EXPIRED" \/ Wide} \subseteq {o \in Orders : status[o] # None}
    BY DEF Listed
  <2> QED
    BY <1>1, <2>1, <2>2 DEF FInv, TypeOK, Sound, NotAhead, Behind, PassStarts, budget, db
<1>2. CASE PollAsks
  <2>1. PICK o \in poll.todo :
          \/ TakeCall /\ poll' = [poll EXCEPT !.asking = o, !.todo = poll.todo \ {o}]
          \/ CallRefused /\ poll' = [poll EXCEPT !.todo = {}]
    BY <1>2 DEF PollAsks
  <2>2. o \in Orders /\ status[o] # None /\ poll.asking = None /\ poll.got = None
    BY <1>2 DEF FInv, TypeOK, Sound, PollAsks
  <2>3. UNCHANGED <<quote, order, status, txid, settled, referenced, lapsed, past, hook>>
    BY <1>2 DEF PollAsks, db
  <2>6. poll.todo \ {o} \subseteq poll.todo /\ poll.todo \subseteq Orders
    BY DEF FInv, TypeOK
  <2>7. /\ poll' \in [todo : SUBSET Orders, asking : Orders \cup {None}, got : Answers \cup {None},
                     pass : 0..(Cycle - 1)]
        /\ poll'.todo \subseteq poll.todo /\ poll'.asking \in {o, None} /\ poll'.got = None
    <3>1. CASE TakeCall /\ poll' = [poll EXCEPT !.asking = o, !.todo = poll.todo \ {o}]
      <4> DEFINE rest == poll.todo \ {o}
      <4>1. poll' = [todo |-> rest, asking |-> o, got |-> poll.got, pass |-> poll.pass]
        BY <3>1 DEF FInv, TypeOK
      <4> HIDE DEF rest
      <4>2. rest \subseteq poll.todo /\ rest \in SUBSET Orders
        BY <2>6 DEF rest
      <4> QED
        BY <2>2, <4>1, <4>2 DEF FInv, TypeOK
    <3>2. CASE CallRefused /\ poll' = [poll EXCEPT !.todo = {}]
      BY <2>2, <3>2 DEF FInv, TypeOK
    <3> QED
      BY <2>1, <3>1, <3>2
  <2>4. TypeOK'
    BY <2>1, <2>3, <2>7, CallTaken DEF FInv, TypeOK
  <2>5. Sound' /\ NotAhead'
    BY <2>2, <2>3, <2>7 DEF FInv, Sound, NotAhead, Behind
  <2> QED
    BY <2>4, <2>5 DEF FInv
<1>3. CASE PollAnswered
  <2>1. order[poll.asking] \in Answers
    BY <1>3 DEF FInv, TypeOK, Sound, PollAnswered
  <2> QED
    BY <1>3, <2>1 DEF FInv, TypeOK, Sound, NotAhead, Behind, PollAnswered, budget, db
<1>4. CASE PollFails
  <2>1. TypeOK'
    BY <1>4, CallTaken DEF FInv, TypeOK, PollFails, db
  <2>2. Sound' /\ NotAhead'
    BY <1>4 DEF FInv, TypeOK, Sound, NotAhead, Behind, PollFails, db
  <2> QED
    BY <2>1, <2>2 DEF FInv
<1>5. ASSUME NEW o \in Orders, PollRecords(o)
      PROVE  FInv'
  <2>1. poll.got \in Answers /\ status[o] # None /\ Record(o, poll.got) /\ poll.asking = o
    BY <1>5 DEF FInv, TypeOK, Sound, PollRecords
  <2>2. TypeOK'
    BY <1>5, <2>1, CallTaken, Recorded DEF FInv, TypeOK, PollRecords
  <2>3. Sound'
    BY <1>5, <2>1, Recorded DEF FInv, TypeOK, Sound, PollRecords
  <2>4. NotAhead'
    BY <1>5, <2>1, Recorded DEF FInv, TypeOK, NotAhead, Behind, PollRecords
  <2> QED
    BY <2>2, <2>3, <2>4 DEF FInv
<1> QED
  BY <1>1, <1>2, <1>3, <1>4, <1>5 DEF PollStep

LEMMA HookKeeps ==
  ASSUME FInv, NEW o \in Orders, Settle(o) \/ HookStep(o)
  PROVE  FInv'
<1>1. CASE Settle(o)
  BY <1>1 DEF FInv, TypeOK, Sound, NotAhead, Behind, Settle, budget
<1>2. CASE HookRuns(o)
  <2>1. TypeOK'
    <3>1. CASE o \in txid \ referenced
      BY <1>2, <3>1 DEF FInv, TypeOK, HookRuns, FillReference, budget
    <3>2. CASE o \notin txid \ referenced
      BY <1>2, <3>2, CallTaken DEF FInv, TypeOK, HookRuns
    <3> QED
      BY <3>1, <3>2
  <2>2. Sound' /\ NotAhead'
    BY <1>2 DEF FInv, TypeOK, Sound, NotAhead, Behind, HookRuns
  <2> QED
    BY <2>1, <2>2 DEF FInv
<1>3. CASE HookAnswered(o)
  <2>1. order[o] \in Answers /\ status[o] # None
    BY <1>3 DEF FInv, TypeOK, Sound, HookAnswered
  <2>2. CASE Passes /\ Record(o, order[o])
    <3>1. TypeOK'
      BY <1>3, <2>1, <2>2, CallTaken, Recorded DEF FInv, TypeOK, HookAnswered
    <3>2. Sound'
      BY <1>3, <2>1, <2>2, Recorded DEF FInv, TypeOK, Sound, HookAnswered
    <3>3. NotAhead'
      BY <1>3, <2>1, <2>2, Recorded DEF FInv, TypeOK, NotAhead, Behind, HookAnswered
    <3> QED
      BY <3>1, <3>2, <3>3 DEF FInv
  <2>3. CASE (Fails \/ Passes) /\ UNCHANGED db
    <3>1. TypeOK'
      BY <1>3, <2>3, CallTaken DEF FInv, TypeOK, HookAnswered, db
    <3>2. Sound' /\ NotAhead'
      BY <1>3, <2>3 DEF FInv, TypeOK, Sound, NotAhead, Behind, HookAnswered, db
    <3> QED
      BY <3>1, <3>2 DEF FInv
  <2> QED
    BY <1>3, <2>2, <2>3 DEF HookAnswered
<1> QED
  BY <1>1, <1>2, <1>3 DEF HookStep

LEMMA WorldKeeps ==
  ASSUME FInv, NEW o \in Orders, Progress(o) \/ ReportsTxid(o) \/ Later(o)
  PROVE  FInv'
<1>1. CASE Progress(o)
  <2>1. PICK t \in Statuses : t # "NEW" /\ order' = [order EXCEPT ![o].status = t]
    BY <1>1 DEF Progress
  <2>2. order[o] \in Answers
    BY <1>1 DEF FInv, TypeOK, Progress
  <2>3. order'[o] \in Answers /\ order'[o].status # "NEW" /\ order' \in [Orders -> Answers \cup {None}]
    BY <2>1, <2>2 DEF FInv, TypeOK, Answers
  <2>4. \A p \in Orders : p # o => order'[p] = order[p]
    BY <2>1 DEF FInv, TypeOK
  <2> QED
    BY <1>1, <2>3, <2>4, NoneAssumption
       DEF FInv, TypeOK, Sound, NotAhead, Behind, Progress, budget, db
<1>2. CASE ReportsTxid(o)
  <2>1. order[o] \in Answers
    BY <1>2 DEF FInv, TypeOK, ReportsTxid
  <2>2. /\ order'[o] \in Answers /\ order'[o].status = order[o].status
        /\ order' \in [Orders -> Answers \cup {None}]
    BY <1>2, <2>1 DEF FInv, TypeOK, Answers, ReportsTxid
  <2>3. \A p \in Orders : p # o => order'[p] = order[p]
    BY <1>2 DEF FInv, TypeOK, ReportsTxid
  <2>4. UNCHANGED <<quote, budget, db, lapsed, past, poll, hook>>
    BY <1>2 DEF ReportsTxid
  <2>5. TypeOK'
    BY <2>2, <2>4 DEF FInv, TypeOK, budget, db
  <2>6. Sound' /\ NotAhead'
    BY <2>2, <2>3, <2>4, NoneAssumption DEF FInv, TypeOK, Sound, NotAhead, Behind, budget, db
  <2> QED
    BY <2>5, <2>6 DEF FInv
<1>3. CASE Later(o)
  BY <1>3 DEF FInv, TypeOK, Sound, NotAhead, Behind, Later, budget, db
<1> QED
  BY <1>1, <1>2, <1>3

LEMMA WindowStaysTyped ==
  ASSUME TypeOK, WindowMoves
  PROVE  sent' \in [Orders -> Ages \cup {None}] /\ calls' \in [Ages -> Nat]
<1>1. \A a \in Ages : (a # 0 => a - 1 \in Ages) /\ (a # Window - 1 => a + 1 \in Ages)
  BY NumbersAreNat DEF Ages
<1> QED
  BY <1>1, AgesAreNat DEF TypeOK, WindowMoves

LEMMA ProcessKeeps ==
  ASSUME FInv, Tick \/ Refresh \/ Resume \/ Restart
  PROVE  FInv'
<1>1. CASE Tick
  <2>1. spent' \in [Orders -> Nat \cup {None}]
    BY <1>1, NumbersAreNat DEF FInv, TypeOK, Tick
  <2>2. uptime' \in Ages
    BY <1>1, NumbersAreNat DEF FInv, TypeOK, Tick, Ages
  <2>3. sent' \in [Orders -> Ages \cup {None}] /\ calls' \in [Ages -> Nat]
    BY <1>1, WindowStaysTyped DEF FInv, Tick
  <2> QED
    BY <1>1, <2>1, <2>2, <2>3 DEF FInv, TypeOK, Sound, NotAhead, Behind, Tick, db
<1>2. CASE Refresh
  BY <1>2, KeptTyped, AgesAreNat DEF FInv, TypeOK, Sound, NotAhead, Behind, Refresh, db
<1>3. CASE Resume
  BY <1>3 DEF FInv, TypeOK, Sound, NotAhead, Behind, Resume, db
<1>4. CASE Restart
  <2>1. IdlePoll \in [todo : SUBSET Orders, asking : Orders \cup {None},
                     got : Answers \cup {None}, pass : 0..(Cycle - 1)]
    BY NumbersAreNat DEF IdlePoll
  <2>2. /\ spent' = [o \in Orders |-> None] /\ WindowMoves /\ uptime' = 0
        /\ paused' = FALSE /\ poll' = IdlePoll
        /\ hook' = [o \in Orders |-> "none"]
        /\ UNCHANGED <<overheld, order, db, lapsed, past>>
    BY <1>4 DEF Restart
  <2>3. /\ quote' \in [Orders -> {"none", "pricing", "swapping", "creating", "over"}]
        /\ \A o \in Orders : quote'[o] # "over" => quote[o] # "over"
    BY <1>4 DEF FInv, TypeOK, Restart
  <2>4. TypeOK'
    BY <2>1, <2>2, <2>3, AgesAreNat, WindowStaysTyped DEF FInv, TypeOK, db
  <2>5. Sound' /\ NotAhead'
    BY <2>2, <2>3 DEF FInv, Sound, NotAhead, Behind, IdlePoll, db
  <2> QED
    BY <2>4, <2>5 DEF FInv
<1> QED
  BY <1>1, <1>2, <1>3, <1>4

LEMMA FInvStep == FInv /\ [Next]_vars => FInv'
<1> SUFFICES ASSUME FInv, [Next]_vars PROVE FInv'
  OBVIOUS
<1>1. CASE Next
  BY <1>1, CallbackKeeps, PollKeeps, HookKeeps, WorldKeeps, ProcessKeeps DEF Next
<1>2. CASE UNCHANGED vars
  BY <1>2 DEF FInv, TypeOK, Sound, NotAhead, Behind, vars, budget, db
<1> QED
  BY <1>1, <1>2

LEMMA FixedFloatInductive == Spec => []FInv
BY FInvInit, FInvStep, PTL DEF Spec

(* Orders, rows, budget entries, poller and hooks keep their types, and    *)
(* only a row that settled, with the txid of its own order on record, has  *)
(* a reference.                                                            *)
THEOREM FixedFloatTypeCorrect == Spec => []TypeOK
<1>1. FInv => TypeOK
  BY DEF FInv
<1> QED
  BY <1>1, FixedFloatInductive, PTL

-----------------------------------------------------------------------------
(* The caps. Open grows by the callback that is let in, and by nothing     *)
(* else.                                                                   *)

LEMMA OpenIsFinite ==
  /\ IsFiniteSet(Open) /\ Cardinality(Open) \in Nat
  /\ \A a : IsFiniteSet(OpenAt(a)) /\ Cardinality(OpenAt(a)) \in Nat
<1>1. Open \subseteq Orders /\ \A a : OpenAt(a) \subseteq Orders
  BY DEF Open, OpenAt, InFlight
<1> QED
  BY <1>1, FS_Subset, FS_CardinalityType, FixedFloatAssumption

LEMMA OneMore ==
  ASSUME NEW S, NEW x, IsFiniteSet(S)
  PROVE  /\ IsFiniteSet(S \cup {x}) /\ Cardinality(S \cup {x}) \in Nat
         /\ Cardinality(S \cup {x}) <= Cardinality(S) + 1
<1>1. IsFiniteSet(S \cup {x}) /\ Cardinality(S \cup {x}) \in Nat /\ Cardinality(S) \in Nat
  BY FS_AddElement, FS_CardinalityType
<1>2. Cardinality(S \cup {x}) = Cardinality(S) \/ Cardinality(S \cup {x}) = Cardinality(S) + 1
  BY FS_AddElement
<1> QED
  BY <1>1, <1>2

LEMMA FewerOpen ==
  ASSUME OpenIsCapped, Open' \subseteq Open
  PROVE  OpenIsCapped'
<1>1. Cardinality(Open') <= Cardinality(Open) /\ Cardinality(Open') \in Nat
  BY OpenIsFinite, FS_Subset, FS_CardinalityType
<1>2. \A a : Cardinality(OpenAt(a)') <= Cardinality(OpenAt(a)) /\ Cardinality(OpenAt(a)') \in Nat
  <2> TAKE a
  <2>1. OpenAt(a)' \in SUBSET OpenAt(a)
    BY DEF OpenAt
  <2> QED
    BY <2>1, OpenIsFinite, FS_Subset, FS_CardinalityType
<1>3. Cardinality(Open') <= MaxOpen
  BY <1>1, OpenIsFinite, NumbersAreNat DEF OpenIsCapped
<1>4. \A o \in Orders : Cardinality(OpenAt(Address[o])') <= MaxOpenPerAddress
  BY <1>2, OpenIsFinite, NumbersAreNat DEF OpenIsCapped
<1> QED
  BY <1>3, <1>4 DEF OpenIsCapped, OpenAt

(* Whatever waits for a deposit is still NEW on record: it is counted.     *)
LEMMA OpenIsCounted ==
  ASSUME FInv
  PROVE  Open \subseteq InFlight \cup AwaitingDeposit
BY DEF FInv, TypeOK, NotAhead, Behind, Open, AwaitingDeposit

LEMMA CallbackOpens ==
  ASSUME FInv, OpenIsCapped, NEW o \in Orders, Callback(o)
  PROVE  OpenIsCapped'
<1> DEFINE counted == InFlight \cup AwaitingDeposit
           countedAt == {p \in counted : Address[p] = Address[o]}
<1>1. Cardinality(countedAt) < MaxOpenPerAddress /\ Cardinality(counted) < MaxOpen
  BY DEF Callback, Room
<1>2. /\ Open \in SUBSET counted /\ OpenAt(Address[o]) \in SUBSET countedAt
  BY OpenIsCounted DEF OpenAt
<1>3. IsFiniteSet(counted) /\ IsFiniteSet(countedAt)
  <2>1. counted \subseteq Orders /\ countedAt \subseteq Orders
    BY DEF InFlight, AwaitingDeposit
  <2> QED
    BY <2>1, FS_Subset, FixedFloatAssumption
<1>4. Cardinality(counted) \in Nat /\ Cardinality(countedAt) \in Nat
  BY <1>3, FS_CardinalityType
<1>5. Cardinality(Open) <= Cardinality(counted) /\ Cardinality(OpenAt(Address[o])) <= Cardinality(countedAt)
  BY <1>2, <1>3, FS_Subset
<1> HIDE DEF counted, countedAt
<1>6. Open' = Open \cup {o}
  BY DEF FInv, TypeOK, Callback, Open, InFlight, db
<1>7. Cardinality(Open') <= MaxOpen
  <2>1. Cardinality(Open') <= Cardinality(Open) + 1 /\ Cardinality(Open') \in Nat
    BY <1>6, OpenIsFinite, OneMore
  <2> QED
    BY <1>1, <1>4, <1>5, <2>1, OpenIsFinite, NumbersAreNat
<1>8. ASSUME NEW p \in Orders
      PROVE  Cardinality(OpenAt(Address[p])') <= MaxOpenPerAddress
  <2>1. CASE Address[p] = Address[o]
    <3>1. OpenAt(Address[p])' = OpenAt(Address[o]) \cup {o}
      BY <1>6, <2>1 DEF OpenAt
    <3>2. /\ Cardinality(OpenAt(Address[o]) \cup {o}) <= Cardinality(OpenAt(Address[o])) + 1
          /\ Cardinality(OpenAt(Address[o]) \cup {o}) \in Nat
      BY OpenIsFinite, OneMore
    <3> QED
      BY <1>1, <1>4, <1>5, <3>1, <3>2, OpenIsFinite, NumbersAreNat
  <2>2. CASE Address[p] # Address[o]
    <3>1. OpenAt(Address[p])' = OpenAt(Address[p])
      BY <1>6, <2>2 DEF OpenAt
    <3> QED
      BY <3>1 DEF OpenIsCapped
  <2> QED
    BY <2>1, <2>2
<1> QED
  BY <1>7, <1>8 DEF OpenIsCapped, OpenAt

LEMMA OthersClose ==
  ASSUME FInv, [Next]_vars, ~\E o \in Orders : Callback(o)
  PROVE  Open' \subseteq Open
<1>1. CASE UNCHANGED <<quote, order, status, lapsed>>
  BY <1>1 DEF Open, InFlight
<1>2. ASSUME NEW o \in Orders, CallbackBusy(o) \/ QuoteFails(o) \/ Priced(o) \/ Create(o)
      PROVE  Open' \subseteq Open
  <2>1. \A p \in Orders : quote'[p] \in {"pricing", "swapping", "creating"} =>
                           quote[p] \in {"pricing", "swapping", "creating"}
    BY <1>2 DEF FInv, TypeOK, CallbackBusy, QuoteFails, Priced, Create, Over, InFlight
  <2>2. UNCHANGED <<order, status, lapsed>>
    BY <1>2 DEF CallbackBusy, QuoteFails, Priced, Create, db
  <2> QED
    BY <2>1, <2>2 DEF Open, InFlight
<1>3. ASSUME NEW o \in Orders, Accepted(o)
      PROVE  Open' \subseteq Open
  <2>1. /\ quote[o] = "creating" /\ quote'[o] = "over" /\ lapsed' = lapsed
        /\ \A p \in Orders \ {o} : quote'[p] = quote[p] /\ status'[p] = status[p] /\ order'[p] = order[p]
    <3>1. /\ order' = [order EXCEPT ![o] = [status |-> "NEW", txid |-> FALSE]]
          /\ status' = [status EXCEPT ![o] = "NEW"] /\ quote' = [quote EXCEPT ![o] = "over"]
          /\ quote[o] = "creating" /\ lapsed' = lapsed
      BY <1>3 DEF Accepted, Over
    <3> QED
      BY <3>1 DEF FInv, TypeOK
  <2> QED
    BY <2>1 DEF Open, InFlight
<1>4. ASSUME NEW o \in Orders, PollRecords(o) \/ HookAnswered(o)
      PROVE  Open' \subseteq Open
  <2>1. UNCHANGED <<quote, order, lapsed>>
    BY <1>4 DEF PollRecords, HookAnswered
  <2>2. \A p \in Orders : status'[p] = None <=> status[p] = None
    <3>1. CASE UNCHANGED db
      BY <3>1 DEF db
    <3>2. ASSUME NEW a \in Answers, Record(o, a), status[o] # None
          PROVE  \A p \in Orders : status'[p] = None <=> status[p] = None
      BY <3>2, Recorded DEF FInv
    <3>3. CASE PollRecords(o)
      BY <3>2, <3>3 DEF FInv, TypeOK, Sound, PollRecords
    <3>4. CASE HookAnswered(o)
      BY <3>1, <3>2, <3>4 DEF FInv, TypeOK, Sound, HookAnswered
    <3> QED
      BY <1>4, <3>3, <3>4
  <2> QED
    BY <2>1, <2>2 DEF Open, InFlight
<1>5. ASSUME NEW o \in Orders, Progress(o)
      PROVE  Open' \subseteq Open
  <2>1. UNCHANGED <<quote, status, lapsed>>
    BY <1>5 DEF Progress, db
  <2>2. PICK t \in Statuses : t # "NEW" /\ order' = [order EXCEPT ![o].status = t]
    BY <1>5 DEF Progress
  <2>3. order[o] \in Answers
    BY <1>5 DEF FInv, TypeOK, Progress
  <2>4. order'[o].status # "NEW" /\ \A p \in Orders : p # o => order'[p] = order[p]
    BY <2>2, <2>3 DEF FInv, TypeOK, Answers
  <2> QED
    BY <2>1, <2>4 DEF Open, InFlight
<1>6. ASSUME NEW o \in Orders, ReportsTxid(o)
      PROVE  Open' \subseteq Open
  <2>1. UNCHANGED <<quote, status, lapsed>>
    BY <1>6 DEF ReportsTxid, db
  <2>2. order[o] \in Answers
    BY <1>6 DEF FInv, TypeOK, ReportsTxid
  <2>3. order'[o].status = order[o].status /\ \A p \in Orders : p # o => order'[p] = order[p]
    BY <1>6, <2>2 DEF FInv, TypeOK, Answers, ReportsTxid
  <2> QED
    BY <2>1, <2>3 DEF Open, InFlight
<1>7. ASSUME NEW o \in Orders, Later(o)
      PROVE  Open' \subseteq Open
  BY <1>7 DEF Later, db, Open, InFlight
<1>8. CASE Restart
  BY <1>8 DEF FInv, TypeOK, Restart, db, Open, InFlight
<1>9. ASSUME PassStarts \/ PollAsks \/ PollAnswered \/ PollFails \/ Tick \/ Refresh \/ Resume
      PROVE  Open' \subseteq Open
  BY <1>1, <1>9 DEF PassStarts, PollAsks, PollAnswered, PollFails, Tick, Refresh, Resume, db
<1>10. ASSUME NEW o \in Orders, Settle(o) \/ HookRuns(o)
       PROVE  Open' \subseteq Open
  BY <1>1, <1>10 DEF Settle, HookRuns
<1>11. CASE UNCHANGED vars
  BY <1>1, <1>11 DEF vars, db
<1> QED
  BY <1>2, <1>3, <1>4, <1>5, <1>6, <1>7, <1>8, <1>9, <1>10, <1>11
     DEF Next, CallbackStep, PollStep, HookStep

LEMMA CInvStep == CInv /\ [Next]_vars => CInv'
<1> SUFFICES ASSUME CInv, [Next]_vars PROVE CInv'
  OBVIOUS
<1>1. FInv'
  BY FInvStep DEF CInv
<1>2. CASE \E o \in Orders : Callback(o)
  BY <1>1, <1>2, CallbackOpens DEF CInv
<1>3. CASE ~\E o \in Orders : Callback(o)
  BY <1>1, <1>3, OthersClose, FewerOpen DEF CInv
<1> QED
  BY <1>2, <1>3

LEMMA CInvInit == Init => CInv
<1> SUFFICES ASSUME Init PROVE CInv
  OBVIOUS
<1>1. Open = {} /\ \A a : OpenAt(a) = {}
  BY DEF Init, Open, OpenAt, InFlight
<1> QED
  BY <1>1, FInvInit, FS_EmptySet, NumbersAreNat DEF CInv, OpenIsCapped

(* However many callbacks overlap, and however late the poller learns what *)
(* was paid, the orders that wait for a deposit stay within the caps, in   *)
(* all and of each receiver.                                               *)
THEOREM OpenOrdersAreCapped == Spec => []CapsHold
<1>1. CInv => CapsHold
  <2> SUFFICES ASSUME CInv PROVE CapsHold
    OBVIOUS
  <2> DEFINE open == {o \in Orders : status[o] # None /\ order[o].status = "NEW" /\ o \notin lapsed}
             openAt(o) == {p \in open : Address[p] = Address[o]}
  <2>1. open \in SUBSET Open /\ open \subseteq Orders
    BY DEF Open
  <2>2. \A o \in open : openAt(o) \in SUBSET OpenAt(Address[o])
    BY <2>1 DEF OpenAt
  <2> HIDE DEF open
  <2>3. Cardinality(open) <= Cardinality(Open) /\ Cardinality(open) \in Nat
    BY <2>1, OpenIsFinite, FS_Subset, FS_CardinalityType
  <2>4. \A o \in open : /\ Cardinality(openAt(o)) <= Cardinality(OpenAt(Address[o]))
                         /\ Cardinality(openAt(o)) \in Nat
    <3> TAKE o \in open
    <3> HIDE DEF openAt
    <3> QED
      BY <2>2, OpenIsFinite, FS_Subset, FS_CardinalityType
  <2>5. Cardinality(open) <= MaxOpen
    BY <2>3, OpenIsFinite, NumbersAreNat DEF CInv, OpenIsCapped
  <2>6. \A o \in open : Cardinality(openAt(o)) <= MaxOpenPerAddress
    BY <2>1, <2>4, OpenIsFinite, NumbersAreNat DEF CInv, OpenIsCapped
  <2> QED
    BY <2>5, <2>6 DEF CapsHold, open
<1> QED
  BY <1>1, CInvInit, CInvStep, PTL DEF Spec

-----------------------------------------------------------------------------
(* The budget. What FixedFloat counts in a window, of what was sent since  *)
(* the restart, is what the client has on its books: an entry is re-dated  *)
(* when its create is sent, so the two age together and leave the window   *)
(* in the same tick. What the process before sent is older than the        *)
(* restart, at FixedFloat too.                                             *)

Reserved == {o \in Orders : spent[o] # None}

Booked ==
  /\ IsFiniteSet(Made(Ours))
  /\ Weight(Reserved, Ours) <= Limit

SameAge ==
  /\ \A o \in Orders \ overheld : sent[o] # None /\ sent[o] <= uptime => spent[o] = sent[o]
  /\ \A o \in Orders : quote[o] \in {"none", "pricing", "swapping"} => sent[o] = None

BInv == FInv /\ Booked /\ SameAge

LEMMA ReservedIsFinite ==
  ASSUME NEW R, R \subseteq Orders
  PROVE  IsFiniteSet(R) /\ Cardinality(R) \in Nat
BY FS_Subset, FS_CardinalityType, FixedFloatAssumption

LEMMA WeightIsNat ==
  ASSUME NEW R, R \subseteq Orders, NEW cs, IsFiniteSet(Made(cs))
  PROVE  /\ Cardinality(Made(cs)) \in Nat
         /\ Weight(R, cs) = CreateWeight * Cardinality(R) + CallWeight * Cardinality(Made(cs))
         /\ Weight(R, cs) \in Nat
<1>1. Cardinality(Made(cs)) \in Nat /\ Cardinality(R) \in Nat
  BY FS_CardinalityType, ReservedIsFinite
<1>2. Weight(R, cs) = CreateWeight * Cardinality(R) + CallWeight * Cardinality(Made(cs))
  BY DEF Weight
<1> QED
  BY <1>1, <1>2, FixedFloatAssumption

(* Fewer entries and no more calls weigh no more.                          *)
LEMMA WeighsLess ==
  ASSUME NEW R, R \subseteq Orders, NEW Q, Q \subseteq R,
         NEW cs, IsFiniteSet(Made(cs)),
         NEW ds, IsFiniteSet(Made(ds)), Cardinality(Made(ds)) <= Cardinality(Made(cs))
  PROVE  Weight(Q, ds) <= Weight(R, cs)
<1>1. /\ Cardinality(Q) \in Nat /\ Cardinality(R) \in Nat
      /\ Cardinality(Made(cs)) \in Nat /\ Cardinality(Made(ds)) \in Nat
  BY ReservedIsFinite, FS_CardinalityType
<1>2. Cardinality(Q) <= Cardinality(R)
  BY ReservedIsFinite, FS_Subset
<1>3. \A k, m, n \in Nat : m <= n => k * m <= k * n
  OBVIOUS
<1>4. /\ CreateWeight * Cardinality(Q) <= CreateWeight * Cardinality(R)
      /\ CallWeight * Cardinality(Made(ds)) <= CallWeight * Cardinality(Made(cs))
  BY <1>1, <1>2, <1>3, FixedFloatAssumption
<1>5. /\ CreateWeight * Cardinality(Q) \in Nat /\ CreateWeight * Cardinality(R) \in Nat
      /\ CallWeight * Cardinality(Made(ds)) \in Nat /\ CallWeight * Cardinality(Made(cs)) \in Nat
  BY <1>1, FixedFloatAssumption
<1> QED
  BY <1>4, <1>5 DEF Weight

LEMMA InMade ==
  ASSUME NEW cs \in [Ages -> Nat], NEW c
  PROVE  c \in Made(cs) <=> \E a \in Ages : \E n \in 1..cs[a] : c = <<a, n>>
BY DEF Made

LEMMA OursTyped ==
  ASSUME TypeOK
  PROVE  Ours \in [Ages -> Nat]
BY AgesAreNat DEF TypeOK, Ours

(* One call more.                                                          *)
LEMMA CallIsCounted ==
  ASSUME TypeOK, IsFiniteSet(Made(Ours)),
         calls' = [calls EXCEPT ![0] = @ + 1], UNCHANGED uptime,
         NEW R, R \subseteq Orders
  PROVE  /\ IsFiniteSet(Made(Ours'))
         /\ Weight(R, Ours') <= Weight(R, Ours) + CallWeight
<1> DEFINE call == <<0, Ours[0] + 1>>
<1>0. Ours' = [Ours EXCEPT ![0] = @ + 1]
  <2>1. 0 <= uptime
    BY AgesAreNat DEF TypeOK
  <2> QED
    BY <2>1, AgesAreNat DEF TypeOK, Ours
<1>1. Ours \in [Ages -> Nat] /\ Ours' \in [Ages -> Nat]
  BY <1>0, OursTyped, AgesAreNat
<1>2. Made(Ours') = Made(Ours) \cup {call}
  <2>1. ASSUME NEW a \in Ages, NEW n \in 1..Ours'[a]
        PROVE  <<a, n>> \in Made(Ours) \cup {call}
    <3>1. n \in 1..Ours[a] \/ (a = 0 /\ n = Ours[0] + 1)
      BY <1>0, <1>1, <2>1, AgesAreNat
    <3> QED
      BY <1>1, <3>1, InMade
  <2>2. ASSUME NEW a \in Ages, NEW n \in 1..Ours[a]
        PROVE  <<a, n>> \in Made(Ours')
    <3>1. n \in 1..Ours'[a]
      BY <1>0, <1>1, <2>2, AgesAreNat
    <3> QED
      BY <1>1, <3>1, InMade
  <2>3. call \in Made(Ours')
    <3>1. Ours[0] + 1 \in 1..Ours'[0]
      BY <1>0, <1>1, AgesAreNat
    <3> QED
      BY <1>1, <3>1, AgesAreNat, InMade
  <2> HIDE DEF call
  <2>4. ASSUME NEW c \in Made(Ours')
        PROVE  c \in Made(Ours) \cup {call}
    <3>1. PICK a \in Ages : \E n \in 1..Ours'[a] : c = <<a, n>>
      BY <1>1, InMade
    <3> QED
      BY <2>1, <3>1
  <2>5. ASSUME NEW c \in Made(Ours)
        PROVE  c \in Made(Ours')
    <3>1. PICK a \in Ages : \E n \in 1..Ours[a] : c = <<a, n>>
      BY <1>1, InMade
    <3> QED
      BY <2>2, <3>1
  <2> QED
    BY <2>3, <2>4, <2>5
<1>3. IsFiniteSet(Made(Ours')) /\ Cardinality(Made(Ours')) <= Cardinality(Made(Ours)) + 1
  BY <1>2, OneMore
<1> DEFINE n == Cardinality(Made(Ours))
           m == Cardinality(Made(Ours'))
           w == CreateWeight * Cardinality(R)
<1>4. n \in Nat /\ m \in Nat /\ m <= n + 1 /\ w \in Nat /\ CallWeight \in Nat
  BY <1>3, FS_CardinalityType, ReservedIsFinite, FixedFloatAssumption
<1>5. Weight(R, Ours) = w + CallWeight * n /\ Weight(R, Ours') = w + CallWeight * m
  BY DEF Weight
<1> HIDE DEF n, m, w
<1>6. CallWeight * m <= CallWeight * (n + 1)
  BY <1>4
<1>7. CallWeight * (n + 1) = CallWeight * n + CallWeight
  BY <1>4
<1>8. CallWeight * n \in Nat /\ CallWeight * m \in Nat
  BY <1>4
<1> QED
  BY <1>3, <1>4, <1>5, <1>6, <1>7, <1>8

(* One entry more.                                                         *)
LEMMA EntryIsCounted ==
  ASSUME NEW R, R \subseteq Orders, NEW o \in Orders, NEW cs, IsFiniteSet(Made(cs))
  PROVE  Weight(R \cup {o}, cs) <= Weight(R, cs) + CreateWeight
<1> DEFINE n == Cardinality(R)
           m == Cardinality(R \cup {o})
           w == CallWeight * Cardinality(Made(cs))
<1>1. n \in Nat /\ m \in Nat /\ m <= n + 1 /\ w \in Nat /\ CreateWeight \in Nat
  <2>1. IsFiniteSet(R) /\ n \in Nat
    BY ReservedIsFinite
  <2>2. m \in Nat /\ m <= n + 1
    BY <2>1, OneMore
  <2>3. Cardinality(Made(cs)) \in Nat
    BY FS_CardinalityType
  <2> QED
    BY <2>1, <2>2, <2>3, FixedFloatAssumption
<1>2. Weight(R, cs) = CreateWeight * n + w /\ Weight(R \cup {o}, cs) = CreateWeight * m + w
  BY DEF Weight
<1> HIDE DEF n, m, w
<1>3. CreateWeight * m <= CreateWeight * (n + 1)
  BY <1>1
<1>4. CreateWeight * (n + 1) = CreateWeight * n + CreateWeight
  BY <1>1
<1>5. CreateWeight * n \in Nat /\ CreateWeight * m \in Nat
  BY <1>1
<1> QED
  BY <1>1, <1>2, <1>3, <1>4, <1>5

LEMMA KeptIsReserved ==
  ASSUME TypeOK
  PROVE  /\ Kept \in [Orders -> Nat \cup {None}]
         /\ {o \in Orders : Kept[o] # None} \subseteq Reserved
         /\ \A o \in Orders : Kept[o] # None => Kept[o] = spent[o]
         /\ \A o \in Orders \ overheld : sent[o] # None /\ spent[o] = sent[o] => Kept[o] = sent[o]
<1>1. \A a \in Ages : a < Window
  BY NumbersAreNat DEF Ages
<1> QED
  BY <1>1, KeptTyped DEF TypeOK, Kept, Reserved

-----------------------------------------------------------------------------

LEMMA BooksKept ==
  ASSUME BInv, Reserved' \subseteq Reserved, UNCHANGED <<calls, uptime>>
  PROVE  Booked'
<1>1. Reserved \subseteq Orders /\ IsFiniteSet(Made(Ours)) /\ Weight(Reserved, Ours) <= Limit
  BY DEF BInv, FInv, Booked, Reserved
<1>0. Ours' = Ours
  BY DEF Ours
<1>2. Weight(Reserved', Ours) <= Weight(Reserved, Ours)
  BY <1>1, WeighsLess, FS_CardinalityType
<1>3. Weight(Reserved', Ours) \in Nat /\ Weight(Reserved, Ours) \in Nat /\ Limit \in Nat
  BY <1>1, WeightIsNat, FixedFloatAssumption
<1> QED
  BY <1>0, <1>1, <1>2, <1>3 DEF Booked, Made, Weight

LEMMA CallKeepsBooks ==
  ASSUME BInv, TakeCall \/ CallRefused
  PROVE  Booked' /\ \A o \in Orders : spent'[o] # None => spent'[o] = spent[o]
<1> DEFINE kept == {o \in Orders : Kept[o] # None}
<1>1. /\ kept \subseteq Reserved /\ Reserved \subseteq Orders /\ IsFiniteSet(Made(Ours))
      /\ Weight(Reserved, Ours) <= Limit
  BY KeptIsReserved DEF BInv, FInv, Booked, Reserved
<1>2. CASE TakeCall
  <2>1. /\ Used + CallWeight <= Limit /\ Used = Weight(kept, Ours)
        /\ Reserved' = kept /\ calls' = [calls EXCEPT ![0] = @ + 1] /\ spent' = Kept /\ UNCHANGED uptime
    BY <1>2 DEF TakeCall, Used, Reserved
  <2>2. IsFiniteSet(Made(Ours')) /\ Weight(kept, Ours') <= Weight(kept, Ours) + CallWeight
    BY <1>1, <2>1, CallIsCounted DEF BInv, FInv
  <2>3. Weight(kept, Ours') \in Nat /\ Weight(kept, Ours) \in Nat
    BY <1>1, <2>2, WeightIsNat
  <2>4. Weight(kept, Ours') <= Limit
    BY <2>1, <2>2, <2>3, FixedFloatAssumption
  <2>5. Booked'
    BY <2>1, <2>2, <2>4 DEF Booked, Made, Weight
  <2> QED
    BY <2>1, <2>5, KeptIsReserved DEF BInv, FInv
<1>3. CASE CallRefused
  <2>1. UNCHANGED <<calls, uptime>> /\ (spent' = spent \/ spent' = Kept)
    BY <1>3 DEF CallRefused, budget
  <2>2. Reserved' \subseteq Reserved
    BY <1>1, <2>1 DEF Reserved
  <2> QED
    BY <2>1, <2>2, BooksKept, KeptIsReserved DEF BInv, FInv
<1> QED
  BY <1>2, <1>3

(* A step that gives entries and creates no new age.                       *)
LEMMA AgesKept ==
  ASSUME BInv, \A o \in Orders : spent'[o] # None => spent'[o] = spent[o],
         UNCHANGED <<calls, sent, overheld, uptime>>,
         \A o \in Orders : quote'[o] \in {"none", "pricing", "swapping"} => quote[o] \in {"none", "pricing", "swapping"},
         \A o \in Orders \ overheld : sent[o] # None /\ sent[o] <= uptime => spent'[o] # None
  PROVE  Booked' /\ SameAge'
<1>1. Reserved' \subseteq Reserved
  BY DEF Reserved
<1> QED
  BY <1>1, BooksKept DEF BInv, SameAge

LEMMA CallbackKeepsBooks ==
  ASSUME BInv, NEW o \in Orders, CallbackStep(o)
  PROVE  Booked' /\ SameAge'
<1> DEFINE kept == {p \in Orders : Kept[p] # None}
<1>a. /\ kept \subseteq Reserved /\ Reserved \subseteq Orders /\ IsFiniteSet(Made(Ours))
      /\ TypeOK /\ kept \cup {o} \subseteq Orders
  BY KeptIsReserved DEF BInv, FInv, Booked, Reserved
<1>1. CASE Callback(o)
  <2>1. /\ Used + CreateWeight + CallWeight <= Limit /\ Used = Weight(kept, Ours)
        /\ spent' = [Kept EXCEPT ![o] = 0] /\ calls' = [calls EXCEPT ![0] = @ + 1]
        /\ quote[o] = "none" /\ quote' = [quote EXCEPT ![o] = "pricing"]
        /\ UNCHANGED <<sent, overheld, uptime>>
    BY <1>1 DEF Callback, Used
  <2>2. Reserved' \subseteq kept \cup {o}
    BY <1>a, <2>1, KeptIsReserved DEF Reserved
  <2>3. Reserved' = kept \cup {o}
    BY <1>a, <2>1, KeptIsReserved, FixedFloatAssumption DEF Reserved
  <2>4. /\ IsFiniteSet(Made(Ours'))
        /\ Weight(kept \cup {o}, Ours') <= Weight(kept \cup {o}, Ours) + CallWeight
        /\ Weight(kept \cup {o}, Ours) <= Weight(kept, Ours) + CreateWeight
    BY <1>a, <2>1, CallIsCounted, EntryIsCounted
  <2>5. /\ Weight(kept \cup {o}, Ours') \in Nat /\ Weight(kept \cup {o}, Ours) \in Nat
        /\ Weight(kept, Ours) \in Nat
    BY <1>a, <2>4, WeightIsNat
  <2>6. Weight(kept \cup {o}, Ours') <= Limit
    <3> HIDE DEF kept
    <3> QED
      BY <2>1, <2>4, <2>5, FixedFloatAssumption
  <2>7. Booked'
    BY <2>3, <2>4, <2>6 DEF Booked, Made, Weight
  <2>8. sent[o] = None
    BY <2>1 DEF BInv, SameAge
  <2>9. SameAge'
    <3>1. \A p \in Orders : p # o => spent'[p] = Kept[p] /\ quote'[p] = quote[p]
      BY <1>a, <2>1, KeptIsReserved DEF TypeOK
    <3> QED
      BY <1>a, <2>1, <2>8, <3>1, KeptIsReserved DEF BInv, SameAge
  <2> QED
    BY <2>7, <2>9
<1>2. CASE CallbackBusy(o)
  <2>1. spent' = Kept /\ UNCHANGED <<quote, calls, sent, overheld, uptime>>
    BY <1>2 DEF CallbackBusy
  <2> QED
    BY <1>a, <2>1, AgesKept, KeptIsReserved DEF BInv, SameAge
<1>3. CASE QuoteFails(o)
  <2>1. /\ quote' = [quote EXCEPT ![o] = "over"] /\ UNCHANGED <<calls, sent, overheld, uptime>>
        /\ o \in InFlight /\ spent' = IF quote[o] = "creating" THEN spent ELSE [spent EXCEPT ![o] = None]
    BY <1>3 DEF QuoteFails, Over, Release
  <2>2. sent[o] # None => spent' = spent
    BY <2>1 DEF BInv, SameAge, InFlight
  <2>3. \A p \in Orders : /\ spent'[p] # None => spent'[p] = spent[p]
                          /\ p # o => spent'[p] = spent[p] /\ quote'[p] = quote[p]
    BY <1>a, <2>1 DEF TypeOK
  <2>4. quote'[o] = "over"
    BY <1>a, <2>1 DEF TypeOK
  <2>5. \A p \in Orders \ overheld : sent[p] # None /\ sent[p] <= uptime => spent'[p] # None
    BY <2>2, <2>3 DEF BInv, SameAge
  <2> QED
    BY <2>1, <2>3, <2>4, <2>5, AgesKept
<1>4. CASE Priced(o) \/ Accepted(o)
  <2>1. UNCHANGED <<spent, calls, sent, overheld, uptime>>
    BY <1>4 DEF Priced, Accepted, Passes
  <2>2. /\ \A p \in Orders \ {o} : quote'[p] = quote[p]
        /\ quote'[o] \in {"none", "pricing", "swapping"} => quote[o] \in {"none", "pricing", "swapping"}
    BY <1>a, <1>4 DEF Priced, Accepted, Over, TypeOK
  <2> QED
    BY <2>1, <2>2, AgesKept DEF BInv, SameAge
<1>5. CASE Create(o)
  <2>1. /\ spent' = [spent EXCEPT ![o] = IF @ = None THEN None ELSE 0]
        /\ sent' = [sent EXCEPT ![o] = 0] /\ quote' = [quote EXCEPT ![o] = "creating"]
        /\ overheld' = IF spent[o] = None THEN overheld \cup {o} ELSE overheld
        /\ UNCHANGED <<calls, uptime>>
    BY <1>5 DEF Create, Restamp
  <2>2. Reserved' \subseteq Reserved
    BY <1>a, <2>1 DEF Reserved, TypeOK
  <2>3. SameAge'
    <3>1. \A p \in Orders : p # o => spent'[p] = spent[p] /\ sent'[p] = sent[p] /\ quote'[p] = quote[p]
      BY <1>a, <2>1 DEF TypeOK
    <3>2. quote'[o] = "creating" /\ sent'[o] = 0 /\ (spent[o] # None => spent'[o] = 0)
      BY <1>a, <2>1 DEF TypeOK
    <3>3. overheld \subseteq overheld' /\ (spent[o] = None => o \in overheld') /\ uptime' = uptime
      BY <2>1
    <3> QED
      BY <3>1, <3>2, <3>3 DEF BInv, SameAge
  <2> QED
    BY <2>1, <2>2, <2>3, BooksKept
<1> QED
  BY <1>1, <1>2, <1>3, <1>4, <1>5 DEF CallbackStep

(* The poller and the hook make calls, and touch nothing else of the       *)
(* budget.                                                                 *)
LEMMA CallersKeepBooks ==
  ASSUME BInv, UNCHANGED quote, TakeCall \/ CallRefused \/ Passes \/ Fails
  PROVE  Booked' /\ SameAge'
<1>1. UNCHANGED <<sent, overheld, uptime>>
  BY DEF TakeCall, CallRefused, Passes, Fails, budget
<1>2. CASE TakeCall \/ CallRefused
  <2>1. spent' = spent \/ spent' = Kept
    BY <1>2 DEF TakeCall, CallRefused, budget
  <2>2. SameAge'
    BY <1>1, <2>1, KeptIsReserved DEF BInv, FInv, SameAge
  <2> QED
    BY <1>2, <2>2, CallKeepsBooks
<1>3. CASE Passes \/ Fails
  <2>1. UNCHANGED <<spent, calls>>
    BY <1>3 DEF Passes, Fails
  <2> QED
    BY <1>1, <2>1, AgesKept DEF BInv, SameAge
<1> QED
  BY <1>2, <1>3

(* A tick: no entry and no call is added, and what stays has grown one     *)
(* older on both sides.                                                    *)
LEMMA TickKeepsBooks ==
  ASSUME BInv, Tick
  PROVE  Booked' /\ SameAge'
<1>1. /\ spent \in [Orders -> Nat \cup {None}] /\ sent \in [Orders -> Ages \cup {None}]
      /\ calls \in [Ages -> Nat] /\ uptime \in Ages /\ IsFiniteSet(Made(Ours))
      /\ Weight(Reserved, Ours) <= Limit /\ UNCHANGED <<quote, overheld>>
  BY DEF BInv, FInv, TypeOK, Booked, Tick
<1>2. /\ \A o \in Orders :
           /\ spent'[o] = IF spent[o] \in {None, Window} THEN spent[o] ELSE spent[o] + 1
           /\ sent'[o] = IF sent[o] \in {None, Window - 1} THEN None ELSE sent[o] + 1
      /\ uptime' = IF uptime = Window - 1 THEN uptime ELSE uptime + 1
  BY DEF Tick, WindowMoves
<1>3. Window \in Nat \ {0} /\ None \notin Nat /\ (\A a \in Ages : a \in Nat /\ a <= Window - 1)
  BY NumbersAreNat, FixedFloatAssumption DEF Ages
<1>4. SameAge'
  <2>1. ASSUME NEW o \in Orders, sent[o] = None
        PROVE  sent'[o] = None
    BY <1>2, <1>3, <2>1
  <2>2. ASSUME NEW o \in Orders, sent'[o] # None, sent'[o] <= uptime',
               sent[o] # None /\ sent[o] <= uptime => spent[o] = sent[o]
        PROVE  spent'[o] = sent'[o]
    <3>1. sent[o] # None /\ sent[o] \in Ages /\ sent[o] # Window - 1 /\ sent'[o] = sent[o] + 1
      BY <1>1, <1>2, <2>2
    <3>2. sent[o] <= uptime
      BY <1>1, <1>2, <1>3, <2>2, <3>1
    <3> QED
      BY <1>1, <1>2, <1>3, <2>2, <3>1, <3>2
  <2> QED
    BY <1>1, <2>1, <2>2 DEF BInv, SameAge
<1>5. Reserved' \subseteq Reserved
  BY <1>2, <1>3 DEF Reserved
<1>6. /\ Ours \in [Ages -> Nat] /\ Ours' \in [Ages -> Nat]
      /\ \A a \in Ages : Ours'[a] = IF a = 0 THEN 0 ELSE Ours[a - 1]
      /\ \A a \in Ages : a # 0 => a - 1 \in Ages
  <2>1. \A a \in Ages : a # 0 => a - 1 \in Ages
    BY <1>3 DEF Ages
  <2>2. /\ calls' = [a \in Ages |-> IF a = 0 THEN 0 ELSE calls[a - 1]]
        /\ Ours' = [a \in Ages |-> IF a <= uptime' THEN calls'[a] ELSE 0]
    BY DEF Tick, WindowMoves, Ours
  <2>3. ASSUME NEW a \in Ages
        PROVE  Ours'[a] = IF a = 0 THEN 0 ELSE Ours[a - 1]
    <3>1. CASE a = 0
      BY <2>2, <3>1
    <3>2. CASE a # 0
      <4>1. a <= uptime' <=> a - 1 <= uptime
        BY <1>1, <1>2, <1>3, <3>2
      <4>2. Ours[a - 1] = IF a - 1 <= uptime THEN calls[a - 1] ELSE 0
        BY <2>1, <3>2 DEF Ours
      <4> QED
        BY <2>2, <3>2, <4>1, <4>2
    <3> QED
      BY <3>1, <3>2
  <2>4. Ours \in [Ages -> Nat]
    BY OursTyped DEF BInv, FInv
  <2>5. Ours' = [a \in Ages |-> Ours'[a]]
    BY <2>2
  <2> QED
    BY <2>1, <2>3, <2>4, <2>5
<1> DEFINE younger == [c \in Made(Ours') |-> <<c[1] - 1, c[2]>>]
<1>7. ASSUME NEW c \in Made(Ours')
      PROVE  \E a \in Ages \ {0} : \E n \in 1..Ours[a - 1] : c = <<a, n>>
  <2>1. PICK a \in Ages : \E n \in 1..Ours'[a] : c = <<a, n>>
    BY <1>6, InMade
  <2>2. a # 0
    BY <1>6, <2>1
  <2> QED
    BY <1>6, <2>1, <2>2
<1>8. younger \in Injection(Made(Ours'), Made(Ours))
  <2>1. ASSUME NEW c \in Made(Ours')
        PROVE  <<c[1] - 1, c[2]>> \in Made(Ours)
    <3>1. PICK a \in Ages \ {0} : \E n \in 1..Ours[a - 1] : c = <<a, n>>
      BY <1>7
    <3> QED
      BY <1>1, <1>6, <3>1, InMade
  <2>2. ASSUME NEW c \in Made(Ours'), NEW d \in Made(Ours'),
               <<c[1] - 1, c[2]>> = <<d[1] - 1, d[2]>>
        PROVE  c = d
    <3>1. PICK a \in Ages \ {0} : \E n \in 1..Ours[a - 1] : c = <<a, n>>
      BY <1>7
    <3>2. PICK b \in Ages \ {0} : \E n \in 1..Ours[b - 1] : d = <<b, n>>
      BY <1>7
    <3>3. a - 1 = b - 1 /\ a \in Nat /\ b \in Nat
      BY <1>3, <2>2, <3>1, <3>2
    <3> QED
      BY <2>2, <3>1, <3>2, <3>3
  <2>3. younger \in [Made(Ours') -> Made(Ours)]
    BY <2>1
  <2>4. \A c, d \in Made(Ours') : younger[c] = younger[d] => c = d
    BY <2>2
  <2> HIDE DEF younger
  <2> QED
    BY <2>3, <2>4 DEF Injection, IsInjective
<1>9. IsFiniteSet(Made(Ours')) /\ Cardinality(Made(Ours')) <= Cardinality(Made(Ours))
  BY <1>1, <1>8, FS_Injection
<1>10. Weight(Reserved', Ours') <= Weight(Reserved, Ours)
  BY <1>1, <1>5, <1>9, WeighsLess DEF Reserved
<1>11. Weight(Reserved', Ours') \in Nat /\ Weight(Reserved, Ours) \in Nat /\ Limit \in Nat
  <2>1. Reserved' \subseteq Orders /\ Reserved \subseteq Orders
    BY DEF Reserved
  <2> QED
    BY <1>1, <1>9, <2>1, WeightIsNat, FixedFloatAssumption
<1>12. Booked'
  BY <1>1, <1>9, <1>10, <1>11 DEF Booked, Made, Weight
<1> QED
  BY <1>4, <1>12

LEMMA ProcessKeepsBooks ==
  ASSUME BInv, Refresh \/ Resume \/ Restart
  PROVE  Booked' /\ SameAge'
<1>1. CASE Refresh
  <2> DEFINE kept == {o \in Orders : Kept[o] # None}
  <2>1. /\ Used + CallWeight <= Limit /\ Used = Weight(kept, Ours)
        /\ spent' = Kept /\ calls' = [calls EXCEPT ![0] = @ + 1]
        /\ UNCHANGED <<quote, sent, overheld, uptime>>
    BY <1>1 DEF Refresh, Used
  <2>2. kept \subseteq Orders /\ IsFiniteSet(Made(Ours)) /\ Reserved' = kept /\ TypeOK
    BY <2>1 DEF BInv, FInv, Booked, Reserved
  <2>3. IsFiniteSet(Made(Ours')) /\ Weight(kept, Ours') <= Weight(kept, Ours) + CallWeight
    BY <2>1, <2>2, CallIsCounted
  <2>4. Weight(kept, Ours') \in Nat /\ Weight(kept, Ours) \in Nat
    BY <2>2, <2>3, WeightIsNat
  <2>5. Weight(kept, Ours') <= Limit
    <3> HIDE DEF kept
    <3> QED
      BY <2>1, <2>3, <2>4, FixedFloatAssumption
  <2>6. Booked'
    BY <2>2, <2>3, <2>5 DEF Booked, Made, Weight
  <2>7. SameAge'
    BY <2>1, <2>2, KeptIsReserved DEF BInv, SameAge
  <2> QED
    BY <2>6, <2>7
<1>2. CASE Resume
  BY <1>2, AgesKept DEF BInv, SameAge, Resume
<1>3. CASE Restart
  <2>0. /\ Window \in Nat \ {0} /\ None \notin Nat /\ Ages \subseteq Nat /\ 0 \in Ages
        /\ sent \in [Orders -> Ages \cup {None}]
    BY NumbersAreNat, AgesAreNat, FixedFloatAssumption DEF BInv, FInv, TypeOK
  <2>1. /\ spent' = [o \in Orders |-> None] /\ uptime' = 0
        /\ sent' = [o \in Orders |-> IF sent[o] \in {None, Window - 1} THEN None ELSE sent[o] + 1]
        /\ calls' = [a \in Ages |-> IF a = 0 THEN 0 ELSE calls[a - 1]]
        /\ quote' = [o \in Orders |-> IF o \in InFlight THEN "over" ELSE quote[o]]
    BY <1>3 DEF Restart, WindowMoves
  <2>2. Made(Ours') = {}
    <3>1. Ours' = [a \in Ages |-> IF a <= uptime' THEN calls'[a] ELSE 0]
      BY DEF Ours
    <3>2. \A a \in Ages : Ours'[a] = 0
      BY <2>0, <2>1, <3>1
    <3>3. Ours' \in [Ages -> Nat]
      BY <3>1, <3>2
    <3> QED
      BY <3>2, <3>3, InMade
  <2>3. Reserved' \subseteq Reserved
    BY <2>1 DEF Reserved
  <2>4. Weight(Reserved', Ours') <= Weight(Reserved, Ours)
    <3>1. Reserved \subseteq Orders /\ IsFiniteSet(Made(Ours)) /\ Cardinality(Made(Ours)) \in Nat
      BY FS_CardinalityType DEF BInv, Booked, Reserved
    <3>2. IsFiniteSet(Made(Ours')) /\ Cardinality(Made(Ours')) <= Cardinality(Made(Ours))
      BY <2>2, <3>1, FS_EmptySet
    <3> QED
      BY <2>3, <3>1, <3>2, WeighsLess
  <2>5. Weight(Reserved', Ours') \in Nat /\ Weight(Reserved, Ours) \in Nat
    <3>1. Reserved' \subseteq Orders /\ Reserved \subseteq Orders
      BY DEF Reserved
    <3> QED
      BY <2>2, <3>1, WeightIsNat, FS_EmptySet DEF BInv, Booked
  <2>6. Booked'
    <3>1. IsFiniteSet(Made(Ours')) /\ Weight(Reserved, Ours) <= Limit
      BY <2>2, FS_EmptySet DEF BInv, Booked
    <3>2. Weight(Reserved', Ours') <= Limit
      BY <2>4, <2>5, <3>1, FixedFloatAssumption
    <3> QED
      BY <3>1, <3>2 DEF Booked, Made, Weight
  <2>7. SameAge'
    <3>1. ASSUME NEW o \in Orders, sent'[o] # None
          PROVE  ~(sent'[o] <= uptime')
      <4>1. sent[o] \in Ages /\ sent'[o] = sent[o] + 1
        BY <2>0, <2>1, <3>1
      <4>2. sent[o] \in Nat
        BY <2>0, <4>1
      <4>3. uptime' = 0
        BY <2>1
      <4> QED
        BY <4>1, <4>2, <4>3
    <3>2. \A o \in Orders : sent[o] = None => sent'[o] = None
      BY <2>1
    <3>3. \A o \in Orders : quote'[o] \in {"none", "pricing", "swapping"} =>
                           quote[o] \in {"none", "pricing", "swapping"}
      BY <2>1 DEF InFlight
    <3> QED
      BY <3>1, <3>2, <3>3 DEF BInv, SameAge
  <2> QED
    BY <2>6, <2>7
<1> QED
  BY <1>1, <1>2, <1>3

LEMMA BInvStep == BInv /\ [Next]_vars => BInv'
<1> SUFFICES ASSUME BInv, [Next]_vars PROVE Booked' /\ SameAge'
  BY FInvStep DEF BInv
<1>1. CASE UNCHANGED <<quote, budget>>
  BY <1>1, AgesKept DEF BInv, SameAge, budget
<1>2. CASE PollAsks
  BY <1>2, CallersKeepBooks DEF PollAsks
<1>3. CASE PollFails
  BY <1>3, CallersKeepBooks DEF PollFails
<1>4. ASSUME NEW o \in Orders, PollRecords(o)
      PROVE  Booked' /\ SameAge'
  BY <1>4, CallersKeepBooks DEF PollRecords
<1>5. ASSUME NEW o \in Orders, HookStep(o)
      PROVE  Booked' /\ SameAge'
  <2>1. UNCHANGED quote /\ (TakeCall \/ CallRefused \/ Passes \/ Fails \/ UNCHANGED budget)
    BY <1>5 DEF HookStep, HookRuns, HookAnswered
  <2> QED
    BY <1>1, <2>1, CallersKeepBooks
<1>6. CASE PassStarts \/ PollAnswered \/ \E o \in Orders : Settle(o) \/ Progress(o) \/ ReportsTxid(o) \/ Later(o)
  BY <1>1, <1>6 DEF PassStarts, PollAnswered, Settle, Progress, ReportsTxid, Later
<1>7. CASE UNCHANGED vars
  BY <1>1, <1>7 DEF vars
<1> QED
  BY <1>2, <1>3, <1>4, <1>5, <1>6, <1>7, CallbackKeepsBooks, TickKeepsBooks, ProcessKeepsBooks
     DEF Next, PollStep

LEMMA BInvInit == Init => BInv
<1> SUFFICES ASSUME Init PROVE Booked /\ SameAge
  BY FInvInit DEF BInv
<1>1. Made(Ours) = {}
  <2>1. Ours \in [Ages -> Nat] /\ \A a \in Ages : Ours[a] = 0
    BY DEF Init, Ours
  <2> QED
    BY <2>1, InMade
<1>2. Reserved = {}
  BY DEF Init, Reserved
<1>3. Weight(Reserved, Ours) = 0
  BY <1>1, <1>2, FS_EmptySet, FixedFloatAssumption DEF Weight
<1> QED
  BY <1>1, <1>3, FS_EmptySet, FixedFloatAssumption DEF Init, Booked, SameAge

(* However many callbacks, passes and hooks share the client, and however  *)
(* late a create is sent after its share was reserved, what FixedFloat     *)
(* counts in one window stays within the limit: all of it once the process *)
(* has been up that long, and until then what it sent itself.              *)
THEOREM BudgetHolds == Spec => []WindowHolds
<1>1. BInv => WindowHolds
  <2> SUFFICES ASSUME BInv PROVE WindowHolds
    OBVIOUS
  <2> DEFINE counted == {o \in Orders \ overheld : sent[o] # None /\ sent[o] <= uptime}
  <2>1. counted \subseteq Reserved /\ Reserved \subseteq Orders /\ counted \subseteq Orders
    BY DEF BInv, SameAge, Reserved
  <2>2. IsFiniteSet(Made(Ours)) /\ Weight(Reserved, Ours) <= Limit
    BY DEF BInv, Booked
  <2> HIDE DEF counted
  <2>3. Weight(counted, Ours) <= Weight(Reserved, Ours)
    BY <2>1, <2>2, WeighsLess, FS_CardinalityType
  <2>4. Weight(counted, Ours) \in Nat /\ Weight(Reserved, Ours) \in Nat
    BY <2>1, <2>2, WeightIsNat
  <2> QED
    BY <2>2, <2>3, <2>4, FixedFloatAssumption DEF WindowHolds, counted
<1> QED
  BY <1>1, BInvInit, BInvStep, PTL DEF Spec
=============================================================================
