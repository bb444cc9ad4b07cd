------------------------ MODULE ArkadeWatcherProofs ------------------------
(***************************************************************************)
(* Proofs about module ArkadeWatcher, for any records, arrivals, scripts,  *)
(* windows and chunks. A credit rests on two facts the runs' invariants do *)
(* not say: a settled record's reference is its credit's transaction, by   *)
(* which a later pass knows the arrival again, and what the indexer showed *)
(* has arrived. The order of service rests on what a pass listed, and the  *)
(* best fit on the least amount that went without.                         *)
(***************************************************************************)
EXTENDS ArkadeWatcher, FiniteSetTheorems, WellFoundedInduction, TLAPS

CreditIsReferred ==
  \A r \in Records : row[r] = "settled" => reference[r] = TxOf[credit[r]]

SeenArrived == seen \subseteq Arrived

WInv ==
  /\ TypeOK
  /\ CreditsAreJust
  /\ CreditIsReferred
  /\ SeenArrived

-----------------------------------------------------------------------------

LEMMA WInvInit == Init => WInv
<1> SUFFICES ASSUME Init PROVE WInv
  OBVIOUS
<1> USE WatcherAssumption DEF Init
<1>1. TypeOK
  <2>1. passing \in BOOLEAN /\ again \in BOOLEAN /\ timer \in BOOLEAN
    BY Zenon DEF Loop!Init
  <2>2. /\ row \in [Records -> {"none", "pending", "settled"}]
        /\ reference \in [Records -> Txids \cup {None}]
        /\ credit \in [Records -> Vtxos \cup {None}]
        /\ at \in [Vtxos -> Int \cup {None}]
    BY Zenon
  <2>3. now \in 0..MaxTime /\ born \in [Records -> 0..MaxTime]
    OBVIOUS
  <2> QED
    BY <2>1, <2>2, <2>3 DEF TypeOK
<1>2. CreditsAreJust /\ CreditIsReferred
  BY DEF CreditsAreJust, CreditIsReferred
<1>3. SeenArrived
  BY DEF SeenArrived
<1> QED
  BY <1>1, <1>2, <1>3 DEF WInv

(* The steps that neither settle a record nor change what has arrived.     *)
LEMMA UnpaidKeeps ==
  ASSUME WInv, TypeOK', UNCHANGED <<row, born, reference, credit, at>>, seen' \subseteq Arrived
  PROVE  WInv'
<1>1. CreditsAreJust'
  BY DEF WInv, CreditsAreJust, Arrived
<1>2. CreditIsReferred'
  BY DEF WInv, CreditIsReferred
<1>3. SeenArrived'
  BY DEF SeenArrived, Arrived
<1> QED
  BY <1>1, <1>2, <1>3 DEF WInv

(* The arrivals a pass assigns are its to assign, cover their records, and *)
(* no two records have one of them.                                        *)
LEMMA AssignsWell ==
  ASSUME TypeOK, NEW records \in SUBSET Records, NEW listed \in Listings(records),
         NEW gives \in [records -> seen \cup {None}], Assigns(gives, records, listed)
  PROVE  /\ \A r \in records : gives[r] # None =>
              gives[r] \in seen /\ ~Used(gives[r]) /\ Covers(gives[r], r)
         /\ \A q, r \in records : q # r /\ gives[r] # None => gives[q] # gives[r]
<1> USE DEF TypeOK
<1>1. ASSUME NEW r \in records, gives[r] # None
      PROVE  /\ gives[r] \in seen /\ ~Used(gives[r]) /\ Covers(gives[r], r)
             /\ \A q \in records : Older(q, r, listed) => gives[q] # gives[r]
  BY <1>1 DEF Assigns
<1>2. ASSUME NEW q \in records, NEW r \in records, q # r
      PROVE  Older(q, r, listed) \/ Older(r, q, listed)
  <2>1. listed[q] \in Int /\ listed[r] \in Int /\ listed[q] # listed[r]
    BY <1>2 DEF Listings
  <2>2. born[q] \in Int /\ born[r] \in Int
    BY <1>2
  <2> QED
    BY <2>1, <2>2 DEF Older
<1> QED
  BY <1>1, <1>2

LEMMA UseKeeps == ASSUME WInv, Use PROVE WInv'
<1> DEFINE records == todo \ Rest
<1>1. PICK listed \in Listings(records), gives \in [records -> seen \cup {None}] :
        /\ Assigns(gives, records, listed)
        /\ MarkObserved({r \in records : gives[r] # None /\ Open(r)}, gives)
  BY DEF Use
<1>2. /\ UNCHANGED <<world, loop>>
      /\ todo' = Rest /\ step' = "ask" /\ asked' = {} /\ seen' = {}
  BY DEF Use
<1>3. TypeOK /\ records \in SUBSET Records /\ seen \subseteq Vtxos
  BY DEF WInv, TypeOK, Rest
<1> DEFINE paid == {r \in records : gives[r] # None /\ Open(r)}
<1> HIDE DEF records
<1>4. /\ \A r \in records : gives[r] # None =>
           gives[r] \in seen /\ ~Used(gives[r]) /\ Covers(gives[r], r)
      /\ \A q, r \in records : q # r /\ gives[r] # None => gives[q] # gives[r]
  BY <1>1, <1>3, AssignsWell
<1>5. /\ paid \subseteq records
      /\ \A r \in paid : gives[r] # None /\ row[r] = "pending"
  BY DEF Open
<1> HIDE DEF paid
<1>6. /\ row' = [r \in Records |-> IF r \in paid THEN "settled" ELSE row[r]]
      /\ reference' = [r \in Records |-> IF r \in paid THEN TxOf[gives[r]] ELSE reference[r]]
      /\ credit' = [r \in Records |-> IF r \in paid THEN gives[r] ELSE credit[r]]
      /\ born' = born
  BY <1>1 DEF MarkObserved, paid
<1>7. at' = at /\ Arrived' = Arrived
  BY <1>2 DEF world, Arrived
<1>8. TypeOK'
  <2>1. \A r \in paid : gives[r] \in Vtxos /\ TxOf[gives[r]] \in Txids
    BY <1>3, <1>4, <1>5, WatcherAssumption
  <2>2. /\ row' \in [Records -> {"none", "pending", "settled"}]
        /\ reference' \in [Records -> Txids \cup {None}]
        /\ credit' \in [Records -> Vtxos \cup {None}]
    BY <1>3, <1>6, <2>1 DEF TypeOK
  <2>3. todo' \in SUBSET Records
    BY <1>2, <1>3 DEF TypeOK, Rest
  <2> QED
    BY <1>2, <1>3, <1>6, <2>2, <2>3 DEF TypeOK, world, loop
<1>9. \A r \in Records : row'[r] = "settled" =>
        \/ r \in paid /\ credit'[r] = gives[r] /\ reference'[r] = TxOf[gives[r]]
        \/ r \notin paid /\ row[r] = "settled" /\ credit'[r] = credit[r]
             /\ reference'[r] = reference[r]
  BY <1>6
<1>10. CreditIsReferred'
  BY <1>9 DEF WInv, CreditIsReferred
<1>11. \A r \in Records : row'[r] = "settled" =>
         credit'[r] \in Arrived' /\ VtxoScript[credit'[r]] = ScriptOf[r]
           /\ at'[credit'[r]] >= born'[r] - Skew /\ Value[credit'[r]] >= Amount[r]
  <2> SUFFICES ASSUME NEW r \in Records, row'[r] = "settled"
               PROVE  credit'[r] \in Arrived /\ VtxoScript[credit'[r]] = ScriptOf[r]
                        /\ at[credit'[r]] >= born[r] - Skew /\ Value[credit'[r]] >= Amount[r]
    BY <1>6, <1>7
  <2>1. CASE r \in paid /\ credit'[r] = gives[r]
    BY <2>1, <1>4, <1>5 DEF WInv, SeenArrived, Covers
  <2>2. CASE row[r] = "settled" /\ credit'[r] = credit[r]
    BY <2>2 DEF WInv, CreditsAreJust
  <2> QED
    BY <1>9, <2>1, <2>2
<1>12. ASSUME NEW q \in Records, NEW r \in Records, q \in paid, r \notin paid,
              row[r] = "settled"
       PROVE  gives[q] # credit[r]
  <2>1. reference[r] = TxOf[credit[r]] /\ VtxoScript[credit[r]] = ScriptOf[r]
    BY <1>12 DEF WInv, CreditIsReferred, CreditsAreJust
  <2>2. ~Used(gives[q])
    BY <1>4, <1>5, <1>12
  <2> QED
    BY <2>1, <2>2, <1>12 DEF Used
<1>13. \A q, r \in Records :
         q # r /\ row'[q] = "settled" /\ row'[r] = "settled" => credit'[q] # credit'[r]
  <2> SUFFICES ASSUME NEW q \in Records, NEW r \in Records, q # r,
                      row'[q] = "settled", row'[r] = "settled"
               PROVE  credit'[q] # credit'[r]
    OBVIOUS
  <2>1. CASE q \in paid /\ r \in paid
    BY <2>1, <1>4, <1>5, <1>9
  <2>2. CASE q \in paid /\ r \notin paid
    BY <2>2, <1>9, <1>12
  <2>3. CASE q \notin paid /\ r \in paid
    BY <2>3, <1>9, <1>12
  <2>4. CASE q \notin paid /\ r \notin paid
    BY <2>4, <1>9 DEF WInv, CreditsAreJust
  <2> QED
    BY <2>1, <2>2, <2>3, <2>4
<1>14. SeenArrived'
  BY <1>2 DEF SeenArrived
<1> QED
  BY <1>8, <1>10, <1>11, <1>13, <1>14 DEF WInv, CreditsAreJust

LEMMA AcceptKeeps == ASSUME WInv, NEW r \in Records, Accept(r) PROVE WInv'
<1> USE DEF WInv, Accept, world, loop, pass
<1>1. TypeOK'
  BY DEF TypeOK
<1>2. row[r] = "none" /\ \A q \in Records : row'[q] = "settled" =>
        q # r /\ row[q] = "settled" /\ born'[q] = born[q]
  BY DEF TypeOK
<1>3. CreditsAreJust'
  BY <1>2 DEF CreditsAreJust, Arrived
<1>4. CreditIsReferred' /\ SeenArrived'
  BY <1>2 DEF CreditIsReferred, SeenArrived, Arrived
<1> QED
  BY <1>1, <1>3, <1>4

LEMMA ArriveKeeps == ASSUME WInv, NEW v \in Vtxos, Arrive(v) PROVE WInv'
<1> USE WatcherAssumption DEF WInv, Arrive, db, loop, pass
<1>1. PICK late \in 0..Lag : at' = [at EXCEPT ![v] = now - late]
  OBVIOUS
<1>2. now - late \in Int /\ at \in [Vtxos -> Int \cup {None}]
  BY DEF TypeOK
<1>3. TypeOK'
  BY <1>1, <1>2 DEF TypeOK
<1>4. \A w \in Arrived : w # v /\ at'[w] = at[w] /\ w \in Arrived'
  BY <1>1, <1>2 DEF Arrived
<1>5. CreditsAreJust'
  BY <1>4 DEF CreditsAreJust
<1>6. CreditIsReferred' /\ SeenArrived'
  BY <1>4 DEF CreditIsReferred, SeenArrived
<1> QED
  BY <1>3, <1>5, <1>6

LEMMA WInvStep == WInv /\ [Next]_vars => WInv'
<1> SUFFICES ASSUME WInv, [Next]_vars PROVE WInv'
  OBVIOUS
<1>0. TypeOK /\ seen \subseteq Arrived
  BY DEF WInv, SeenArrived
<1>1. CASE PassLists
  <2>1. TypeOK' /\ UNCHANGED <<row, born, reference, credit, at, seen>>
    BY <1>0, <1>1 DEF PassLists, TypeOK, world, db, loop
  <2> QED
    BY <2>1, <1>0, UnpaidKeeps
<1>2. CASE Ask
  <2>1. TypeOK' /\ UNCHANGED <<row, born, reference, credit, at, seen>>
    BY <1>0, <1>2, WatcherAssumption DEF Ask, TypeOK, world, db, loop
  <2> QED
    BY <2>1, <1>0, UnpaidKeeps
<1>3. CASE Answer
  <2>1. TypeOK' /\ UNCHANGED <<row, born, reference, credit, at>> /\ seen' \subseteq Arrived
    BY <1>0, <1>3 DEF Answer, TypeOK, world, db, loop, Arrived
  <2> QED
    BY <2>1, UnpaidKeeps
<1>4. CASE Use
  BY <1>4, UseKeeps
<1>5. CASE AskFails
  <2>1. TypeOK' /\ UNCHANGED <<row, born, reference, credit, at, seen>>
    BY <1>0, <1>5 DEF AskFails, TypeOK, world, db, loop, Rest
  <2> QED
    BY <2>1, <1>0, UnpaidKeeps
<1>6. CASE PassEnds
  <2>1. TypeOK' /\ UNCHANGED <<row, born, reference, credit, at, seen>>
    BY <1>0, <1>6 DEF PassEnds, Loop!PassEnds, TypeOK, world, db
  <2> QED
    BY <2>1, <1>0, UnpaidKeeps
<1>7. CASE Trigger \/ TimerFires
  <2>1. TypeOK' /\ UNCHANGED <<row, born, reference, credit, at, seen>>
    BY <1>0, <1>7 DEF Trigger, TimerFires, Loop!Trigger, Loop!TimerFires, TypeOK, world, db,
       pass
  <2> QED
    BY <2>1, <1>0, UnpaidKeeps
<1>8. CASE \E r \in Records : Accept(r)
  BY <1>8, AcceptKeeps
<1>9. CASE \E v \in Vtxos : Arrive(v)
  BY <1>9, ArriveKeeps
<1>10. CASE Tick
  <2>1. TypeOK' /\ UNCHANGED <<row, born, reference, credit, at, seen>>
    BY <1>0, <1>10, WatcherAssumption DEF Tick, TypeOK, db, loop, pass
  <2> QED
    BY <2>1, <1>0, UnpaidKeeps
<1>11. CASE UNCHANGED vars
  <2>1. TypeOK' /\ UNCHANGED <<row, born, reference, credit, at, seen>>
    BY <1>0, <1>11 DEF vars, TypeOK, world, db, loop, pass
  <2> QED
    BY <2>1, <1>0, UnpaidKeeps
<1> QED
  BY <1>1, <1>2, <1>3, <1>4, <1>5, <1>6, <1>7, <1>8, <1>9, <1>10, <1>11 DEF Next, PassStep

LEMMA WInvAlways == Spec => []WInv
<1> QED
  BY WInvInit, WInvStep, PTL DEF Spec

-----------------------------------------------------------------------------

(* The watcher's records, its pass and its loop are well typed, whatever   *)
(* is accepted, paid, reported and answered when.                          *)
THEOREM WatcherTypeCorrect == Spec => []TypeOK
<1>1. WInv => TypeOK
  BY DEF WInv
<1> QED
  BY <1>1, WInvAlways, PTL

(* Every settled record was paid, in full and at its script, by an arrival *)
(* that paid no other record, in whatever order the store lists records    *)
(* and however often the indexer shows an arrival again.                   *)
THEOREM EachArrivalPaysOnce == Spec => []CreditsAreJust
<1>1. WInv => CreditsAreJust
  BY DEF WInv
<1> QED
  BY <1>1, WInvAlways, PTL

-----------------------------------------------------------------------------
(* Oldest first. What a pass listed is closed under age: a record at the   *)
(* same script that is older than one of them was accepted before it, was  *)
(* open when the pass listed it if it is open now, and so is listed too.   *)

ListedInv ==
  /\ \A r \in Records : born[r] <= now
  /\ \A r \in todo : row[r] # "none"
  /\ \A r \in todo, q \in Records :
       ScriptOf[q] = ScriptOf[r] /\ born[q] < born[r] /\ Open(q) => q \in todo

LEMMA ListedInit == Init => ListedInv
BY DEF Init, ListedInv

(* Time only closes records, and so does a payment.                        *)
LEMMA ListedStays ==
  ASSUME TypeOK, ListedInv, UNCHANGED born, now' \in Int, now <= now',
         todo' \subseteq todo,
         \A r \in todo', q \in todo : ScriptOf[q] = ScriptOf[r] => q \in todo',
         \A r \in Records : row[r] # "none" => row'[r] # "none",
         \A r \in Records : row'[r] = "pending" => row[r] = "pending"
  PROVE  ListedInv'
<1>1. \A r \in Records : born[r] \in Int /\ now \in Int /\ Window \in Int
  BY WatcherAssumption DEF TypeOK
<1>2. \A q \in Records : Open(q)' => Open(q)
  BY <1>1 DEF Open
<1>3. \A r \in Records : born'[r] <= now'
  BY <1>1 DEF ListedInv
<1>4. \A r \in todo' : row'[r] # "none"
  BY DEF ListedInv, TypeOK
<1>5. ASSUME NEW r \in todo', NEW q \in Records,
             ScriptOf[q] = ScriptOf[r], born'[q] < born'[r], Open(q)'
      PROVE  q \in todo'
  BY <1>2, <1>5 DEF ListedInv
<1> QED
  BY <1>3, <1>4, <1>5 DEF ListedInv

LEMMA ListedStep == TypeOK /\ ListedInv /\ [Next]_vars => ListedInv'
<1> SUFFICES ASSUME TypeOK, ListedInv, [Next]_vars PROVE ListedInv'
  OBVIOUS
<1>0. now \in Int
  BY DEF TypeOK
<1>1. CASE PassLists
  <2>1. /\ todo' = {r \in Records : Open(r)}
        /\ UNCHANGED <<now, row, born>>
    BY <1>1 DEF PassLists, world, db
  <2>2. \A q \in Records : Open(q)' <=> Open(q)
    BY <2>1 DEF Open
  <2>3. \A r \in todo' : row'[r] = "pending"
    BY <2>1 DEF Open
  <2> QED
    BY <2>1, <2>2, <2>3 DEF ListedInv
<1>2. CASE Ask \/ Answer
  BY <1>0, <1>2, ListedStays DEF Ask, Answer, world, db
<1>3. CASE Use
  <2>1. /\ todo' = Rest /\ UNCHANGED <<now, born>>
        /\ \A r \in Records : row'[r] = "settled" \/ row'[r] = row[r]
    BY <1>3 DEF Use, MarkObserved, world
  <2> QED
    BY <1>0, <2>1, ListedStays DEF Rest
<1>4. CASE AskFails
  BY <1>0, <1>4, ListedStays DEF AskFails, Rest, world, db
<1>5. CASE PassEnds \/ Trigger \/ TimerFires
  BY <1>0, <1>5, ListedStays DEF PassEnds, Trigger, TimerFires, pass, world, db
<1>6. ASSUME NEW r \in Records, Accept(r)
      PROVE  ListedInv'
  <2>1. /\ row[r] = "none" /\ UNCHANGED <<now, todo>>
        /\ row' = [row EXCEPT ![r] = "pending"] /\ born' = [born EXCEPT ![r] = now]
    BY <1>6 DEF Accept, world, pass
  <2>2. r \notin todo /\ todo \subseteq Records
    BY <2>1 DEF ListedInv, TypeOK
  <2>3. /\ \A q \in Records \ {r} : row'[q] = row[q] /\ born'[q] = born[q] /\ (Open(q)' <=> Open(q))
        /\ row'[r] = "pending" /\ born'[r] = now
    BY <2>1 DEF TypeOK, Open
  <2>4. \A q \in todo : born[q] \in Int /\ born[q] <= now
    BY <2>2 DEF ListedInv, TypeOK
  <2>5. \A q \in Records : born'[q] <= now'
    BY <1>0, <2>1, <2>3 DEF ListedInv
  <2>6. ASSUME NEW p \in todo', NEW q \in Records,
               ScriptOf[q] = ScriptOf[p], born'[q] < born'[p], Open(q)'
        PROVE  q \in todo'
    <3>1. p # r /\ p \in todo /\ born'[p] = born[p] /\ p \in Records
      BY <2>1, <2>2, <2>3
    <3>2. q # r
      BY <1>0, <2>3, <2>4, <2>6, <3>1
    <3> QED
      BY <2>1, <2>3, <2>6, <3>1, <3>2 DEF ListedInv
  <2>7. \A q \in todo' : row'[q] # "none"
    BY <2>1, <2>2, <2>3 DEF ListedInv
  <2> QED
    BY <2>5, <2>6, <2>7 DEF ListedInv
<1>7. ASSUME NEW v \in Vtxos, Arrive(v)
      PROVE  ListedInv'
  BY <1>0, <1>7, ListedStays DEF Arrive, db, pass
<1>8. CASE Tick
  BY <1>0, <1>8, ListedStays DEF Tick, db, pass
<1>9. CASE UNCHANGED vars
  BY <1>0, <1>9, ListedStays DEF vars, world, db, pass
<1> QED
  BY <1>1, <1>2, <1>3, <1>4, <1>5, <1>6, <1>7, <1>8, <1>9 DEF Next, PassStep

(* Only Use settles records, and it gives the older of two records at a    *)
(* script an arrival whenever it gives one, enough for both, to the other. *)
LEMMA UseServesOldest ==
  ASSUME WInv, ListedInv, Use,
         NEW q \in Records, NEW r \in Records, row[r] = "pending", row'[r] = "settled",
         ScriptOf[q] = ScriptOf[r], born[q] < born[r], Open(q), Value[credit'[r]] >= Amount[q]
  PROVE  row'[q] = "settled"
<1> DEFINE records == todo \ Rest
<1>1. PICK listed \in Listings(records), gives \in [records -> seen \cup {None}] :
        /\ Assigns(gives, records, listed)
        /\ MarkObserved({p \in records : gives[p] # None /\ Open(p)}, gives)
  BY DEF Use
<1>2. TypeOK /\ records \in SUBSET Records /\ todo \subseteq Records /\ seen \subseteq Vtxos
  BY DEF WInv, TypeOK, Rest
<1>3. r \in records /\ gives[r] # None /\ credit'[r] = gives[r]
  BY <1>1, <1>2 DEF MarkObserved, TypeOK
<1>4. q \in records
  BY <1>3 DEF ListedInv, Rest
<1> HIDE DEF records
<1>5. SUFFICES gives[q] # None
  BY <1>1, <1>2, <1>4 DEF MarkObserved
<1>6. gives[r] \in seen /\ ~Used(gives[r]) /\ Covers(gives[r], r)
  BY <1>1, <1>2, <1>3, AssignsWell
<1>7. /\ born[q] \in Int /\ born[r] \in Int /\ Skew \in Int /\ at[gives[r]] \in Int
      /\ \A p \in records : born[p] \in Int /\ listed[p] \in Int
  <2>1. gives[r] \in Arrived
    BY <1>6 DEF WInv, SeenArrived
  <2> QED
    BY <1>1, <1>2, <2>1, WatcherAssumption DEF TypeOK, Listings, Arrived
<1>8. Covers(gives[r], q)
  BY <1>3, <1>6, <1>7 DEF Covers
<1>9. SUFFICES ASSUME gives[q] = None PROVE FALSE
  OBVIOUS
<1>10. PICK p \in records : Older(p, q, listed) /\ gives[p] = gives[r]
  BY <1>1, <1>2, <1>4, <1>6, <1>8, <1>9, WatcherAssumption DEF Assigns
<1>11. Older(p, r, listed)
  BY <1>7, <1>10 DEF Older
<1> QED
  BY <1>1, <1>3, <1>10, <1>11 DEF Assigns

(* "Oldest record first": an arrival that would do for an older record at  *)
(* the script, still open, never settles a younger one in its place, even  *)
(* when records are accepted, lapse and are paid while the indexer is      *)
(* asked.                                                                  *)
THEOREM OldestIsServedFirst == Spec => OldestFirst
<1> DEFINE Serves ==
      \A q, r \in Records :
        row[r] = "pending" /\ row'[r] = "settled"
          /\ ScriptOf[q] = ScriptOf[r] /\ born[q] < born[r] /\ Open(q)
          /\ Value[credit'[r]] >= Amount[q]
        => row'[q] = "settled"
<1>1. ASSUME WInv, ListedInv, Next PROVE Serves
  <2>1. CASE Use
    BY <1>1, <2>1, UseServesOldest
  <2>2. ASSUME NEW r \in Records, ~Use
        PROVE  ~(row[r] = "pending" /\ row'[r] = "settled")
    <3>1. CASE UNCHANGED row
      BY <3>1
    <3>2. ASSUME NEW p \in Records, Accept(p)
          PROVE  ~(row[r] = "pending" /\ row'[r] = "settled")
      BY <1>1, <3>2 DEF Accept, WInv, TypeOK
    <3> QED
      BY <1>1, <2>2, <3>1, <3>2 DEF Next, PassStep, PassLists, Ask, Answer, AskFails, PassEnds,
         Trigger, TimerFires, Arrive, Tick, db
  <2> QED
    BY <2>1, <2>2
<1>2. WInv /\ ListedInv /\ [Next]_vars => [Serves]_vars
  BY <1>1
<1>3. WInv => TypeOK
  BY DEF WInv
<1>4. Spec => []ListedInv
  BY <1>3, WInvAlways, ListedInit, ListedStep, PTL DEF Spec
<1> QED
  BY <1>2, <1>4, WInvAlways, PTL DEF Spec, OldestFirst

-----------------------------------------------------------------------------
(* Best fit. Of arrivals of one moment a record takes the smallest that    *)
(* covers it, in the order of the records' age, whatever their amounts.    *)
(* That no other assignment settles more rests on one threshold: the       *)
(* least amount from which on every arrival is given. Records below it     *)
(* have arrivals below it; whatever covers the others is given.            *)

(* A set of naturals has a least element.                                  *)
LEMMA LeastOf ==
  ASSUME NEW S \in SUBSET Nat, S # {}
  PROVE  \E n \in S : \A m \in S : n <= m
<1> DEFINE R == {ss \in Nat \X Nat : ss[1] < ss[2]}
<1>1. IsWellFoundedOn(R, Nat)
  BY NatLessThanWellFounded DEF OpToRel
<1>2. PICK n \in S : \A m \in S : ~(<<m, n>> \in R)
  <2> HIDE DEF R
  <2> QED
    BY <1>1, WFMin
<1>3. \A m \in S : ~(m < n)
  BY <1>2
<1> QED
  BY <1>3

(* One script, whose records mine compete for the arrivals free. f gives   *)
(* them out, each once, to records that are old enough and covered by it.  *)
Fits(f, mine, free, amount, value, due) ==
  /\ f \in [mine -> free \cup {None}]
  /\ \A r \in mine : f[r] # None => r \in due /\ value[f[r]] >= amount[r]
  /\ \A q, r \in mine : q # r /\ f[r] # None => f[q] # f[r]

(* A record goes without an arrival, or has a larger one, only if another  *)
(* record has it.                                                          *)
Thrifty(f, mine, free, amount, value, due) ==
  \A r \in mine, v \in free :
    r \in due /\ value[v] >= amount[r] =>
      (\E q \in mine : f[q] = v) \/ (f[r] # None /\ value[f[r]] <= value[v])

LEMMA BestFit ==
  ASSUME NEW mine, IsFiniteSet(mine), NEW free, None \notin free,
         NEW amount \in [mine -> Nat], NEW value \in [free -> Nat], NEW due,
         NEW gives, Fits(gives, mine, free, amount, value, due),
         Thrifty(gives, mine, free, amount, value, due),
         NEW best, Fits(best, mine, free, amount, value, due)
  PROVE  Cardinality({r \in mine : best[r] # None}) <= Cardinality({r \in mine : gives[r] # None})
<1>0. /\ gives \in [mine -> free \cup {None}] /\ best \in [mine -> free \cup {None}]
      /\ \A r \in mine : gives[r] # None => r \in due /\ value[gives[r]] >= amount[r]
      /\ \A q, r \in mine : q # r /\ gives[r] # None => gives[q] # gives[r]
      /\ \A r \in mine : best[r] # None => r \in due /\ value[best[r]] >= amount[r]
      /\ \A q, r \in mine : q # r /\ best[r] # None => best[q] # best[r]
  BY DEF Fits
<1>00. \A r \in mine, v \in free :
         r \in due /\ value[v] >= amount[r] =>
           (\E q \in mine : gives[q] = v) \/ (gives[r] # None /\ value[gives[r]] <= value[v])
  BY DEF Thrifty
<1> USE <1>0, <1>00
<1> DEFINE Given(v) == \E q \in mine : gives[q] = v
           full == {r \in mine \cap due : \A v \in free : value[v] >= amount[r] => Given(v)}
           served == {r \in mine : gives[r] # None}
           could == {r \in mine : best[r] # None}
<1>1. \A r \in mine : amount[r] \in Nat /\ (gives[r] # None => gives[r] \in free) 
                                        /\ (best[r] # None => best[r] \in free)
  OBVIOUS
<1>2. \A v \in free : value[v] \in Nat
  OBVIOUS
<1>3. IsFiniteSet(served) /\ IsFiniteSet(could)
  BY FS_Subset
<1>4. \A r \in could : r \notin served => r \in full
  OBVIOUS
<1>5. CASE full = {}
  <2>1. could \in SUBSET served
    BY <1>4, <1>5
  <2> HIDE DEF served, could
  <2>2. Cardinality(could) <= Cardinality(served)
    BY <1>3, <2>1, FS_Subset
  <2> QED
    BY <2>2 DEF served, could
<1>6. CASE full # {}
  <2>1. PICK r0 \in full : \A r \in full : amount[r0] <= amount[r]
    <3> DEFINE S == {amount[r] : r \in full}
    <3>1. S \in SUBSET Nat /\ S # {}
      BY <1>1, <1>6
    <3>2. PICK n \in S : \A m \in S : n <= m
      BY <3>1, LeastOf
    <3> QED
      BY <3>2
  <2>2. \A v \in free : value[v] >= amount[r0] => Given(v)
    BY <2>1
  <2>3. ASSUME NEW r \in served, amount[r] < amount[r0], value[gives[r]] >= amount[r0]
        PROVE  FALSE
    <3>1. gives[r] \in free /\ r \in due
      BY <2>3
    <3>2. ASSUME NEW v \in free, value[v] >= amount[r], ~Given(v)
          PROVE  FALSE
      <4>1. value[v] < amount[r0]
        BY <1>1, <1>2, <2>1, <2>2, <3>2
      <4>2. value[gives[r]] <= value[v]
        BY <3>1, <3>2
      <4> QED
        BY <1>1, <1>2, <2>1, <2>3, <3>1, <4>1, <4>2
    <3>3. r \in full
      BY <3>1, <3>2
    <3> QED
      BY <1>1, <2>1, <2>3, <3>3
  <2> DEFINE f == [r \in could |-> IF amount[r] < amount[r0] THEN r
                                    ELSE CHOOSE q \in mine : gives[q] = best[r]]
  <2>4. \A r \in could : amount[r] < amount[r0] => r \in served /\ f[r] = r
    BY <1>1, <1>4, <2>1
  <2>5. ASSUME NEW r \in could, ~(amount[r] < amount[r0])
        PROVE  f[r] \in served /\ gives[f[r]] = best[r] /\ value[best[r]] >= amount[r0]
    <3>1. best[r] \in free /\ value[best[r]] >= amount[r]
      BY <1>1
    <3>2. value[best[r]] >= amount[r0]
      BY <1>1, <1>2, <2>1, <2>5, <3>1
    <3>3. \E q \in mine : gives[q] = best[r]
      BY <2>2, <3>1, <3>2
    <3>4. f[r] \in mine /\ gives[f[r]] = best[r]
      BY <2>5, <3>3
    <3> QED
      BY <3>1, <3>2, <3>4
  <2>6. f \in [could -> served]
    BY <2>4, <2>5
  <2> HIDE DEF f
  <2>7. ASSUME NEW p \in could, NEW q \in could, f[p] = f[q], p # q
        PROVE  FALSE
    <3>1. CASE amount[p] < amount[r0] /\ amount[q] < amount[r0]
      BY <2>4, <2>7, <3>1
    <3>2. CASE ~(amount[p] < amount[r0]) /\ ~(amount[q] < amount[r0])
      BY <2>5, <2>7, <3>2
    <3>3. CASE amount[p] < amount[r0] /\ ~(amount[q] < amount[r0])
      BY <2>3, <2>4, <2>5, <2>7, <3>3
    <3>4. CASE ~(amount[p] < amount[r0]) /\ amount[q] < amount[r0]
      BY <2>3, <2>4, <2>5, <2>7, <3>4
    <3> QED
      BY <3>1, <3>2, <3>3, <3>4
  <2>8. f \in Injection(could, served)
    BY <2>6, <2>7 DEF Injection, IsInjective
  <2> HIDE DEF served, could
  <2>9. Cardinality(could) <= Cardinality(served)
    BY <1>3, <2>8, FS_Injection
  <2> QED
    BY <2>9 DEF served, could
<1> QED
  BY <1>5, <1>6

LEMMA UseWastesNothing == ASSUME WInv, Use, NEW s \in asked PROVE NoWaste(s)
<1> DEFINE mine == {r \in todo : ScriptOf[r] = s /\ Open(r)}
           free == {v \in seen : VtxoScript[v] = s /\ ~Used(v)}
<1> SUFFICES ASSUME \A v, w \in free : at[v] = at[w],
                    \A r \in todo : Open(r),
                    NEW best \in [mine -> free \cup {None}],
                    \A r \in mine : best[r] # None =>
                      /\ at[best[r]] >= born[r] - Skew /\ Value[best[r]] >= Amount[r]
                      /\ \A q \in mine \ {r} : best[q] # best[r]
             PROVE  Cardinality({r \in mine : best[r] # None})
                      <= Cardinality({r \in mine : row'[r] = "settled"})
  BY DEF NoWaste
<1> DEFINE records == todo \ Rest
           due == {r \in mine : \E v \in free : at[v] >= born[r] - Skew}
<1>1. PICK listed \in Listings(records), given \in [records -> seen \cup {None}] :
        /\ Assigns(given, records, listed)
        /\ MarkObserved({r \in records : given[r] # None /\ Open(r)}, given)
  BY DEF Use
<1>2. TypeOK /\ records \in SUBSET Records /\ todo \subseteq Records /\ seen \subseteq Vtxos
  BY DEF WInv, TypeOK, Rest
<1>3. mine = {r \in records : ScriptOf[r] = s}
  BY DEF Rest
<1> HIDE DEF records
<1>4. /\ \A r \in records : given[r] # None =>
           given[r] \in seen /\ ~Used(given[r]) /\ Covers(given[r], r)
      /\ \A q, r \in records : q # r /\ given[r] # None => given[q] # given[r]
  BY <1>1, <1>2, AssignsWell
<1> DEFINE gives == [r \in mine |-> given[r]]
<1>5. \A r \in mine : r \in records /\ gives[r] = given[r] /\ r \in Records /\ row[r] = "pending"
  BY <1>2, <1>3 DEF Open
<1>6. ASSUME NEW r \in records, given[r] # None, ScriptOf[r] = s
      PROVE  given[r] \in free
  BY <1>4, <1>6 DEF Covers
<1>7. gives \in [mine -> free \cup {None}]
  BY <1>3, <1>6
<1>8. mine \subseteq Records /\ free \subseteq Vtxos /\ None \notin free /\ IsFiniteSet(mine)
  BY <1>2, FS_Subset, WatcherAssumption
<1> DEFINE amount == [r \in mine |-> Amount[r]]
           value == [v \in free |-> Value[v]]
<1>9. amount \in [mine -> Nat] /\ value \in [free -> Nat]
  BY <1>8, WatcherAssumption
<1>10. \A r \in mine : gives[r] # None => r \in due /\ value[gives[r]] >= amount[r]
  BY <1>3, <1>4, <1>5, <1>6 DEF Covers
<1>11. \A q, r \in mine : q # r /\ gives[r] # None => gives[q] # gives[r]
  BY <1>4, <1>5
<1>12. \A r \in mine : best[r] # None => r \in due /\ value[best[r]] >= amount[r]
  OBVIOUS
<1>13. \A q, r \in mine : q # r /\ best[r] # None => best[q] # best[r]
  OBVIOUS
<1>14. ASSUME NEW r \in mine, NEW v \in free, r \in due, value[v] >= amount[r],
              ~\E q \in mine : gives[q] = v
       PROVE  gives[r] # None /\ value[gives[r]] <= value[v]
  <2>1. v \in seen /\ ~Used(v) /\ Covers(v, r)
    BY <1>3, <1>8, <1>14 DEF Covers
  <2>2. \A q \in records : given[q] # v
    <3> SUFFICES ASSUME NEW q \in records, given[q] = v PROVE FALSE
      OBVIOUS
    <3>1. ScriptOf[q] = s
      BY <1>4, <1>8, WatcherAssumption DEF Covers
    <3> QED
      BY <1>3, <1>14, <3>1
  <2>3. given[r] # None /\ (v = given[r] \/ Sooner(given[r], v))
    <3> DEFINE open == {w \in seen : /\ ~Used(w) /\ Covers(w, r)
                                     /\ \A q \in records : Older(q, r, listed) => given[q] # w}
    <3>1. \/ open = {} /\ given[r] = None
          \/ given[r] \in open /\ \A w \in open \ {given[r]} : Sooner(given[r], w)
      BY <1>1, <1>5 DEF Assigns
    <3>2. v \in open
      BY <2>1, <2>2
    <3>3. \A w \in open : w \in seen
      OBVIOUS
    <3> HIDE DEF open
    <3> QED
      BY <1>2, <3>1, <3>2, <3>3, WatcherAssumption
  <2>4. given[r] \in free /\ at[given[r]] = at[v] /\ at[v] \in Int
    <3>1. given[r] \in free
      BY <1>3, <1>5, <1>6, <2>3
    <3>2. v \in Arrived
      BY <2>1 DEF WInv, SeenArrived
    <3> QED
      BY <1>2, <1>8, <3>1, <3>2 DEF TypeOK, Arrived
  <2>5. Value[given[r]] <= Value[v]
    BY <1>8, <2>3, <2>4, WatcherAssumption DEF Sooner
  <2> QED
    BY <1>5, <2>3, <2>4, <2>5
<1>15. \A r \in mine : row'[r] = "settled" <=> gives[r] # None
  BY <1>1, <1>5 DEF MarkObserved
<1> HIDE DEF gives, due, amount, value, mine, free
<1>16. \A r \in mine, v \in free :
         r \in due /\ value[v] >= amount[r] =>
           \/ \E q \in mine : gives[q] = v
           \/ gives[r] # None /\ value[gives[r]] <= value[v]
  BY <1>14
<1>17. Cardinality({r \in mine : best[r] # None}) <= Cardinality({r \in mine : gives[r] # None})
  <2>1. Fits(gives, mine, free, amount, value, due)
    BY <1>7, <1>10, <1>11 DEF Fits
  <2>2. Fits(best, mine, free, amount, value, due)
    BY <1>12, <1>13 DEF Fits
  <2>3. Thrifty(gives, mine, free, amount, value, due)
    BY <1>16 DEF Thrifty
  <2> QED
    BY <1>8, <1>9, <2>1, <2>2, <2>3, BestFit
<1>18. {r \in mine : gives[r] # None} = {r \in mine : row'[r] = "settled"}
  BY <1>15
<1> QED
  BY <1>17, <1>18

(* "An older small record cannot take the payment a larger one needs": of  *)
(* arrivals of the same moment a pass settles as many of its records as    *)
(* any assignment could, for any amounts, values and listing.              *)
THEOREM BestFitIsBest == Spec => TiesWasteNothing
<1>1. ASSUME WInv, Next, step = "use", step' = "ask"
      PROVE  \A s \in asked : NoWaste(s)
  <2>1. Use
    BY <1>1 DEF Next, PassStep, PassLists, Ask, Answer, AskFails, PassEnds, Trigger, TimerFires,
       Accept, Arrive, Tick, pass
  <2> QED
    BY <1>1, <2>1, UseWastesNothing
<1>2. WInv /\ [Next]_vars => [step = "use" /\ step' = "ask" => \A s \in asked : NoWaste(s)]_vars
  BY <1>1
<1> QED
  BY <1>2, WInvAlways, PTL DEF Spec, TiesWasteNothing
=============================================================================
