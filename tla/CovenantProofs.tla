--------------------------- MODULE CovenantProofs ---------------------------
(***************************************************************************)
(* Proofs about module Covenant, for any destinations, payments, pages and *)
(* numbers of renewals. That a record closes on its receipt rests on two   *)
(* facts the run's invariant does not say: the outpoint on record descends *)
(* from the receipt, and what a pass saw of an output, however long ago,   *)
(* is behind the chain but final when it was spent.                        *)
(***************************************************************************)
EXTENDS Covenant, TLAPS

(* Outputs that may still be swept or renewed are live, and the payments   *)
(* of a transaction arrive together.                                       *)
ChainInv ==
  /\ \A p \in submitted \cup intents : state[p] = "live"
  /\ \A p, q \in Payments : TxOf[p] = TxOf[q] /\ state[p] = "absent" => state[q] = "absent"

Behind(saw, p) ==
  /\ saw.gen <= gen[p]
  /\ saw.state # "absent" => state[p] # "absent"
  /\ saw.state \in {"swept", "taken"} => state[p] = saw.state /\ gen[p] = saw.gen

SawInv == \A w \in Sweeps, p \in Payments : Behind(pass[w].saw[p], p)

OutpointIsReceipts ==
  \A s \in Scripts : outpoint[s] # None => row[s] = "settled" /\ outpoint[s] \in Receipt(s)

CInv ==
  /\ TypeOK
  /\ ChainInv
  /\ SawInv
  /\ OutpointIsReceipts
  /\ PaidOutIsReceipt

-----------------------------------------------------------------------------
(* Outputs, and the records of a pass.                                     *)

LEMMA CoinIs ==
  ASSUME NEW c \in Coins
  PROVE  /\ c[1] \in Payments /\ c[2] \in Nat /\ c[2] <= MaxRenewals[c[1]]
         /\ c = <<c[1], c[2]>> /\ c \in Payments \X Nat
<1>1. PICK p \in Payments : \E g \in 0..MaxRenewals[p] : c = <<p, g>>
  BY Zenon DEF Coins
<1>2. PICK g \in 0..MaxRenewals[p] : c = <<p, g>>
  BY <1>1
<1>3. MaxRenewals[p] \in Nat
  BY CovenantAssumption
<1> QED
  BY <1>2, <1>3

LEMMA CoinOf ==
  ASSUME NEW p \in Payments, NEW g \in Nat, g <= MaxRenewals[p]
  PROVE  <<p, g>> \in Coins
<1>1. MaxRenewals[p] \in Nat
  BY CovenantAssumption
<1> DEFINE renewals(q) == {<<q, h>> : h \in 0..MaxRenewals[q]}
<1>2. <<p, g>> \in renewals(p)
  BY <1>1
<1>3. renewals(p) \in {renewals(q) : q \in Payments}
  BY Zenon
<1> QED
  BY <1>2, <1>3 DEF Coins

LEMMA IdleTyped == Idle \in Passes
BY DEF Idle, Passes, States

(* Of what a pass saw, a step keeps or forgets.                            *)
Kept == \A w \in Sweeps, p \in Payments :
          pass'[w].saw[p] \in {pass[w].saw[p], Idle.saw[p]}

LEMMA SetTyped ==
  ASSUME TypeOK, NEW w \in Sweeps, NEW r \in Passes, Set(w, r)
  PROVE  /\ pass' \in [Sweeps -> Passes]
         /\ pass'[w] = r
         /\ \A v \in Sweeps \ {w} : pass'[v] = pass[v]
BY DEF TypeOK, Set

LEMMA SetKeeps ==
  ASSUME TypeOK, NEW w \in Sweeps, NEW r \in Passes, Set(w, r),
         \A p \in Payments : r.saw[p] \in {pass[w].saw[p], Idle.saw[p]}
  PROVE  pass' \in [Sweeps -> Passes] /\ Kept
<1>1. pass' \in [Sweeps -> Passes] /\ pass'[w] = r /\ \A v \in Sweeps \ {w} : pass'[v] = pass[v]
  BY SetTyped
<1> QED
  BY <1>1 DEF Kept

LEMMA MoveKeeps ==
  ASSUME TypeOK, NEW w \in Sweeps, NEW scripts \in SUBSET Scripts, NEW todo \in SUBSET Payments,
         Move(w, scripts, todo)
  PROVE  pass' \in [Sweeps -> Passes] /\ Kept
<1> DEFINE r == [at |-> IF todo # {} THEN "coin" ELSE "script", scripts |-> scripts, todo |-> todo,
                 coin |-> None,
                 saw |-> [p \in Payments |->
                            IF p \in todo \/ ScriptOf[p] \in scripts THEN pass[w].saw[p] ELSE Idle.saw[p]]]
<1>1. CASE scripts = {} /\ todo = {}
  <2>1. Set(w, Idle)
    BY <1>1 DEF Move
  <2> QED
    BY <2>1, IdleTyped, SetKeeps
<1>2. CASE ~(scripts = {} /\ todo = {})
  <2>1. Set(w, r)
    BY <1>2, Zenon DEF Move
  <2>2. pass[w] \in Passes
    BY DEF TypeOK
  <2>3. \A p \in Payments : r.saw[p] \in {pass[w].saw[p], Idle.saw[p]}
    OBVIOUS
  <2>4. pass[w].saw \in [Payments -> [state : States, gen : Nat]]
    BY <2>2 DEF Passes
  <2>5. Idle.saw \in [Payments -> [state : States, gen : Nat]]
    BY DEF Idle, States
  <2>6. r.saw \in [Payments -> [state : States, gen : Nat]]
    BY <2>4, <2>5, Zenon
  <2>7. r \in Passes
    BY <2>6 DEF Passes
  <2> HIDE DEF r
  <2> QED
    BY <2>1, <2>3, <2>7, SetKeeps
<1> QED
  BY <1>1, <1>2

-----------------------------------------------------------------------------
(* What each kind of step preserves.                                       *)

(* Steps that leave the outputs and the records alone.                     *)
LEMMA AskingKeeps ==
  ASSUME CInv, pass' \in [Sweeps -> Passes], Kept,
         UNCHANGED <<state, gen, age, phase, db>>, cursor' \in Scripts \cup {None},
         \A p \in submitted' \cup intents' : p \in Payments /\ state[p] = "live"
  PROVE  CInv'
<1>1. TypeOK'
  BY DEF CInv, TypeOK, db
<1>2. ChainInv'
  BY DEF CInv, ChainInv
<1>3. SawInv'
  <2> SUFFICES ASSUME NEW w \in Sweeps, NEW p \in Payments PROVE Behind(pass[w].saw[p], p)'
    BY DEF SawInv
  <2>1. Behind(pass[w].saw[p], p)
    BY DEF CInv, SawInv
  <2>2. gen[p] \in Nat
    BY DEF CInv, TypeOK
  <2>3. Behind(Idle.saw[p], p)
    BY <2>2 DEF Behind, Idle
  <2> QED
    BY <2>1, <2>3 DEF Kept, Behind
<1>4. OutpointIsReceipts' /\ PaidOutIsReceipt'
  <2>1. \A s \in Scripts : Receipt(s)' = Receipt(s)
    BY DEF Receipt, db
  <2>2. OutpointIsReceipts'
    BY <2>1 DEF CInv, OutpointIsReceipts, db
  <2>3. PaidOutIsReceipt'
    BY <2>1 DEF CInv, PaidOutIsReceipt, db
  <2> QED
    BY <2>2, <2>3
<1> QED
  BY <1>1, <1>2, <1>3, <1>4 DEF CInv

LEMMA PassStepKeeps ==
  ASSUME CInv, pass' \in [Sweeps -> Passes], Kept,
         UNCHANGED <<chain, phase, db>>, cursor' \in Scripts \cup {None}
  PROVE  CInv'
<1>1. \A p \in submitted' \cup intents' : p \in Payments /\ state[p] = "live"
  BY DEF CInv, TypeOK, ChainInv, chain
<1>2. UNCHANGED <<state, gen, age, phase, db>>
  BY DEF chain
<1> QED
  BY <1>1, <1>2, AskingKeeps

(* The chain only goes on: what was spent stays so.                        *)
Onward ==
  \A p \in Payments :
    /\ gen'[p] \in Nat /\ gen[p] <= gen'[p] /\ gen'[p] <= MaxRenewals[p]
    /\ state[p] # "absent" => state'[p] # "absent"
    /\ state[p] \in {"swept", "taken"} => state'[p] = state[p] /\ gen'[p] = gen[p]

LEMMA ChainStepKeeps ==
  ASSUME CInv, TypeOK', ChainInv', Onward, UNCHANGED <<db, pass>>
  PROVE  CInv'
<1>1. SawInv'
  <2> SUFFICES ASSUME NEW w \in Sweeps, NEW p \in Payments PROVE Behind(pass[w].saw[p], p)'
    BY DEF SawInv
  <2>1. Behind(pass[w].saw[p], p)
    BY DEF CInv, SawInv
  <2>2. pass[w].saw[p].gen \in Nat /\ gen[p] \in Nat
    BY DEF CInv, TypeOK, Passes
  <2> QED
    BY <2>1, <2>2 DEF Onward, Behind
<1>2. \A s \in Scripts : Receipt(s) \subseteq Receipt(s)'
  <2> SUFFICES ASSUME NEW s \in Scripts, NEW c \in Receipt(s) PROVE c \in Receipt(s)'
    OBVIOUS
  <2>1. c \in Coins /\ c[1] \in Payments /\ c[2] \in Nat
    BY CoinIs DEF Receipt
  <2>2. gen[c[1]] \in Nat /\ gen'[c[1]] \in Nat /\ gen[c[1]] <= gen'[c[1]]
    BY <2>1 DEF Onward, CInv, TypeOK
  <2> QED
    BY <2>1, <2>2 DEF Receipt, db
<1>3. OutpointIsReceipts'
  BY <1>2 DEF CInv, OutpointIsReceipts, db
<1>4. PaidOutIsReceipt'
  <2> SUFFICES ASSUME NEW s \in Scripts, payout[s] # None
               PROVE  /\ row[s] = "settled" /\ payout[s] \in Receipt(s)'
                      /\ state'[payout[s][1]] = "swept" /\ gen'[payout[s][1]] = payout[s][2]
    BY DEF PaidOutIsReceipt, db
  <2>1. /\ row[s] = "settled" /\ payout[s] \in Receipt(s)
        /\ state[payout[s][1]] = "swept" /\ gen[payout[s][1]] = payout[s][2]
    BY DEF CInv, PaidOutIsReceipt
  <2>2. payout[s][1] \in Payments
    BY <2>1, CoinIs DEF Receipt
  <2> QED
    BY <1>2, <2>1, <2>2 DEF Onward
<1> QED
  BY <1>1, <1>3, <1>4 DEF CInv

-----------------------------------------------------------------------------
(* The steps of a pass.                                                    *)

LEMMA PassTyped ==
  ASSUME TypeOK, NEW w \in Sweeps
  PROVE  /\ pass[w] \in Passes
         /\ pass[w].scripts \subseteq Scripts /\ pass[w].todo \subseteq Payments
         /\ pass[w].saw \in [Payments -> [state : States, gen : Nat]]
BY DEF TypeOK, Passes

LEMMA StartsKeep == CInv /\ (MainStarts \/ LateStarts \/ Lookup) => CInv'
<1> SUFFICES ASSUME CInv, MainStarts \/ LateStarts \/ Lookup PROVE CInv'
  OBVIOUS
<1>t. TypeOK
  BY DEF CInv
<1>i. Idle \in Passes /\ Idle.saw \in [Payments -> [state : States, gen : Nat]]
  BY IdleTyped DEF Passes
<1>m. "main" \in Sweeps /\ "late" \in Sweeps
  BY DEF Sweeps
<1>c. cursor' \in Scripts \cup {None} /\ UNCHANGED <<chain, phase, db>>
  <2>1. Turn(Page) \subseteq Scripts \cup {None}
    BY DEF Turn, Page
  <2> QED
    BY <1>t, <2>1 DEF MainStarts, LateStarts, Lookup, TypeOK
<1>1. CASE MainStarts
  <2> DEFINE r == [Idle EXCEPT !.at = "resolve", !.scripts = {s \in Scripts : Active(s)}]
  <2>1. r \in Passes /\ r.saw = Idle.saw
    BY <1>i DEF Passes
  <2>2. Set("main", r)
    BY <1>1 DEF MainStarts
  <2> HIDE DEF r
  <2>3. pass' \in [Sweeps -> Passes] /\ Kept
    BY <1>t, <1>m, <2>1, <2>2, SetKeeps
  <2> QED
    BY <1>c, <2>3, PassStepKeeps
<1>2. CASE LateStarts
  <2> DEFINE r == [Idle EXCEPT !.at = "lookup", !.scripts = Page]
  <2>1. r \in Passes /\ r.saw = Idle.saw
    BY <1>i DEF Passes, Page
  <2>2. Set("late", r) \/ pass' = pass
    BY <1>2 DEF LateStarts
  <2> HIDE DEF r
  <2>3. pass' \in [Sweeps -> Passes] /\ Kept
    <3>1. CASE Set("late", r)
      BY <1>t, <1>m, <2>1, <3>1, SetKeeps
    <3>2. CASE pass' = pass
      BY <1>t, <3>2 DEF TypeOK, Kept
    <3> QED
      BY <2>2, <3>1, <3>2
  <2> QED
    BY <1>c, <2>3, PassStepKeeps
<1>3. CASE Lookup
  <2> DEFINE f == {s \in pass["late"].scripts : \E p \in At(s) : state[p] = "live"}
             r == IF f = {} THEN Idle ELSE [pass["late"] EXCEPT !.at = "resolve", !.scripts = f]
  <2>1. pass["late"] \in Passes /\ f \subseteq Scripts
    BY <1>t, <1>m, PassTyped
  <2>2. r \in Passes /\ r.saw \in {pass["late"].saw, Idle.saw}
    <3> HIDE DEF f
    <3> QED
      BY <1>i, <2>1 DEF Passes
  <2>3. Set("late", r)
    BY <1>3 DEF Lookup
  <2> HIDE DEF r
  <2>4. pass' \in [Sweeps -> Passes] /\ Kept
    BY <1>t, <1>m, <2>2, <2>3, SetKeeps
  <2> QED
    BY <1>c, <2>4, PassStepKeeps
<1> QED
  BY <1>1, <1>2, <1>3

(* What is seen afresh is the chain.                                       *)
LEMMA ResolveKeeps == \A w \in Sweeps : CInv /\ Resolve(w) => CInv'
<1> SUFFICES ASSUME NEW w \in Sweeps, CInv, Resolve(w) PROVE CInv'
  OBVIOUS
<1>t. TypeOK
  BY DEF CInv
<1> DEFINE saw == [p \in Payments |->
                     IF ScriptOf[p] \in pass[w].scripts THEN [state |-> state[p], gen |-> gen[p]]
                     ELSE Idle.saw[p]]
           r == [pass[w] EXCEPT !.at = "script", !.saw = saw]
<1>1. saw \in [Payments -> [state : States, gen : Nat]]
  BY <1>t DEF TypeOK, Idle, States
<1>2. r \in Passes /\ r.saw = saw
  <2> HIDE DEF saw
  <2> QED
    BY <1>t, <1>1, PassTyped DEF Passes
<1>3. Set(w, r)
  BY DEF Resolve
<1>4. /\ pass' \in [Sweeps -> Passes] /\ pass'[w].saw = saw
      /\ \A v \in Sweeps \ {w} : pass'[v] = pass[v]
  <2> HIDE DEF saw, r
  <2> QED
    BY <1>t, <1>2, <1>3, SetTyped
<1>u. UNCHANGED <<chain, phase, db, cursor>>
  BY DEF Resolve
<1>5. TypeOK'
  <2> HIDE DEF saw, r
  <2> QED
    BY <1>t, <1>u, <1>4 DEF TypeOK, chain, db
<1>6. SawInv'
  <2> SUFFICES ASSUME NEW v \in Sweeps, NEW p \in Payments PROVE Behind(pass[v].saw[p], p)'
    BY DEF SawInv
  <2>1. CASE v = w
    <3>1. gen[p] \in Nat
      BY <1>t DEF TypeOK
    <3>2. saw[p] = [state |-> state[p], gen |-> gen[p]] \/ saw[p] = [state |-> "absent", gen |-> 0]
      BY DEF Idle
    <3> HIDE DEF saw
    <3> QED
      BY <1>4, <1>u, <2>1, <3>1, <3>2 DEF Behind, chain
  <2>2. CASE v # w
    <3>1. pass'[v] = pass[v] /\ Behind(pass[v].saw[p], p)
      BY <1>4, <2>2 DEF CInv, SawInv
    <3> HIDE DEF saw, r
    <3> QED
      BY <1>u, <3>1 DEF Behind, chain
  <2> QED
    BY <2>1, <2>2
<1>7. ChainInv' /\ OutpointIsReceipts' /\ PaidOutIsReceipt'
  BY <1>u DEF CInv, ChainInv, OutpointIsReceipts, PaidOutIsReceipt, Receipt, chain, db
<1> QED
  BY <1>5, <1>6, <1>7 DEF CInv

LEMMA NextMoves ==
  ASSUME TypeOK, NEW w \in Sweeps, NEW p, Move(w, pass[w].scripts, pass[w].todo \ {p})
  PROVE  pass' \in [Sweeps -> Passes] /\ Kept
<1>1. pass[w].scripts \in SUBSET Scripts /\ pass[w].todo \ {p} \in SUBSET Payments
  BY PassTyped
<1> QED
  BY <1>1, MoveKeeps

LEMMA AsideKeeps ==
  \A w \in Sweeps : CInv /\ (ReadFails(w) \/ Replied(w) \/ RenewRefused(w)) => CInv'
<1> SUFFICES ASSUME NEW w \in Sweeps, CInv, ReadFails(w) \/ Replied(w) \/ RenewRefused(w)
             PROVE  CInv'
  OBVIOUS
<1>t. TypeOK
  BY DEF CInv
<1>1. pass' \in [Sweeps -> Passes] /\ Kept
  <2>1. CASE ReadFails(w)
    BY <1>t, <2>1, IdleTyped, SetKeeps DEF ReadFails
  <2>2. CASE Replied(w)
    BY <1>t, <2>2, NextMoves DEF Replied, NextCoin
  <2>3. CASE RenewRefused(w)
    BY <1>t, <2>3, NextMoves DEF RenewRefused
  <2> QED
    BY <2>1, <2>2, <2>3
<1>2. UNCHANGED <<chain, phase, db, cursor>>
  BY DEF ReadFails, Replied, RenewRefused
<1> QED
  BY <1>t, <1>1, <1>2, PassStepKeeps DEF TypeOK

(* Only an output that is live is submitted or registered.                 *)
LEMMA AskedKeeps ==
  \A w \in Sweeps :
    CInv /\ (Submit(w) \/ RenewEnds(w) \/ \E p \in Payments : Register(w, p)) => CInv'
<1> SUFFICES ASSUME NEW w \in Sweeps, CInv,
                    Submit(w) \/ RenewEnds(w) \/ \E p \in Payments : Register(w, p)
             PROVE  CInv'
  OBVIOUS
<1>t. TypeOK /\ pass[w] \in Passes
  BY PassTyped DEF CInv
<1>u. /\ UNCHANGED <<state, gen, age, phase, db>>
      /\ cursor' \in Scripts \cup {None}
      /\ submitted \subseteq Payments /\ intents \subseteq Payments
      /\ \A p \in submitted \cup intents : state[p] = "live"
  BY <1>t DEF Submit, RenewEnds, Register, CInv, ChainInv, TypeOK
<1>1. CASE Submit(w)
  <2>1. PICK p \in pass[w].todo :
          /\ submitted' = IF Fresh(w, p) THEN submitted \cup {p} ELSE submitted
          /\ IF age[p] = "near" THEN Set(w, [pass[w] EXCEPT !.at = "sweeping", !.coin = p])
             ELSE Move(w, pass[w].scripts, pass[w].todo \ {p})
    BY <1>1 DEF Submit
  <2>2. p \in Payments
    BY <1>t, PassTyped
  <2>3. \A q \in submitted' \cup intents' : q \in Payments /\ state[q] = "live"
    BY <1>1, <1>u, <2>1, <2>2 DEF Submit, Fresh
  <2>4. pass' \in [Sweeps -> Passes] /\ Kept
    <3>1. CASE age[p] = "near"
      <4> DEFINE r == [pass[w] EXCEPT !.at = "sweeping", !.coin = p]
      <4>1. r \in Passes /\ r.saw = pass[w].saw
        BY <1>t, <2>2 DEF Passes
      <4>2. Set(w, r)
        BY <2>1, <3>1
      <4> HIDE DEF r
      <4> QED
        BY <1>t, <4>1, <4>2, SetKeeps
    <3>2. CASE age[p] # "near"
      BY <1>t, <2>1, <3>2, NextMoves
    <3> QED
      BY <3>1, <3>2
  <2> QED
    BY <1>u, <2>3, <2>4, AskingKeeps
<1>2. CASE RenewEnds(w)
  <2>1. pass' \in [Sweeps -> Passes] /\ Kept
    BY <1>t, <1>2, NextMoves DEF RenewEnds, NextCoin
  <2>2. \A q \in submitted' \cup intents' : q \in Payments /\ state[q] = "live"
    BY <1>2, <1>u DEF RenewEnds
  <2> QED
    BY <1>u, <2>1, <2>2, AskingKeeps
<1>3. ASSUME NEW p \in Payments, Register(w, p) PROVE CInv'
  <2> DEFINE r == [pass[w] EXCEPT !.at = "joining", !.coin = p]
  <2>1. r \in Passes /\ r.saw = pass[w].saw
    BY <1>t DEF Passes
  <2>2. Set(w, r)
    BY <1>3 DEF Register
  <2>3. \A q \in submitted' \cup intents' : q \in Payments /\ state[q] = "live"
    BY <1>3, <1>u DEF Register, Fresh
  <2> HIDE DEF r
  <2>4. pass' \in [Sweeps -> Passes] /\ Kept
    BY <1>t, <2>1, <2>2, SetKeeps
  <2> QED
    BY <1>u, <2>3, <2>4, AskingKeeps
<1> QED
  BY <1>1, <1>2, <1>3

(* The tip of a receipt's renewals in view is a receipt's output, and one  *)
(* that was seen spent is the last there will be.                          *)
LEMMA TipIsReceipts ==
  ASSUME CInv, NEW w \in Sweeps, NEW s \in Scripts, row[s] = "settled",
         NEW c \in From(w, s), c[2] <= pass[w].saw[c[1]].gen
  PROVE  /\ c[1] \in Payments
         /\ <<c[1], pass[w].saw[c[1]].gen>> \in Coins
         /\ <<c[1], pass[w].saw[c[1]].gen>> \in Receipt(s)
         /\ pass[w].saw[c[1]].state = "swept" =>
              state[c[1]] = "swept" /\ gen[c[1]] = pass[w].saw[c[1]].gen
<1>1. /\ c \in Coins /\ c[1] \in At(s) \cap Covers
      /\ \E g \in 0..c[2] : Tx(<<c[1], g>>) = reference[s]
  <2>1. CASE outpoint[s] # None
    <3>1. c = outpoint[s] /\ c \in Receipt(s)
      BY <2>1 DEF From, CInv, OutpointIsReceipts
    <3> QED
      BY <3>1 DEF Receipt
  <2>2. CASE outpoint[s] = None
    <3>1. c \in Coins /\ c[1] \in At(s) \cap Covers /\ Tx(c) = reference[s]
      BY <2>2 DEF From, Received
    <3>2. c[2] \in Nat /\ c = <<c[1], c[2]>>
      BY <3>1, CoinIs
    <3> QED
      BY <3>1, <3>2
  <2> QED
    BY <2>1, <2>2
<1>2. c[1] \in Payments /\ c[2] \in Nat
  BY <1>1, CoinIs
<1> DEFINE p == c[1]
           g == pass[w].saw[p].gen
<1>3. g \in Nat /\ gen[p] \in Nat /\ gen[p] <= MaxRenewals[p] /\ MaxRenewals[p] \in Nat
  BY <1>2, PassTyped, CovenantAssumption DEF CInv, TypeOK
<1>4. Behind(pass[w].saw[p], p)
  BY <1>2 DEF CInv, SawInv
<1>5. g <= gen[p]
  BY <1>4 DEF Behind
<1>6. <<p, g>> \in Coins
  BY <1>2, <1>3, <1>5, CoinOf
<1>7. <<p, g>> \in Receipt(s)
  <2>1. \E h \in 0..g : Tx(<<p, h>>) = reference[s]
    BY <1>1, <1>2, <1>3
  <2> QED
    BY <1>1, <1>5, <1>6, <2>1 DEF Receipt
<1> QED
  BY <1>2, <1>4, <1>6, <1>7 DEF Behind

LEMMA ScriptKeeps == \A w \in Sweeps : CInv /\ Script(w) => CInv'
<1> SUFFICES ASSUME NEW w \in Sweeps, CInv, Script(w) PROVE CInv'
  OBVIOUS
<1>t. TypeOK /\ pass[w].scripts \subseteq Scripts
  BY PassTyped DEF CInv
<1>u. UNCHANGED <<chain, phase, row, reference, cursor>>
  BY DEF Script
<1>c. cursor' \in Scripts \cup {None}
  BY <1>t, <1>u DEF TypeOK
<1>1. PICK s \in pass[w].scripts :
        LET rest == pass[w].scripts \ {s}
            todo == {p \in At(s) : pass[w].saw[p].state = "live"}
        IN
        \/ /\ UNCHANGED <<outpoint, payout>>
           /\ Move(w, rest, todo) \/ Move(w, rest, {})
        \/ /\ Owing(s)
           /\ \E c \in From(w, s) :
                /\ Reconcile(w, s, c)
                /\ Move(w, rest, IF pass[w].saw[c[1]].state = "live" THEN todo ELSE {})
  BY DEF Script
<1> DEFINE rest == pass[w].scripts \ {s}
           todo == {p \in At(s) : pass[w].saw[p].state = "live"}
<1>2. s \in Scripts /\ rest \in SUBSET Scripts /\ todo \in SUBSET Payments /\ {} \in SUBSET Payments
  BY <1>t DEF At
<1>3. CASE /\ UNCHANGED <<outpoint, payout>>
           /\ Move(w, rest, todo) \/ Move(w, rest, {})
  <2>1. pass' \in [Sweeps -> Passes] /\ Kept
    <3> HIDE DEF rest, todo
    <3> QED
      BY <1>t, <1>2, <1>3, MoveKeeps
  <2> QED
    BY <1>u, <1>c, <1>3, <2>1, PassStepKeeps DEF db
<1>4. ASSUME Owing(s), NEW c \in From(w, s), Reconcile(w, s, c),
             Move(w, rest, IF pass[w].saw[c[1]].state = "live" THEN todo ELSE {})
      PROVE  CInv'
  <2> DEFINE tip == <<c[1], pass[w].saw[c[1]].gen>>
  <2>1. pass' \in [Sweeps -> Passes] /\ Kept
    <3>1. (IF pass[w].saw[c[1]].state = "live" THEN todo ELSE {}) \in SUBSET Payments
      BY <1>2
    <3> HIDE DEF rest, todo
    <3> QED
      BY <1>t, <1>2, <1>4, <3>1, MoveKeeps
  <2>2. /\ row[s] = "settled"
        /\ outpoint' = [outpoint EXCEPT ![s] = tip]
        /\ \/ payout' = payout
           \/ pass[w].saw[c[1]].state = "swept" /\ payout' = [payout EXCEPT ![s] = tip]
        /\ c[2] <= pass[w].saw[c[1]].gen
    BY <1>4 DEF Owing, Reconcile
  <2>3. /\ tip \in Coins /\ tip \in Receipt(s)
        /\ pass[w].saw[c[1]].state = "swept" => state[tip[1]] = "swept" /\ gen[tip[1]] = tip[2]
    BY <1>2, <2>2, TipIsReceipts
  <2> HIDE DEF tip
  <2>4. TypeOK'
    BY <1>t, <1>u, <1>2, <2>1, <2>2, <2>3 DEF TypeOK, chain
  <2>5. ChainInv'
    BY <1>u DEF CInv, ChainInv, chain
  <2>6. SawInv'
    <3> SUFFICES ASSUME NEW v \in Sweeps, NEW p \in Payments PROVE Behind(pass[v].saw[p], p)'
      BY DEF SawInv
    <3>1. Behind(pass[v].saw[p], p)
      BY DEF CInv, SawInv
    <3>2. gen[p] \in Nat
      BY <1>t DEF TypeOK
    <3>3. Behind(Idle.saw[p], p)
      BY <3>2 DEF Behind, Idle
    <3> QED
      BY <1>u, <2>1, <3>1, <3>3 DEF Kept, Behind, chain
  <2>7. \A z \in Scripts : Receipt(z)' = Receipt(z)
    BY <1>u DEF Receipt, chain
  <2>8. OutpointIsReceipts'
    BY <1>t, <1>u, <1>2, <2>2, <2>3, <2>7 DEF CInv, OutpointIsReceipts, TypeOK
  <2>9. PaidOutIsReceipt'
    <3> SUFFICES ASSUME NEW z \in Scripts, payout'[z] # None
                 PROVE  /\ row'[z] = "settled" /\ payout'[z] \in Receipt(z)'
                        /\ state'[payout'[z][1]] = "swept" /\ gen'[payout'[z][1]] = payout'[z][2]
      BY DEF PaidOutIsReceipt
    <3>1. CASE payout'[z] = payout[z]
      BY <1>u, <2>7, <3>1 DEF CInv, PaidOutIsReceipt, chain
    <3>2. CASE payout'[z] # payout[z]
      <4>1. z = s /\ payout'[z] = tip /\ pass[w].saw[c[1]].state = "swept"
        BY <1>t, <1>2, <2>2, <3>2 DEF TypeOK
      <4> QED
        BY <1>u, <2>2, <2>3, <2>7, <4>1 DEF chain
    <3> QED
      BY <3>1, <3>2
  <2> QED
    BY <2>4, <2>5, <2>6, <2>8, <2>9 DEF CInv
<1> QED
  BY <1>1, <1>3, <1>4

-----------------------------------------------------------------------------
(* The steps of the world and of the watcher.                              *)

LEMMA WorldKeeps == \A p \in Payments : CInv /\ World(p) => CInv'
<1> SUFFICES ASSUME NEW p \in Payments, CInv, World(p) PROVE CInv'
  OBVIOUS
<1>t. TypeOK /\ ChainInv
  BY DEF CInv
<1>g. gen[p] \in Nat /\ MaxRenewals[p] \in Nat
  BY <1>t, CovenantAssumption DEF TypeOK
<1>u. UNCHANGED <<phase, db, pass, cursor>>
  BY DEF World, Pay, SweepLands, SweepLost, BatchCommits, IntentExpires, RecipientSpends, Expire
<1>1. TypeOK' /\ ChainInv' /\ Onward
  <2>1. CASE Pay(p)
    BY <1>t, <2>1 DEF Pay, TypeOK, ChainInv, Onward, States, db
  <2>2. CASE SweepLands(p) \/ RecipientSpends(p)
    <3>1. state[p] = "live" /\ \E to \in {"swept", "taken"} : Spend(p, to)
      BY <1>t, <2>2 DEF SweepLands, RecipientSpends, ChainInv
    <3> QED
      BY <1>t, <1>u, <3>1 DEF Spend, TypeOK, ChainInv, Onward, States, db
  <2>3. CASE SweepLost(p) \/ IntentExpires(p) \/ Expire(p)
    BY <1>t, <2>3 DEF SweepLost, IntentExpires, Expire, TypeOK, ChainInv, Onward, db
  <2>4. CASE BatchCommits(p)
    <3>1. state[p] = "live" /\ gen[p] < MaxRenewals[p]
      BY <1>t, <2>4 DEF BatchCommits, ChainInv
    <3>2. gen' = [gen EXCEPT ![p] = gen[p] + 1] /\ UNCHANGED <<state, phase, db, pass, cursor>>
      BY <2>4 DEF BatchCommits
    <3>3. gen' \in [Payments -> Nat] /\ Onward
      BY <1>t, <1>g, <3>1, <3>2 DEF TypeOK, Onward
    <3>4. TypeOK'
      BY <1>t, <2>4, <3>2, <3>3 DEF BatchCommits, TypeOK, Onward, db
    <3>5. ChainInv'
      BY <1>t, <2>4, <3>2 DEF BatchCommits, ChainInv
    <3> QED
      BY <3>3, <3>4, <3>5
  <2> QED
    BY <2>1, <2>2, <2>3, <2>4 DEF World
<1> QED
  BY <1>u, <1>1, ChainStepKeeps

LEMMA SettleKeeps == \A s \in Scripts : CInv /\ (Settle(s) \/ Lapse(s)) => CInv'
<1> SUFFICES ASSUME NEW s \in Scripts, CInv, Settle(s) \/ Lapse(s) PROVE CInv'
  OBVIOUS
<1>t. TypeOK
  BY DEF CInv
<1>u. UNCHANGED <<chain, outpoint, payout, pass, cursor>>
  BY DEF Settle, Lapse, db
<1>1. CASE Settle(s)
  <2>1. PICK p \in At(s) \cap Covers : \E g \in 0..gen[p] :
          reference' = [reference EXCEPT ![s] = Tx(<<p, g>>)]
    BY <1>1 DEF Settle
  <2>2. PICK g \in 0..gen[p] : reference' = [reference EXCEPT ![s] = Tx(<<p, g>>)]
    BY <2>1
  <2>3. p \in Payments /\ gen[p] \in Nat /\ gen[p] <= MaxRenewals[p] /\ MaxRenewals[p] \in Nat
    BY <1>t, CovenantAssumption DEF At, TypeOK
  <2>4. Tx(<<p, g>>) \in Txids \cup {c \in Coins : c[2] > 0} \cup {None}
    <3>1. g \in Nat /\ g <= MaxRenewals[p]
      BY <2>3
    <3>2. <<p, g>> \in Coins
      BY <2>3, <3>1, CoinOf
    <3> QED
      BY <2>3, <3>1, <3>2, CovenantAssumption DEF Tx
  <2>5. /\ row[s] = "pending" /\ row' = [row EXCEPT ![s] = "settled"] /\ phase' = phase
    BY <1>1 DEF Settle
  <2>6. TypeOK'
    <3>1. row' \in [Scripts -> {"pending", "settled"}]
      BY <1>t, <2>5 DEF TypeOK
    <3>2. reference' \in [Scripts -> Txids \cup {c \in Coins : c[2] > 0} \cup {None}]
      BY <1>t, <2>2, <2>4 DEF TypeOK
    <3> QED
      BY <1>t, <1>u, <2>5, <3>1, <3>2 DEF TypeOK, chain
  <2>7. outpoint[s] = None /\ payout[s] = None
    BY <2>5 DEF CInv, OutpointIsReceipts, PaidOutIsReceipt
  <2>8. \A z \in Scripts \ {s} : Receipt(z)' = Receipt(z) /\ row'[z] = row[z]
    <3>1. \A z \in Scripts \ {s} : reference'[z] = reference[z] /\ row'[z] = row[z]
      BY <1>t, <2>2, <2>5 DEF TypeOK
    <3> QED
      BY <1>u, <3>1 DEF Receipt, chain
  <2>9. OutpointIsReceipts' /\ PaidOutIsReceipt'
    BY <1>u, <2>7, <2>8 DEF CInv, OutpointIsReceipts, PaidOutIsReceipt, chain
  <2>10. ChainInv' /\ SawInv'
    BY <1>u DEF CInv, ChainInv, SawInv, Behind, chain
  <2> QED
    BY <2>6, <2>9, <2>10 DEF CInv
<1>2. CASE Lapse(s)
  <2>1. phase' \in [Scripts -> {"open", "lapsed", "gone"}] /\ UNCHANGED db
    BY <1>t, <1>2 DEF Lapse, TypeOK
  <2>2. TypeOK'
    BY <1>t, <1>u, <2>1 DEF TypeOK, chain, db
  <2>3. ChainInv' /\ SawInv'
    BY <1>u DEF CInv, ChainInv, SawInv, Behind, chain
  <2>4. \A z \in Scripts : Receipt(z)' = Receipt(z)
    BY <1>u, <2>1 DEF Receipt, chain, db
  <2>5. OutpointIsReceipts' /\ PaidOutIsReceipt'
    BY <1>u, <2>1, <2>4 DEF CInv, OutpointIsReceipts, PaidOutIsReceipt, chain, db
  <2> QED
    BY <2>2, <2>3, <2>5 DEF CInv
<1> QED
  BY <1>1, <1>2

-----------------------------------------------------------------------------

LEMMA CInvInit == Init => CInv
<1> SUFFICES ASSUME Init PROVE CInv
  OBVIOUS
<1> USE CovenantAssumption DEF Init
<1>1. TypeOK
  <2>1. pass \in [Sweeps -> Passes]
    BY IdleTyped
  <2> QED
    BY <2>1 DEF TypeOK, States
<1>2. ChainInv
  BY DEF ChainInv
<1>3. SawInv
  BY DEF SawInv, Behind, Idle
<1>4. OutpointIsReceipts /\ PaidOutIsReceipt
  BY DEF OutpointIsReceipts, PaidOutIsReceipt
<1> QED
  BY <1>1, <1>2, <1>3, <1>4 DEF CInv

LEMMA CInvStep == CInv /\ [Next]_vars => CInv'
<1> SUFFICES ASSUME CInv, [Next]_vars PROVE CInv'
  OBVIOUS
<1>1. CASE MainStep
  BY <1>1, StartsKeep, ResolveKeeps, AsideKeeps, AskedKeeps, ScriptKeeps DEF MainStep, PassStep, Sweeps
<1>2. CASE LateStep
  BY <1>2, StartsKeep, ResolveKeeps, AsideKeeps, AskedKeeps, ScriptKeeps DEF LateStep, PassStep, Sweeps
<1>3. CASE \E s \in Scripts : Settle(s) \/ Lapse(s)
  BY <1>3, SettleKeeps
<1>4. CASE \E p \in Payments : World(p)
  BY <1>4, WorldKeeps
<1>5. CASE UNCHANGED vars
  <2>1. TypeOK'
    BY <1>5 DEF CInv, TypeOK, vars, chain, db
  <2>2. ChainInv' /\ SawInv'
    BY <1>5 DEF CInv, ChainInv, SawInv, Behind, vars, chain, db
  <2>3. \A z \in Scripts : Receipt(z)' = Receipt(z)
    BY <1>5 DEF Receipt, vars, chain, db
  <2>4. OutpointIsReceipts' /\ PaidOutIsReceipt'
    BY <1>5, <2>3 DEF CInv, OutpointIsReceipts, PaidOutIsReceipt, vars, chain, db
  <2> QED
    BY <2>1, <2>2, <2>4 DEF CInv
<1> QED
  BY <1>1, <1>2, <1>3, <1>4, <1>5 DEF Next

LEMMA CovenantInductive == Spec => []CInv
BY CInvInit, CInvStep, PTL DEF Spec

(* The state stays well formed: a record's reference is a transaction, not *)
(* one of its outputs, and no output outlives its renewals.                *)
THEOREM CovenantTypeCorrect == Spec => []TypeOK
<1>1. CInv => TypeOK
  BY DEF CInv
<1> QED
  BY <1>1, CovenantInductive, PTL

(* A record is closed only by the sweep of its own receipt, however many   *)
(* renewals, stray outputs and stale views lie between.                    *)
THEOREM ClosedOnItsReceipt == Spec => []PaidOutIsReceipt
<1>1. CInv => PaidOutIsReceipt
  BY DEF CInv
<1> QED
  BY <1>1, CovenantInductive, PTL
=============================================================================
