--------------------------- MODULE AddressesProofs ---------------------------
(***************************************************************************)
(* Theorems about Addresses, for any names, wallets, codes, rails, modes    *)
(* and cap. Three invariants are carried together: what the rows look like  *)
(* (Shape), that a handle has only ever led to the wallet of its row        *)
(* (Heirs), and that a code that can still buy something has bought nothing *)
(* and is wanted in one place only (Ledger).                                *)
(***************************************************************************)
EXTENDS Addresses, FiniteSetTheorems, TLAPS

Shape ==
  /\ \A h \in Handles : row[h].status = "none" => row[h] = Free
  /\ \A h \in Handles : row[h].status = "reserved" =>
       row[h].wallet = Nobody /\ ~row[h].flagged /\ row[h].code \in Codes
  /\ \A w \in Wallets : row[w].status # "none" =>
       row[w].wallet = w /\ row[w].status # "reserved"
  /\ \A h \in Handles : row[h].flagged => row[h].wallet \in Wallets

Heirs ==
  /\ \A n \in Names : \A v \in ever[n] : row[n].wallet = v
  /\ \A w \in Wallets : ever[w] \subseteq {w}

(* What a code that is live, as a free code or a reservation's, has not.    *)
Unused(c) == c \in issued /\ c \notin void /\ granted[c] = {}

Ledger ==
  /\ \A c \in Codes : free[c] = "live" => Unused(c)
  /\ \A h \in Handles : row[h].status = "reserved" =>
       Unused(row[h].code) /\ free[row[h].code] # "live"
  /\ \A g, h \in Handles :
       row[g].status = "reserved" /\ row[h].status = "reserved" /\ row[g].code = row[h].code =>
         g = h
  /\ void \subseteq issued
  /\ \A c \in Codes : granted[c] # {} => c \in issued

AInv == TypeOK /\ Shape /\ Heirs /\ Ledger

-----------------------------------------------------------------------------
(* Records.                                                                 *)

LEMMA FreeIsRow ==
  /\ Free \in Row /\ Free.status = "none" /\ Free.wallet = Nobody /\ ~Free.flagged
  /\ Free.code = NoCode /\ Free.off = {}
BY DEF Free, Row

LEMMA ActiveRowIsRow ==
  ASSUME NEW w \in Wallets, NEW flag \in BOOLEAN
  PROVE  /\ ActiveRow(w, flag) \in Row /\ ActiveRow(w, flag).status = "active"
         /\ ActiveRow(w, flag).wallet = w /\ ActiveRow(w, flag).flagged = flag
BY DEF ActiveRow, Free, Row

LEMMA BoundIsRow ==
  ASSUME NEW r \in Row, NEW w \in Wallets
  PROVE  /\ Bound(r, w) \in Row /\ Bound(r, w).status = "active" /\ Bound(r, w).wallet = w
         /\ Bound(r, w).flagged = r.flagged /\ Bound(r, w).off = r.off
BY DEF Bound, Row

LEMMA StatusIsRow ==
  ASSUME NEW r \in Row, NEW s \in {"active", "revoked"}
  PROVE  LET q == [r EXCEPT !.status = s]
         IN  /\ q \in Row /\ q.status = s /\ q.wallet = r.wallet /\ q.flagged = r.flagged
             /\ q.code = r.code /\ q.off = r.off
BY DEF Row

LEMMA OffIsRow ==
  ASSUME NEW r \in Row, NEW off \in SUBSET Rails
  PROVE  LET q == [r EXCEPT !.off = off]
         IN  /\ q \in Row /\ q.status = r.status /\ q.wallet = r.wallet /\ q.flagged = r.flagged
             /\ q.code = r.code /\ q.off = off
BY DEF Row

LEMMA ReservedIsRow ==
  ASSUME NEW r \in Row, NEW c \in Codes
  PROVE  LET q == [r EXCEPT !.code = c]
             f == [Free EXCEPT !.status = "reserved", !.code = c]
         IN  /\ q \in Row /\ q.status = r.status /\ q.wallet = r.wallet /\ q.flagged = r.flagged
             /\ q.code = c /\ q.off = r.off
             /\ f \in Row /\ f.status = "reserved" /\ f.wallet = Nobody /\ ~f.flagged
             /\ f.code = c /\ f.off = {}
BY DEF Row, Free

-----------------------------------------------------------------------------
(* One row changes.                                                         *)

(* What a row may be at h for the table to keep its shape.                  *)
Fits(h, r) ==
  /\ r \in Row
  /\ r.status = "none" => r = Free
  /\ r.status = "reserved" => r.wallet = Nobody /\ ~r.flagged /\ r.code \in Codes
  /\ h \in Wallets /\ r.status # "none" => r.wallet = h /\ r.status # "reserved"
  /\ r.flagged => r.wallet \in Wallets
  /\ r.flagged /\ r.status = "active" => SessionLnurl(r.wallet) \subseteq {h}

RowsOK ==
  /\ row \in [Handles -> Row]
  /\ \A w \in Wallets : \A x, y \in SessionLnurl(w) : x = y

LEMMA OneRow ==
  ASSUME RowsOK, Shape, NEW h \in Handles, NEW r, Fits(h, r), row' = [row EXCEPT ![h] = r]
  PROVE  RowsOK' /\ Shape'
<1>1. row' \in [Handles -> Row] /\ row'[h] = r /\ \A x \in Handles \ {h} : row'[x] = row[x]
  BY DEF RowsOK, Fits
<1>2. Shape'
  BY <1>1 DEF Shape, Fits, Handles
<1>3. \A w \in Wallets : \A x, y \in SessionLnurl(w)' : x = y
  <2> SUFFICES ASSUME NEW w \in Wallets, NEW x \in SessionLnurl(w)', NEW y \in SessionLnurl(w)'
               PROVE  x = y
    OBVIOUS
  <2>1. /\ x \in Handles /\ row'[x].flagged /\ row'[x].wallet = w /\ row'[x].status = "active"
        /\ y \in Handles /\ row'[y].flagged /\ row'[y].wallet = w /\ row'[y].status = "active"
    BY DEF SessionLnurl
  <2>2. \A z \in Handles \ {h} :
          row'[z].flagged /\ row'[z].wallet = w /\ row'[z].status = "active" => z \in SessionLnurl(w)
    BY <1>1 DEF SessionLnurl
  <2>3. r.flagged /\ r.wallet = w /\ r.status = "active" => SessionLnurl(w) \subseteq {h}
    BY DEF Fits
  <2> QED
    BY <1>1, <2>1, <2>2, <2>3 DEF RowsOK
<1> QED
  BY <1>1, <1>2, <1>3 DEF RowsOK

(* A handle leads nowhere new if the names keep the wallets of their rows.  *)
LEMMA HeirsKept ==
  ASSUME TypeOK, Heirs, RowsOK', Shape', Remembers,
         \A n \in Names : row[n].wallet \in Wallets => row'[n].wallet = row[n].wallet
  PROVE  Heirs' /\ ever' \in [Handles -> SUBSET Wallets]
<1>1. \A h \in Handles : ever'[h] = ever[h] \cup LeadsTo(row', h)
  BY DEF Remembers
<1>2. \A h \in Handles : LeadsTo(row', h) \subseteq Wallets
  BY DEF LeadsTo
<1>3. ever' \in [Handles -> SUBSET Wallets]
  BY <1>2 DEF Remembers, TypeOK
<1>4. ASSUME NEW n \in Names, NEW v \in ever'[n] PROVE row'[n].wallet = v
  <2>0. n \in Handles /\ n \notin Wallets
    BY AddressAssumption DEF Handles
  <2>1. CASE v \in ever[n]
    <3>1. row[n].wallet = v /\ v \in Wallets
      BY <2>0, <2>1 DEF Heirs, TypeOK
    <3> QED
      BY <3>1
  <2>2. CASE v \in LeadsTo(row', n)
    BY <2>0, <2>2 DEF LeadsTo
  <2> QED
    BY <1>1, <2>0, <2>1, <2>2
<1>5. ASSUME NEW w \in Wallets, NEW v \in ever'[w] PROVE v = w
  <2>0. w \in Handles
    BY DEF Handles
  <2>1. CASE v \in ever[w]
    BY <2>1 DEF Heirs
  <2>2. CASE v \in LeadsTo(row', w)
    <3>1. v = w \/ (row'[w].wallet = v /\ row'[w].status = "active")
      BY <2>2 DEF LeadsTo
    <3> QED
      BY <3>1 DEF Shape
  <2> QED
    BY <1>1, <2>0, <2>1, <2>2
<1> QED
  BY <1>3, <1>4, <1>5 DEF Heirs

(* Everything but the ledger, of a step that changes one row.               *)
LEMMA OneRowStep ==
  ASSUME TypeOK, Shape, Heirs, NEW h \in Handles, NEW r, Fits(h, r),
         row' = [row EXCEPT ![h] = r], Remembers,
         row[h].wallet \in Wallets => r.wallet = row[h].wallet
  PROVE  RowsOK' /\ Shape' /\ Heirs' /\ ever' \in [Handles -> SUBSET Wallets]
<1>1. RowsOK
  BY DEF TypeOK, RowsOK
<1>2. RowsOK' /\ Shape'
  BY <1>1, OneRow
<1>3. \A n \in Names : row[n].wallet \in Wallets => row'[n].wallet = row[n].wallet
  BY <1>1 DEF RowsOK, Handles
<1> QED
  BY <1>2, <1>3, HeirsKept

(* The same of a step that leaves the history of the handles alone.         *)
LEMMA QuietRowStep ==
  ASSUME TypeOK, Shape, Heirs, NEW h \in Handles, NEW r, Fits(h, r),
         row' = [row EXCEPT ![h] = r], ever' = ever, r.wallet = row[h].wallet
  PROVE  RowsOK' /\ Shape' /\ Heirs' /\ ever' \in [Handles -> SUBSET Wallets]
<1>1. RowsOK
  BY DEF TypeOK, RowsOK
<1>2. RowsOK' /\ Shape'
  BY <1>1, OneRow
<1>3. \A n \in Names : row'[n].wallet = row[n].wallet
  BY <1>1 DEF RowsOK, Handles
<1> QED
  BY <1>2, <1>3 DEF Heirs, TypeOK

-----------------------------------------------------------------------------
(* What every wallet's and operator's step does to the rows.                *)

RowsKept == RowsOK' /\ Shape' /\ Heirs' /\ ever' \in [Handles -> SUBSET Wallets]

LEMMA TakeRows ==
  ASSUME AInv, NEW w \in Wallets, NEW h \in Handles, NEW c \in Codes \cup {NoCode}, Take(w, h, c)
  PROVE  RowsKept
<1> DEFINE r == ActiveRow(w, FALSE)
<1>1. Fits(h, r)
  BY ActiveRowIsRow, AddressAssumption DEF Fits, Take, ValidName
<1>2. row[h].wallet \notin Wallets
  BY FreeIsRow, AddressAssumption DEF AInv, Shape, Take
<1>3. row' = [row EXCEPT ![h] = r] /\ Remembers
  BY DEF Take
<1> HIDE DEF r
<1> QED
  BY <1>1, <1>2, <1>3, OneRowStep DEF AInv, RowsKept

LEMMA ClaimRows ==
  ASSUME AInv, NEW w \in Wallets, NEW h \in Handles, NEW c \in Codes, Claim(w, h, c)
  PROVE  RowsKept
<1> DEFINE r == Bound(row[h], w)
<1>0. row[h] \in Row /\ row[h].status = "reserved"
  BY DEF AInv, TypeOK, Claim, Holds
<1>1. h \notin Wallets /\ row[h].wallet = Nobody /\ ~row[h].flagged
  BY <1>0 DEF AInv, Shape
<1>2. Fits(h, r)
  BY <1>0, <1>1, BoundIsRow DEF Fits
<1>3. row' = [row EXCEPT ![h] = r] /\ Remembers
  BY DEF Claim
<1> HIDE DEF r
<1> QED
  BY <1>1, <1>2, <1>3, OneRowStep, AddressAssumption DEF AInv, RowsKept

LEMMA TakeRandomRows ==
  ASSUME AInv, NEW w \in Wallets, TakeRandom(w)
  PROVE  RowsKept
<1> DEFINE r == ActiveRow(w, FALSE)
<1>0. PICK n \in Names : row[n].status = "none" /\ row' = [row EXCEPT ![n] = r]
  BY DEF TakeRandom
<1>1. n \in Handles /\ n \notin Wallets
  BY AddressAssumption DEF Handles
<1>2. Fits(n, r)
  BY <1>1, ActiveRowIsRow DEF Fits
<1>3. row[n].wallet \notin Wallets
  BY <1>0, <1>1, FreeIsRow, AddressAssumption DEF AInv, Shape
<1>4. Remembers
  BY DEF TakeRandom
<1> HIDE DEF r
<1> QED
  BY <1>0, <1>1, <1>2, <1>3, <1>4, OneRowStep DEF AInv, RowsKept

LEMMA RegisterNamelessRows ==
  ASSUME AInv, NEW w \in Wallets, RegisterNameless(w)
  PROVE  RowsKept
<1>0. w \in Handles /\ SessionLnurl(w) = {} /\ Remembers
  BY DEF RegisterNameless, Handles
<1>1. CASE row[w].status = "revoked" /\ row' = [row EXCEPT ![w].status = "active"]
  <2> DEFINE r == [row[w] EXCEPT !.status = "active"]
  <2>1. row[w] \in Row /\ row[w].wallet = w
    BY <1>0, <1>1 DEF AInv, TypeOK, Shape
  <2>2. r \in Row /\ r.status = "active" /\ r.wallet = w
    BY <2>1, StatusIsRow
  <2>3. Fits(w, r)
    BY <1>0, <2>2 DEF Fits
  <2>4. row' = [row EXCEPT ![w] = r]
    BY <1>1
  <2> HIDE DEF r
  <2> QED
    BY <1>0, <2>1, <2>2, <2>3, <2>4, OneRowStep DEF AInv, RowsKept
<1>2. CASE row[w].status = "none" /\ row' = [row EXCEPT ![w] = ActiveRow(w, TRUE)]
  <2> DEFINE r == ActiveRow(w, TRUE)
  <2>1. r.wallet = w /\ Fits(w, r)
    BY <1>0, ActiveRowIsRow DEF Fits
  <2>2. row[w].wallet \notin Wallets
    BY <1>0, <1>2, FreeIsRow, AddressAssumption DEF AInv, Shape
  <2>3. row' = [row EXCEPT ![w] = r]
    BY <1>2
  <2> HIDE DEF r
  <2> QED
    BY <1>0, <2>1, <2>2, <2>3, OneRowStep DEF AInv, RowsKept
<1> QED
  BY <1>1, <1>2 DEF RegisterNameless

(* The row a nameless receiver is given under its name, and where.          *)
LEMMA UpgradedRow ==
  ASSUME AInv, NEW w \in Wallets, NEW n \in Handles, NEW c \in Codes \cup {NoCode},
         Upgrade(w, n, c)
  PROVE  \E r \in Row :
           /\ r.status = "active" /\ r.wallet = w /\ r.flagged
           /\ row[w].off \cup row[n].off \subseteq r.off
           /\ row' = [row EXCEPT ![n] = r, ![w] = Free]
           /\ w \in Handles /\ n \in Names /\ n \notin Wallets
           /\ w \in SessionLnurl(w) /\ row[n].wallet = Nobody
<1>1. w \in Handles /\ row[w] \in Row /\ row[n] \in Row
  BY DEF Handles, AInv, TypeOK
<1>2. row[w].status = "active" /\ row[w].flagged /\ row[w].wallet = w /\ w \in SessionLnurl(w)
  BY <1>1 DEF Upgrade, IsNameless, SessionLnurl
<1>3. CASE Holds(n, c) /\ Absorb(w, n)
  <2> DEFINE r == [row[w] EXCEPT !.off = @ \cup row[n].off]
  <2>1. row[w].off \cup row[n].off \in SUBSET Rails
    BY <1>1 DEF Row
  <2>2. /\ r \in Row /\ r.status = "active" /\ r.wallet = w /\ r.flagged
        /\ r.off = row[w].off \cup row[n].off
    BY <1>1, <1>2, <2>1, OffIsRow
  <2>3. row[n].wallet = Nobody /\ n \notin Wallets
    BY <1>3 DEF Holds, AInv, Shape
  <2>4. row' = [row EXCEPT ![n] = r, ![w] = Free]
    BY <1>3 DEF Absorb
  <2> HIDE DEF r
  <2> QED
    BY <1>1, <1>2, <2>2, <2>3, <2>4 DEF Handles
<1>4. CASE row[n].status = "none" /\ ValidName(n) /\ row' = [row EXCEPT ![n] = row[w], ![w] = Free]
  <2>1. row[n].wallet = Nobody /\ row[n].off = {}
    BY <1>4, FreeIsRow DEF AInv, Shape
  <2>2. n \in Names /\ n \notin Wallets
    BY <1>4, AddressAssumption DEF ValidName
  <2> QED
    BY <1>1, <1>2, <1>4, <2>1, <2>2
<1> QED
  BY <1>3, <1>4 DEF Upgrade

LEMMA UpgradeRows ==
  ASSUME AInv, NEW w \in Wallets, NEW n \in Handles, NEW c \in Codes \cup {NoCode},
         Upgrade(w, n, c)
  PROVE  RowsKept
<1>0. PICK r \in Row :
           /\ r.status = "active" /\ r.wallet = w /\ r.flagged
           /\ row' = [row EXCEPT ![n] = r, ![w] = Free]
           /\ w \in Handles /\ n \in Names /\ n \notin Wallets
           /\ w \in SessionLnurl(w) /\ row[n].wallet = Nobody
  BY UpgradedRow
<1>1. RowsOK /\ Shape
  BY DEF AInv, TypeOK, RowsOK
<1>2. /\ row' \in [Handles -> Row] /\ row'[n] = r /\ row'[w] = Free
      /\ \A x \in Handles : x # n /\ x # w => row'[x] = row[x]
  BY <1>0, <1>1, FreeIsRow DEF RowsOK
<1>3. Shape'
  <2>1. \A h \in Handles : row'[h].status = "none" => row'[h] = Free
    BY <1>0, <1>1, <1>2 DEF Shape
  <2>2. \A h \in Handles : row'[h].status = "reserved" =>
           row'[h].wallet = Nobody /\ ~row'[h].flagged /\ row'[h].code \in Codes
    BY <1>0, <1>1, <1>2, FreeIsRow DEF Shape
  <2>3. \A v \in Wallets : row'[v].status # "none" =>
           row'[v].wallet = v /\ row'[v].status # "reserved"
    BY <1>0, <1>1, <1>2, FreeIsRow DEF Shape, Handles
  <2>4. \A h \in Handles : row'[h].flagged => row'[h].wallet \in Wallets
    BY <1>0, <1>1, <1>2, FreeIsRow DEF Shape
  <2> QED
    BY <2>1, <2>2, <2>3, <2>4 DEF Shape
<1>4. \A v \in Wallets : \A x, y \in SessionLnurl(v)' : x = y
  <2> SUFFICES ASSUME NEW v \in Wallets, NEW x \in SessionLnurl(v)', NEW y \in SessionLnurl(v)'
               PROVE  x = y
    OBVIOUS
  <2>1. \A z \in SessionLnurl(v)' :
          /\ z \in Handles /\ row'[z].flagged /\ row'[z].wallet = v /\ row'[z].status = "active"
          /\ z # w
    BY <1>2, FreeIsRow DEF SessionLnurl
  <2>2. \A z \in SessionLnurl(v)' : z # n => z \in SessionLnurl(v) /\ z # w
    BY <1>2, <2>1 DEF SessionLnurl
  <2>3. v = w => \A z \in SessionLnurl(v)' : z = n
    BY <1>0, <1>1, <2>2 DEF RowsOK
  <2>4. v # w => \A z \in SessionLnurl(v)' : z # n
    BY <1>0, <1>2, <2>1
  <2> QED
    BY <1>1, <2>2, <2>3, <2>4 DEF RowsOK
<1>5. RowsOK'
  BY <1>2, <1>4 DEF RowsOK
<1>6. \A m \in Names : row[m].wallet \in Wallets => row'[m].wallet = row[m].wallet
  BY <1>0, <1>2, AddressAssumption DEF Handles
<1>7. Remembers
  BY DEF Upgrade
<1> QED
  BY <1>3, <1>5, <1>6, <1>7, HeirsKept DEF AInv, RowsKept

LEMMA OwnedIsTheirs ==
  ASSUME NEW w \in Wallets, NEW h \in Handles, NEW x \in Owned(w, h)
  PROVE  x \in Handles /\ row[x].wallet = w
BY DEF Owned, SessionLnurl

LEMMA RevokeOwnRows ==
  ASSUME AInv, NEW w \in Wallets, NEW h \in Handles, RevokeOwn(w, h)
  PROVE  RowsKept
<1>0. PICK x \in Owned(w, h) : row' = [row EXCEPT ![x].status = "revoked"]
  BY DEF RevokeOwn
<1> DEFINE r == [row[x] EXCEPT !.status = "revoked"]
<1>1. x \in Handles /\ row[x] \in Row
  BY OwnedIsTheirs DEF AInv, TypeOK
<1>2. r \in Row /\ r.status = "revoked" /\ r.wallet = row[x].wallet /\ r.flagged = row[x].flagged
  BY <1>1, StatusIsRow
<1>3. x \in Wallets => row[x].wallet = x
  BY <1>1, OwnedIsTheirs, FreeIsRow, AddressAssumption DEF AInv, Shape
<1>4. Fits(x, r)
  BY <1>1, <1>2, <1>3 DEF Fits, AInv, Shape
<1>5. row' = [row EXCEPT ![x] = r] /\ Remembers
  BY <1>0 DEF RevokeOwn
<1> HIDE DEF r
<1> QED
  BY <1>1, <1>2, <1>4, <1>5, OneRowStep DEF AInv, RowsKept

LEMMA ReserveRows ==
  ASSUME AInv, NEW h \in Handles, NEW c \in Codes, Reserve(h, c)
  PROVE  RowsKept
<1> DEFINE r == [Free EXCEPT !.status = "reserved", !.code = c]
<1>0. h \in Names /\ h \notin Wallets /\ row[h] = Free
  BY AddressAssumption DEF Reserve, ValidName, AInv, Shape
<1>1. r \in Row /\ r.status = "reserved" /\ r.wallet = Nobody /\ ~r.flagged /\ r.code = c
  BY FreeIsRow, ReservedIsRow
<1>2. Fits(h, r)
  BY <1>0, <1>1 DEF Fits
<1>3. row' = [row EXCEPT ![h] = r] /\ Remembers
  BY DEF Reserve
<1> HIDE DEF r
<1> QED
  BY <1>0, <1>2, <1>3, OneRowStep, FreeIsRow, AddressAssumption DEF AInv, RowsKept

LEMMA MintRows ==
  ASSUME AInv, NEW h \in Handles, NEW w \in Wallets, Mint(h, w)
  PROVE  RowsKept
<1> DEFINE r == ActiveRow(w, FALSE)
<1>1. Fits(h, r)
  BY ActiveRowIsRow, AddressAssumption DEF Fits, Mint, ValidName
<1>2. row[h].wallet \notin Wallets
  BY FreeIsRow, AddressAssumption DEF AInv, Shape, Mint
<1>3. row' = [row EXCEPT ![h] = r] /\ Remembers
  BY DEF Mint
<1> HIDE DEF r
<1> QED
  BY <1>1, <1>2, <1>3, OneRowStep DEF AInv, RowsKept

LEMMA SetStatusRows ==
  ASSUME AInv, NEW h \in Handles, NEW s \in {"active", "revoked"}, SetStatus(h, s)
  PROVE  RowsKept
<1> DEFINE r == [row[h] EXCEPT !.status = s]
<1>1. row[h] \in Row /\ row[h].status # "none"
  BY DEF AInv, TypeOK, SetStatus
<1>2. r \in Row /\ r.status = s /\ r.wallet = row[h].wallet /\ r.flagged = row[h].flagged
  BY <1>1, StatusIsRow
<1>3. r.flagged /\ r.status = "active" => SessionLnurl(r.wallet) \subseteq {h}
  BY <1>2 DEF SetStatus
<1>4. Fits(h, r)
  BY <1>1, <1>2, <1>3 DEF Fits, AInv, Shape
<1>5. row' = [row EXCEPT ![h] = r] /\ Remembers
  BY DEF SetStatus
<1> HIDE DEF r
<1> QED
  BY <1>2, <1>4, <1>5, OneRowStep DEF AInv, RowsKept

LEMMA SetRailsRows ==
  ASSUME AInv, NEW h \in Handles, NEW off \in SUBSET Rails, SetRails(h, off)
  PROVE  RowsKept
<1> DEFINE r == [row[h] EXCEPT !.off = off]
<1>1. row[h] \in Row /\ row[h].status # "none"
  BY DEF AInv, TypeOK, SetRails
<1>2. /\ r \in Row /\ r.status = row[h].status /\ r.wallet = row[h].wallet
      /\ r.flagged = row[h].flagged /\ r.code = row[h].code
  BY <1>1, OffIsRow
<1>3. row[h].flagged /\ row[h].status = "active" => SessionLnurl(row[h].wallet) \subseteq {h}
  <2>1. SUFFICES ASSUME row[h].flagged, row[h].status = "active"
                 PROVE  SessionLnurl(row[h].wallet) \subseteq {h}
    OBVIOUS
  <2>2. row[h].wallet \in Wallets /\ h \in SessionLnurl(row[h].wallet)
    BY <2>1 DEF AInv, Shape, SessionLnurl
  <2> QED
    BY <2>2 DEF AInv, TypeOK
<1>4. Fits(h, r)
  BY <1>1, <1>2, <1>3 DEF Fits, AInv, Shape
<1>5. row' = [row EXCEPT ![h] = r] /\ ever' = ever
  BY DEF SetRails, history
<1> HIDE DEF r
<1> QED
  BY <1>2, <1>4, <1>5, QuietRowStep DEF AInv, RowsKept

LEMMA DeleteRows ==
  ASSUME AInv, NEW h \in Handles, Delete(h)
  PROVE  RowsKept
<1>1. RowsOK /\ Shape /\ Heirs /\ TypeOK
  BY DEF AInv, TypeOK, RowsOK
<1>2. Fits(h, Free)
  BY FreeIsRow DEF Fits
<1>3. row' = [row EXCEPT ![h] = Free] /\ ever' = [ever EXCEPT ![h] = {}]
  BY DEF Delete
<1>4. RowsOK' /\ Shape'
  BY <1>1, <1>2, <1>3, OneRow
<1>5. ever' \in [Handles -> SUBSET Wallets] /\ ever'[h] = {}
      /\ \A x \in Handles : x # h => ever'[x] = ever[x] /\ row'[x] = row[x]
  BY <1>1, <1>3 DEF TypeOK
<1>6. Heirs'
  BY <1>1, <1>5 DEF Heirs, Handles
<1> QED
  BY <1>4, <1>5, <1>6 DEF RowsKept

LEMMA ReissueReservationRows ==
  ASSUME AInv, NEW h \in Handles, NEW c \in Codes, ReissueReservation(h, c)
  PROVE  RowsKept
<1> DEFINE r == [row[h] EXCEPT !.code = c]
<1>1. row[h] \in Row /\ row[h].status = "reserved" /\ row[h].wallet = Nobody /\ ~row[h].flagged
      /\ h \notin Wallets
  BY DEF AInv, TypeOK, ReissueReservation, Shape
<1>2. /\ r \in Row /\ r.status = row[h].status /\ r.wallet = row[h].wallet
      /\ r.flagged = row[h].flagged /\ r.code = c
  BY <1>1, ReservedIsRow
<1>3. Fits(h, r)
  BY <1>1, <1>2 DEF Fits
<1>4. row' = [row EXCEPT ![h] = r] /\ ever' = ever
  BY DEF ReissueReservation, history
<1> HIDE DEF r
<1> QED
  BY <1>2, <1>3, <1>4, QuietRowStep DEF AInv, RowsKept

LEMMA StillRows ==
  ASSUME AInv, row' = row, ever' = ever
  PROVE  RowsKept
<1>1. \A w \in Wallets : SessionLnurl(w)' = SessionLnurl(w)
  BY DEF SessionLnurl
<1>2. RowsOK'
  BY <1>1 DEF AInv, TypeOK, RowsOK
<1>3. Shape' /\ Heirs'
  BY DEF AInv, Shape, Heirs
<1> QED
  BY <1>2, <1>3 DEF AInv, TypeOK, RowsKept

-----------------------------------------------------------------------------
(* What every step does to the ledger.                                      *)

CodesOK ==
  /\ free \in [Codes -> {"none", "live", "spent"}]
  /\ modes \in ModeSets
  /\ issued \subseteq Codes /\ void \subseteq Codes
  /\ granted \in [Codes -> SUBSET Handles]

LedgerKept == CodesOK' /\ Ledger'

(* The reservations after a step are among those before it.                 *)
NoNewReservation ==
  \A h \in Handles : row'[h].status = "reserved" =>
    row[h].status = "reserved" /\ row'[h].code = row[h].code

LEMMA TypeIsTyped ==
  ASSUME AInv PROVE CodesOK
BY DEF AInv, TypeOK, CodesOK

(* Nothing is bought, and codes are only voided with their reservations.    *)
LEMMA NothingBought ==
  ASSUME AInv, NoNewReservation, UNCHANGED <<free, issued, granted>>, modes' \in ModeSets,
         \/ void' = void
         \/ \E h \in Handles :
              /\ row[h].status = "reserved" /\ void' = void \cup {row[h].code}
              /\ row'[h].status # "reserved"
  PROVE  LedgerKept
<1>1. CodesOK
  BY TypeIsTyped
<1>2. Shape /\ Ledger
  BY DEF AInv
<1>3. CASE void' = void
  BY <1>1, <1>2, <1>3 DEF NoNewReservation, Ledger, Unused, LedgerKept, CodesOK
<1>4. ASSUME NEW h \in Handles, row[h].status = "reserved", void' = void \cup {row[h].code},
             row'[h].status # "reserved"
      PROVE  LedgerKept
  <2>1. row[h].code \in issued /\ row[h].code \in Codes /\ free[row[h].code] # "live"
    BY <1>2, <1>4 DEF Ledger, Unused, Shape
  <2>2. CodesOK'
    BY <1>1, <1>4, <2>1 DEF CodesOK
  <2>3. \A c \in Codes : (free[c] = "live" => Unused(c))'
    BY <1>2, <1>4, <2>1 DEF Ledger, Unused
  <2>4. \A g \in Handles : row'[g].status = "reserved" => row[g].code # row[h].code
    BY <1>2, <1>4 DEF NoNewReservation, Ledger
  <2>5. \A g \in Handles : row'[g].status = "reserved" =>
           Unused(row[g].code)' /\ free'[row[g].code] # "live"
    BY <1>2, <1>4, <2>4 DEF NoNewReservation, Ledger, Unused
  <2>6. \A g, x \in Handles :
          row'[g].status = "reserved" /\ row'[x].status = "reserved" /\ row'[g].code = row'[x].code =>
            g = x
    BY <1>2 DEF NoNewReservation, Ledger
  <2>7. void' \subseteq issued' /\ \A c \in Codes : granted'[c] # {} => c \in issued'
    BY <1>2, <1>4, <2>1 DEF Ledger
  <2> QED
    BY <2>2, <2>3, <2>5, <2>6, <2>7 DEF NoNewReservation, Ledger, LedgerKept
<1> QED
  BY <1>3, <1>4

(* A code buys a handle, and is wanted nowhere afterwards.                  *)
LEMMA CodeBuys ==
  ASSUME AInv, NoNewReservation, UNCHANGED <<issued, void, modes>>,
         NEW c \in Codes, NEW h \in Handles, granted' = [granted EXCEPT ![c] = @ \cup {h}],
         Unused(c),
         free' \in [Codes -> {"none", "live", "spent"}], free'[c] # "live",
         \A d \in Codes : free'[d] = "live" => free[d] = "live",
         \A g \in Handles : row'[g].status = "reserved" => row'[g].code # c
  PROVE  LedgerKept
<1>1. CodesOK
  BY TypeIsTyped
<1>2. Shape /\ Ledger
  BY DEF AInv
<1>3. CodesOK'
  BY <1>1 DEF CodesOK
<1>4. \A d \in Codes \ {c} : granted'[d] = granted[d]
  BY <1>1 DEF CodesOK
<1>5. \A d \in Codes : (free[d] = "live" => Unused(d))'
  BY <1>2, <1>4 DEF Ledger, Unused
<1>6. \A g \in Handles : row'[g].status = "reserved" =>
        Unused(row[g].code)' /\ free'[row'[g].code] # "live"
  BY <1>2, <1>4 DEF NoNewReservation, Ledger, Unused, Shape
<1>7. \A g, x \in Handles :
        row'[g].status = "reserved" /\ row'[x].status = "reserved" /\ row'[g].code = row'[x].code =>
          g = x
  BY <1>2 DEF NoNewReservation, Ledger
<1>8. void' \subseteq issued' /\ \A d \in Codes : granted'[d] # {} => d \in issued'
  BY <1>2, <1>4 DEF Ledger, Unused
<1> QED
  BY <1>3, <1>5, <1>6, <1>7, <1>8 DEF Ledger, LedgerKept

(* A free code is no reservation's, and is spent by what it buys.           *)
LEMMA FreeCodeBuys ==
  ASSUME AInv, NoNewReservation, UNCHANGED <<issued, void, modes>>,
         NEW c \in Codes, NEW h \in Handles, free[c] = "live", Spend(c), Grants(c, h)
  PROVE  LedgerKept
<1>1. CodesOK
  BY TypeIsTyped
<1>2. c # NoCode
  BY AddressAssumption
<1>3. free' = [free EXCEPT ![c] = "spent"] /\ granted' = [granted EXCEPT ![c] = @ \cup {h}]
  BY <1>2 DEF Spend, Grants
<1>4. Unused(c)
  BY DEF AInv, Ledger
<1>5. \A g \in Handles : row'[g].status = "reserved" => row'[g].code # c
  BY DEF NoNewReservation, AInv, Ledger
<1>6. /\ free' \in [Codes -> {"none", "live", "spent"}] /\ free'[c] # "live"
      /\ \A d \in Codes : free'[d] = "live" => free[d] = "live"
  BY <1>1, <1>3 DEF CodesOK
<1> QED
  BY <1>3, <1>4, <1>5, <1>6, CodeBuys

(* A reservation opens to its code, and is none afterwards.                 *)
LEMMA ReservationOpens ==
  ASSUME AInv, NoNewReservation, UNCHANGED <<free, issued, void, modes>>,
         NEW c \in Codes, NEW h \in Handles, Holds(h, c), Grants(c, h),
         row'[h].status # "reserved"
  PROVE  LedgerKept
<1>1. CodesOK
  BY TypeIsTyped
<1>2. granted' = [granted EXCEPT ![c] = @ \cup {h}]
  BY AddressAssumption DEF Grants
<1>3. Unused(c) /\ free[c] # "live"
  BY DEF AInv, Ledger, Holds
<1>4. \A g \in Handles : row'[g].status = "reserved" => row'[g].code # c
  BY DEF NoNewReservation, AInv, Ledger, Holds
<1> QED
  BY <1>1, <1>2, <1>3, <1>4, CodeBuys DEF CodesOK

(* One row changes, to none that is reserved.                               *)
LEMMA OneRowOpens ==
  ASSUME AInv, NEW h \in Handles, NEW r, row' = [row EXCEPT ![h] = r],
         r.status = "reserved" => row[h].status = "reserved" /\ r.code = row[h].code
  PROVE  NoNewReservation
BY DEF AInv, TypeOK, NoNewReservation

LEMMA TakeLedger ==
  ASSUME AInv, NEW w \in Wallets, NEW h \in Handles, NEW c \in Codes \cup {NoCode}, Take(w, h, c)
  PROVE  LedgerKept
<1>1. NoNewReservation
  BY ActiveRowIsRow, OneRowOpens DEF Take
<1>2. CASE c = NoCode
  BY <1>1, <1>2, NothingBought, TypeIsTyped DEF Take, Spend, Grants, CodesOK
<1>3. CASE c # NoCode
  BY <1>1, <1>3, FreeCodeBuys DEF Take, FreeNameCode
<1> QED
  BY <1>2, <1>3

LEMMA ClaimLedger ==
  ASSUME AInv, NEW w \in Wallets, NEW h \in Handles, NEW c \in Codes, Claim(w, h, c)
  PROVE  LedgerKept
<1>1. row[h] \in Row /\ row \in [Handles -> Row]
  BY DEF AInv, TypeOK
<1>2. row'[h].status # "reserved" /\ NoNewReservation
  BY <1>1, BoundIsRow, OneRowOpens DEF Claim
<1> QED
  BY <1>2, ReservationOpens DEF Claim, codes

LEMMA TakeRandomLedger ==
  ASSUME AInv, NEW w \in Wallets, TakeRandom(w)
  PROVE  LedgerKept
<1>0. PICK n \in Names : row' = [row EXCEPT ![n] = ActiveRow(w, FALSE)]
  BY DEF TakeRandom
<1>1. NoNewReservation
  BY <1>0, ActiveRowIsRow, OneRowOpens DEF Handles
<1> QED
  BY <1>1, NothingBought, TypeIsTyped DEF TakeRandom, codes, CodesOK

LEMMA RegisterNamelessLedger ==
  ASSUME AInv, NEW w \in Wallets, RegisterNameless(w)
  PROVE  LedgerKept
<1>1. row[w] \in Row /\ w \in Handles
  BY DEF AInv, TypeOK, Handles
<1>2. [row[w] EXCEPT !.status = "active"].status # "reserved"
  BY <1>1 DEF Row
<1>3. NoNewReservation
  <2>1. CASE row' = [row EXCEPT ![w].status = "active"]
    BY <1>1, <1>2, <2>1, OneRowOpens
  <2>2. CASE row' = [row EXCEPT ![w] = ActiveRow(w, TRUE)]
    BY <1>1, <2>2, ActiveRowIsRow, OneRowOpens
  <2> QED
    BY <2>1, <2>2 DEF RegisterNameless
<1> QED
  BY <1>3, NothingBought, TypeIsTyped DEF RegisterNameless, codes, CodesOK

LEMMA UpgradeLedger ==
  ASSUME AInv, NEW w \in Wallets, NEW n \in Handles, NEW c \in Codes \cup {NoCode},
         Upgrade(w, n, c)
  PROVE  LedgerKept
<1>0. PICK r \in Row :
           /\ r.status = "active" /\ row' = [row EXCEPT ![n] = r, ![w] = Free]
           /\ w \in Handles /\ n \in Names /\ n \notin Wallets
  BY UpgradedRow
<1>1. row'[n].status # "reserved" /\ NoNewReservation
  BY <1>0, FreeIsRow DEF AInv, TypeOK, NoNewReservation
<1>2. UNCHANGED <<issued, void, modes>>
  BY DEF Upgrade
<1>3. CASE Holds(n, c) /\ Grants(c, n) /\ UNCHANGED free
  <2>1. c \in Codes
    BY <1>3 DEF Holds, AInv, Shape
  <2> QED
    BY <1>1, <1>2, <1>3, <2>1, ReservationOpens
<1>4. CASE (FreeNameCode(c) \/ c = NoCode) /\ Spend(c) /\ Grants(c, n)
  <2>1. CASE c = NoCode
    BY <1>1, <1>2, <1>4, <2>1, NothingBought, TypeIsTyped DEF Spend, Grants, CodesOK
  <2>2. CASE c # NoCode
    BY <1>1, <1>2, <1>4, <2>2, FreeCodeBuys DEF FreeNameCode
  <2> QED
    BY <2>1, <2>2
<1> QED
  BY <1>3, <1>4 DEF Upgrade

LEMMA RevokeOwnLedger ==
  ASSUME AInv, NEW w \in Wallets, NEW h \in Handles, RevokeOwn(w, h)
  PROVE  LedgerKept
<1>0. PICK x \in Owned(w, h) : row' = [row EXCEPT ![x].status = "revoked"]
  BY DEF RevokeOwn
<1>1. x \in Handles /\ row[x] \in Row
  BY OwnedIsTheirs DEF AInv, TypeOK
<1>2. [row[x] EXCEPT !.status = "revoked"].status # "reserved"
  BY <1>1 DEF Row
<1>3. NoNewReservation
  BY <1>0, <1>1, <1>2, OneRowOpens
<1> QED
  BY <1>3, NothingBought, TypeIsTyped DEF RevokeOwn, codes, CodesOK

LEMMA MintLedger ==
  ASSUME AInv, NEW h \in Handles, NEW w \in Wallets, Mint(h, w)
  PROVE  LedgerKept
<1>1. NoNewReservation
  BY ActiveRowIsRow, OneRowOpens DEF Mint
<1> QED
  BY <1>1, NothingBought, TypeIsTyped DEF Mint, codes, CodesOK

(* A code never drawn is live nowhere and has bought nothing.               *)
LEMMA FreshIsNew ==
  ASSUME AInv, NEW c \in Codes, Fresh(c)
  PROVE  /\ granted[c] = {} /\ c \notin void /\ free[c] # "live"
         /\ \A h \in Handles : row[h].status = "reserved" => row[h].code # c
BY DEF AInv, Ledger, Fresh, Unused

(* A fresh code becomes a reservation's, of a free name or a reissued one.  *)
LEMMA FreshIsReserved ==
  ASSUME AInv, NEW h \in Handles, NEW c \in Codes, Fresh(c), NEW r \in Row,
         r.status = "reserved", r.code = c, row' = [row EXCEPT ![h] = r],
         issued' = issued \cup {c}, UNCHANGED <<free, modes, granted>>,
         \/ void' = void
         \/ row[h].status = "reserved" /\ void' = void \cup {row[h].code}
  PROVE  LedgerKept
<1>1. CodesOK
  BY TypeIsTyped
<1>2. Shape /\ Ledger
  BY DEF AInv
<1>3. /\ granted[c] = {} /\ c \notin void /\ free[c] # "live"
      /\ \A g \in Handles : row[g].status = "reserved" => row[g].code # c
  BY FreshIsNew
<1>4. row'[h] = r /\ \A g \in Handles \ {h} : row'[g] = row[g]
  BY DEF AInv, TypeOK
<1>5. /\ void \subseteq void' /\ void' \subseteq issued /\ c \notin void'
      /\ \A d \in void' \ void : row[h].status = "reserved" /\ d = row[h].code
  BY <1>2, <1>3 DEF Ledger, Unused, Fresh
<1>6. CodesOK'
  BY <1>1, <1>5 DEF CodesOK
<1>7. \A d \in Codes : (free[d] = "live" => Unused(d))'
  BY <1>2, <1>3, <1>5 DEF Ledger, Unused
<1>8. \A g \in Handles \ {h} : row'[g].status = "reserved" =>
        Unused(row[g].code)' /\ free'[row'[g].code] # "live"
  BY <1>2, <1>4, <1>5 DEF Ledger, Unused
<1>9. Unused(row[h].code)' /\ free'[row'[h].code] # "live"
  BY <1>3, <1>4, <1>5 DEF Unused
<1>10. \A g, x \in Handles :
        row'[g].status = "reserved" /\ row'[x].status = "reserved" /\ row'[g].code = row'[x].code =>
          g = x
  BY <1>2, <1>3, <1>4 DEF Ledger
<1>11. void' \subseteq issued' /\ \A d \in Codes : granted'[d] # {} => d \in issued'
  BY <1>2, <1>5 DEF Ledger
<1> QED
  BY <1>6, <1>7, <1>8, <1>9, <1>10, <1>11 DEF Ledger, LedgerKept

LEMMA ReserveLedger ==
  ASSUME AInv, NEW h \in Handles, NEW c \in Codes, Reserve(h, c)
  PROVE  LedgerKept
<1> DEFINE r == [Free EXCEPT !.status = "reserved", !.code = c]
<1>1. r \in Row /\ r.status = "reserved" /\ r.code = c
  BY FreeIsRow, ReservedIsRow
<1>2. /\ row' = [row EXCEPT ![h] = r] /\ Fresh(c) /\ issued' = issued \cup {c}
      /\ UNCHANGED <<free, void, modes, granted>>
  BY DEF Reserve
<1> HIDE DEF r
<1> QED
  BY <1>1, <1>2, FreshIsReserved

LEMMA ReissueReservationLedger ==
  ASSUME AInv, NEW h \in Handles, NEW c \in Codes, ReissueReservation(h, c)
  PROVE  LedgerKept
<1> DEFINE r == [row[h] EXCEPT !.code = c]
<1>1. row[h] \in Row /\ row[h].status = "reserved"
  BY DEF AInv, TypeOK, ReissueReservation
<1>2. r \in Row /\ r.status = "reserved" /\ r.code = c
  BY <1>1, ReservedIsRow
<1>3. /\ row' = [row EXCEPT ![h] = r] /\ Fresh(c) /\ issued' = issued \cup {c}
      /\ void' = void \cup {row[h].code} /\ UNCHANGED <<free, modes, granted>>
  BY DEF ReissueReservation, history
<1> HIDE DEF r
<1> QED
  BY <1>1, <1>2, <1>3, FreshIsReserved

LEMMA SetStatusLedger ==
  ASSUME AInv, NEW h \in Handles, NEW s \in {"active", "revoked"}, SetStatus(h, s)
  PROVE  LedgerKept
<1>1. row[h] \in Row /\ row \in [Handles -> Row]
  BY DEF AInv, TypeOK
<1>2. [row[h] EXCEPT !.status = s].status # "reserved"
  BY <1>1 DEF Row
<1>3. NoNewReservation /\ row'[h].status # "reserved"
  BY <1>1, <1>2, OneRowOpens DEF SetStatus
<1> QED
  BY <1>3, NothingBought, TypeIsTyped DEF SetStatus, VoidsCodeOf, CodesOK

LEMMA DeleteLedger ==
  ASSUME AInv, NEW h \in Handles, Delete(h)
  PROVE  LedgerKept
<1>1. row \in [Handles -> Row]
  BY DEF AInv, TypeOK
<1>2. NoNewReservation /\ row'[h].status # "reserved"
  BY <1>1, FreeIsRow, OneRowOpens DEF Delete
<1> QED
  BY <1>2, NothingBought, TypeIsTyped DEF Delete, VoidsCodeOf, CodesOK

LEMMA SetRailsLedger ==
  ASSUME AInv, NEW h \in Handles, NEW off \in SUBSET Rails, SetRails(h, off)
  PROVE  LedgerKept
<1>1. row[h] \in Row
  BY DEF AInv, TypeOK
<1>2. NoNewReservation
  BY <1>1, OffIsRow, OneRowOpens DEF SetRails
<1> QED
  BY <1>2, NothingBought, TypeIsTyped DEF SetRails, codes, history, CodesOK

LEMMA SetModesLedger ==
  ASSUME AInv, NEW m \in ModeSets, SetModes(m)
  PROVE  LedgerKept
<1>1. NoNewReservation
  BY DEF NoNewReservation, SetModes
<1> QED
  BY <1>1, NothingBought DEF SetModes, codes, history

LEMMA IssueClaimCodeLedger ==
  ASSUME AInv, NEW c \in Codes, IssueClaimCode(c)
  PROVE  LedgerKept
<1>1. CodesOK /\ Ledger
  BY TypeIsTyped DEF AInv
<1>2. /\ granted[c] = {} /\ c \notin void
      /\ \A g \in Handles : row[g].status = "reserved" => row[g].code # c
  BY FreshIsNew DEF IssueClaimCode
<1>3. CodesOK'
  BY <1>1 DEF IssueClaimCode, history, CodesOK
<1>4. Ledger'
  BY <1>1, <1>2 DEF IssueClaimCode, history, Ledger, Unused, CodesOK
<1> QED
  BY <1>3, <1>4 DEF LedgerKept

LEMMA ReissueClaimCodeLedger ==
  ASSUME AInv, NEW c \in Codes, NEW d \in Codes, ReissueClaimCode(c, d)
  PROVE  LedgerKept
<1>1. CodesOK /\ Ledger
  BY TypeIsTyped DEF AInv
<1>2. /\ granted[d] = {} /\ d \notin void /\ c # d /\ Unused(c)
      /\ \A g \in Handles : row[g].status = "reserved" => row[g].code # d /\ row[g].code # c
  BY <1>1, FreshIsNew DEF ReissueClaimCode, Ledger
<1>3. CodesOK'
  BY <1>1 DEF ReissueClaimCode, history, CodesOK
<1>4. Ledger'
  BY <1>1, <1>2 DEF ReissueClaimCode, history, Ledger, Unused, CodesOK
<1> QED
  BY <1>3, <1>4 DEF LedgerKept

LEMMA RevokeClaimCodeLedger ==
  ASSUME AInv, NEW c \in Codes, RevokeClaimCode(c)
  PROVE  LedgerKept
<1>1. CodesOK /\ Ledger
  BY TypeIsTyped DEF AInv
<1>2. Unused(c) /\ \A g \in Handles : row[g].status = "reserved" => row[g].code # c
  BY <1>1 DEF RevokeClaimCode, Ledger
<1>3. CodesOK'
  BY <1>1 DEF RevokeClaimCode, history, CodesOK
<1>4. Ledger'
  BY <1>1, <1>2 DEF RevokeClaimCode, history, Ledger, Unused, CodesOK
<1> QED
  BY <1>3, <1>4 DEF LedgerKept

-----------------------------------------------------------------------------
(* The invariant.                                                           *)

LEMMA InitHolds == Init => AInv
<1> SUFFICES ASSUME Init PROVE AInv
  OBVIOUS
<1>1. TypeOK
  BY FreeIsRow DEF Init, TypeOK, SessionLnurl
<1>2. Shape /\ Heirs
  BY FreeIsRow DEF Init, Shape, Heirs, Handles
<1>3. Ledger
  BY FreeIsRow DEF Init, Ledger
<1> QED
  BY <1>1, <1>2, <1>3 DEF AInv

LEMMA KeptIsInv ==
  ASSUME RowsKept, LedgerKept PROVE AInv'
BY DEF RowsKept, LedgerKept, RowsOK, CodesOK, AInv, TypeOK

LEMMA WalletsKeepInv ==
  ASSUME AInv, WalletActs PROVE AInv'
<1>1. ASSUME NEW w \in Wallets, TakeRandom(w) PROVE AInv'
  BY <1>1, TakeRandomRows, TakeRandomLedger, KeptIsInv
<1>2. ASSUME NEW w \in Wallets, RegisterNameless(w) PROVE AInv'
  BY <1>2, RegisterNamelessRows, RegisterNamelessLedger, KeptIsInv
<1>3. ASSUME NEW w \in Wallets, NEW h \in Handles, RevokeOwn(w, h) PROVE AInv'
  BY <1>3, RevokeOwnRows, RevokeOwnLedger, KeptIsInv
<1>4. ASSUME NEW w \in Wallets, NEW h \in Handles, NEW c \in Codes, Claim(w, h, c) PROVE AInv'
  BY <1>4, ClaimRows, ClaimLedger, KeptIsInv
<1>5. ASSUME NEW w \in Wallets, NEW h \in Handles, NEW c \in Codes \cup {NoCode}, Take(w, h, c)
      PROVE  AInv'
  BY <1>5, TakeRows, TakeLedger, KeptIsInv
<1>6. ASSUME NEW w \in Wallets, NEW h \in Handles, NEW c \in Codes \cup {NoCode}, Upgrade(w, h, c)
      PROVE  AInv'
  BY <1>6, UpgradeRows, UpgradeLedger, KeptIsInv
<1> QED
  BY <1>1, <1>2, <1>3, <1>4, <1>5, <1>6 DEF WalletActs

LEMMA OperatorKeepsInv ==
  ASSUME AInv, OperatorActs PROVE AInv'
<1>1. ASSUME NEW h \in Handles, Delete(h) PROVE AInv'
  BY <1>1, DeleteRows, DeleteLedger, KeptIsInv
<1>2. ASSUME NEW h \in Handles, NEW w \in Wallets, Mint(h, w) PROVE AInv'
  BY <1>2, MintRows, MintLedger, KeptIsInv
<1>3. ASSUME NEW h \in Handles, NEW s \in {"active", "revoked"}, SetStatus(h, s) PROVE AInv'
  BY <1>3, SetStatusRows, SetStatusLedger, KeptIsInv
<1>4. ASSUME NEW h \in Handles, NEW off \in SUBSET Rails, SetRails(h, off) PROVE AInv'
  BY <1>4, SetRailsRows, SetRailsLedger, KeptIsInv
<1>5. ASSUME NEW h \in Handles, NEW c \in Codes, Reserve(h, c) PROVE AInv'
  BY <1>5, ReserveRows, ReserveLedger, KeptIsInv
<1>6. ASSUME NEW h \in Handles, NEW c \in Codes, ReissueReservation(h, c) PROVE AInv'
  BY <1>6, ReissueReservationRows, ReissueReservationLedger, KeptIsInv
<1>7. ASSUME NEW c \in Codes, IssueClaimCode(c) PROVE AInv'
  BY <1>7, StillRows, IssueClaimCodeLedger, KeptIsInv DEF IssueClaimCode, history
<1>8. ASSUME NEW c \in Codes, RevokeClaimCode(c) PROVE AInv'
  BY <1>8, StillRows, RevokeClaimCodeLedger, KeptIsInv DEF RevokeClaimCode, history
<1>9. ASSUME NEW c \in Codes, NEW d \in Codes, ReissueClaimCode(c, d) PROVE AInv'
  BY <1>9, StillRows, ReissueClaimCodeLedger, KeptIsInv DEF ReissueClaimCode, history
<1>10. ASSUME NEW m \in ModeSets, SetModes(m) PROVE AInv'
  BY <1>10, StillRows, SetModesLedger, KeptIsInv DEF SetModes, history
<1> QED
  BY <1>1, <1>2, <1>3, <1>4, <1>5, <1>6, <1>7, <1>8, <1>9, <1>10 DEF OperatorActs

LEMMA Invariance == Spec => []AInv
<1>1. Init => AInv
  BY InitHolds
<1>2. ASSUME AInv, [Next]_vars PROVE AInv'
  <2>1. CASE Next
    BY <1>2, <2>1, WalletsKeepInv, OperatorKeepsInv DEF Next
  <2>2. CASE UNCHANGED vars
    <3>1. row' = row /\ ever' = ever /\ UNCHANGED <<free, issued, void, modes, granted>>
      BY <2>2 DEF vars, codes, history
    <3>2. RowsKept
      BY <1>2, <3>1, StillRows
    <3>3. LedgerKept
      <4>1. CodesOK /\ Ledger
        BY <1>2, TypeIsTyped DEF AInv
      <4> QED
        BY <3>1, <4>1 DEF LedgerKept, CodesOK, Ledger, Unused
    <3> QED
      BY <3>2, <3>3, KeptIsInv
  <2> QED
    BY <1>2, <2>1, <2>2
<1> QED
  BY <1>1, <1>2, PTL DEF Spec

(* Every table keeps its columns, and a session never has two active        *)
(* session LNURLs, which the database's index would refuse.                 *)
THEOREM AddressesTypeCorrect == Spec => []TypeOK
<1>1. AInv => TypeOK
  BY DEF AInv
<1> QED
  BY <1>1, Invariance, PTL

(* A handle leads payers to one wallet only until its row is deleted, and a *)
(* session LNURL to its session, whatever wallets and operator do.          *)
THEOREM HandlesKeepTheirWallet == Spec => []OneWalletPerHandle
<1>1. ASSUME AInv PROVE OneWalletPerHandle
  <2>1. Heirs
    BY <1>1 DEF AInv
  <2> QED
    BY <2>1 DEF Heirs, OneWalletPerHandle, Handles
<1> QED
  BY <1>1, Invariance, PTL

(* What a code buys is the first and only thing it buys.                    *)
LEMMA GrantIsFirst ==
  ASSUME AInv, NEW c \in Codes, NEW d \in Codes \cup {NoCode}, NEW h \in Handles, Grants(d, h),
         d \in Codes => Unused(d), granted'[c] # granted[c]
  PROVE  granted[c] = {} /\ c \notin void /\ Cardinality(granted'[c]) = 1
<1>1. c = d /\ granted'[c] = granted[c] \cup {h}
  BY AddressAssumption DEF Grants, AInv, TypeOK
<1>2. granted[c] = {} /\ c \notin void /\ granted'[c] = {h}
  BY <1>1 DEF Unused
<1>3. Cardinality({h}) = 1
  BY FS_Singleton
<1> QED
  BY <1>2, <1>3

LEMMA StepsBuyOnce ==
  ASSUME AInv, Next, NEW c \in Codes, granted'[c] # granted[c]
  PROVE  granted[c] = {} /\ c \notin void /\ Cardinality(granted'[c]) = 1
<1>0. Shape /\ Ledger
  BY DEF AInv
<1>1. ASSUME NEW w \in Wallets, NEW h \in Handles, NEW d \in Codes \cup {NoCode}, Take(w, h, d)
      PROVE  Grants(d, h) /\ (d \in Codes => Unused(d))
  BY <1>0, <1>1, AddressAssumption DEF Take, FreeNameCode, Ledger
<1>2. ASSUME NEW w \in Wallets, NEW h \in Handles, NEW d \in Codes, Claim(w, h, d)
      PROVE  Grants(d, h) /\ Unused(d)
  BY <1>0, <1>2 DEF Claim, Holds, Ledger
<1>3. ASSUME NEW w \in Wallets, NEW h \in Handles, NEW d \in Codes \cup {NoCode}, Upgrade(w, h, d)
      PROVE  Grants(d, h) /\ (d \in Codes => Unused(d))
  BY <1>0, <1>3, AddressAssumption DEF Upgrade, Holds, FreeNameCode, Ledger
<1>4. ~OperatorActs
  BY DEF OperatorActs, Delete, Mint, SetStatus, SetRails, Reserve, ReissueReservation,
         IssueClaimCode, RevokeClaimCode, ReissueClaimCode, SetModes, history
<1>5. \A w \in Wallets :
        ~TakeRandom(w) /\ ~RegisterNameless(w) /\ \A h \in Handles : ~RevokeOwn(w, h)
  BY DEF TakeRandom, RegisterNameless, RevokeOwn
<1> QED
  BY <1>1, <1>2, <1>3, <1>4, <1>5, GrantIsFirst DEF Next, WalletActs

(* A claim code buys one handle, once, and nothing after it was replaced,   *)
(* withdrawn or overtaken, whatever the order of the calls.                 *)
THEOREM CodesBuyOnce == Spec => CodesGrantOnce
<1>1. ASSUME AInv, [Next]_vars
      PROVE  [\A c \in Codes :
                granted'[c] # granted[c] =>
                  granted[c] = {} /\ c \notin void /\ Cardinality(granted'[c]) = 1]_vars
  BY <1>1, StepsBuyOnce
<1> QED
  BY <1>1, Invariance, PTL DEF Spec, CodesGrantOnce

(* Where a row and its policy are after a step.                             *)
KeptAt(h, x) ==
  /\ x = h \/ (row'[x].flagged /\ row'[x].wallet = h)
  /\ row'[x].status # "none" /\ row[h].off \subseteq row'[x].off

(* Rows that a step leaves alone, or gives a new status or wallet.          *)
LEMMA PolicyStays ==
  ASSUME AInv, NEW h \in Handles, NEW r \in Row, row' = [row EXCEPT ![h] = r],
         r.status # "none", row[h].off \subseteq r.off
  PROVE  \A g \in Handles : row[g].status # "none" => \E x \in Handles : KeptAt(g, x)
<1>1. row'[h] = r /\ \A g \in Handles \ {h} : row'[g] = row[g]
  BY DEF AInv, TypeOK
<1>2. \A g \in Handles : row[g].status # "none" => KeptAt(g, g)
  BY <1>1 DEF KeptAt
<1> QED
  BY <1>2

LEMMA WalletsKeepPolicy ==
  ASSUME AInv, WalletActs
  PROVE  \A h \in Handles : row[h].status # "none" => \E x \in Handles : KeptAt(h, x)
<1> DEFINE Kept == \A h \in Handles : row[h].status # "none" => \E x \in Handles : KeptAt(h, x)
<1>0. \A h \in Handles : row[h] \in Row /\ (row[h].status = "none" => row[h].off = {})
  BY FreeIsRow DEF AInv, TypeOK, Shape
<1>1. ASSUME NEW w \in Wallets, TakeRandom(w) PROVE Kept
  <2>1. PICK n \in Names : row[n].status = "none" /\ row' = [row EXCEPT ![n] = ActiveRow(w, FALSE)]
    BY <1>1 DEF TakeRandom
  <2> HIDE DEF Kept
  <2>2. n \in Handles /\ row[n].off \subseteq ActiveRow(w, FALSE).off
    BY <1>0, <2>1 DEF Handles
  <2>3. ActiveRow(w, FALSE) \in Row /\ ActiveRow(w, FALSE).status # "none"
    BY ActiveRowIsRow
  <2> QED
    BY <2>1, <2>2, <2>3, PolicyStays DEF Kept
<1>2. ASSUME NEW w \in Wallets, RegisterNameless(w) PROVE Kept
  <2>0. w \in Handles /\ row[w] \in Row
    BY <1>0 DEF Handles
  <2>1. CASE row[w].status = "revoked" /\ row' = [row EXCEPT ![w].status = "active"]
    <3> DEFINE r == [row[w] EXCEPT !.status = "active"]
    <3>1. r \in Row /\ r.status # "none" /\ row[w].off \subseteq r.off
      BY <2>0, StatusIsRow
    <3>2. row' = [row EXCEPT ![w] = r]
      BY <2>1
    <3> HIDE DEF r
    <3> QED
      BY <2>0, <3>1, <3>2, PolicyStays
  <2>2. CASE row[w].status = "none" /\ row' = [row EXCEPT ![w] = ActiveRow(w, TRUE)]
    <3>1. ActiveRow(w, TRUE) \in Row /\ ActiveRow(w, TRUE).status # "none" /\ row[w].off = {}
      BY <1>0, <2>0, <2>2, ActiveRowIsRow
    <3> QED
      BY <2>0, <2>2, <3>1, PolicyStays
  <2> QED
    BY <1>2, <2>1, <2>2 DEF RegisterNameless
<1>3. ASSUME NEW w \in Wallets, NEW h \in Handles, RevokeOwn(w, h) PROVE Kept
  <2>1. PICK x \in Owned(w, h) : row' = [row EXCEPT ![x].status = "revoked"]
    BY <1>3 DEF RevokeOwn
  <2> DEFINE r == [row[x] EXCEPT !.status = "revoked"]
  <2>2. x \in Handles /\ row[x] \in Row
    BY <1>0, OwnedIsTheirs
  <2>3. r \in Row /\ r.status # "none" /\ row[x].off \subseteq r.off
    BY <2>2, StatusIsRow
  <2>4. row' = [row EXCEPT ![x] = r]
    BY <2>1
  <2> HIDE DEF r
  <2> QED
    BY <2>2, <2>3, <2>4, PolicyStays
<1>4. ASSUME NEW w \in Wallets, NEW h \in Handles, NEW c \in Codes, Claim(w, h, c) PROVE Kept
  <2> DEFINE r == Bound(row[h], w)
  <2>1. r \in Row /\ r.status # "none" /\ row[h].off \subseteq r.off
    BY <1>0, BoundIsRow
  <2>2. row' = [row EXCEPT ![h] = r]
    BY <1>4 DEF Claim
  <2> HIDE DEF r
  <2> QED
    BY <2>1, <2>2, PolicyStays
<1>5. ASSUME NEW w \in Wallets, NEW h \in Handles, NEW c \in Codes \cup {NoCode}, Take(w, h, c)
      PROVE  Kept
  <2>1. row' = [row EXCEPT ![h] = ActiveRow(w, FALSE)] /\ row[h].off = {}
    BY <1>0, <1>5 DEF Take
  <2>2. ActiveRow(w, FALSE) \in Row /\ ActiveRow(w, FALSE).status # "none"
    BY ActiveRowIsRow
  <2> QED
    BY <2>1, <2>2, PolicyStays
<1>6. ASSUME NEW w \in Wallets, NEW n \in Handles, NEW c \in Codes \cup {NoCode}, Upgrade(w, n, c)
      PROVE  Kept
  <2>1. PICK r \in Row :
           /\ r.status = "active" /\ r.wallet = w /\ r.flagged
           /\ row[w].off \cup row[n].off \subseteq r.off
           /\ row' = [row EXCEPT ![n] = r, ![w] = Free]
           /\ w \in Handles /\ n \notin Wallets
    BY <1>6, UpgradedRow
  <2>2. row'[n] = r /\ \A h \in Handles : h # n /\ h # w => row'[h] = row[h]
    BY <2>1 DEF AInv, TypeOK
  <2>3. KeptAt(w, n) /\ KeptAt(n, n)
    BY <2>1, <2>2 DEF KeptAt
  <2>4. \A h \in Handles : h # n /\ h # w /\ row[h].status # "none" => KeptAt(h, h)
    BY <2>2 DEF KeptAt
  <2> QED
    BY <2>1, <2>3, <2>4
<1> QED
  BY <1>1, <1>2, <1>3, <1>4, <1>5, <1>6 DEF WalletActs

(* No wallet's step turns a rail on that the operator turned off for the    *)
(* row it has or the reservation it claims.                                 *)
THEOREM WalletsKeepThePolicy == Spec => PolicyIsKept
<1>1. ASSUME AInv, [Next]_vars
      PROVE  [\/ \A h \in Handles :
                   row[h].status # "none" =>
                     \E x \in Handles :
                       /\ x = h \/ (row'[x].flagged /\ row'[x].wallet = h)
                       /\ row'[x].status # "none" /\ row[h].off \subseteq row'[x].off
              \/ OperatorActs]_vars
  BY <1>1, WalletsKeepPolicy DEF KeptAt, Next
<1> QED
  BY <1>1, Invariance, PTL DEF Spec, PolicyIsKept
=============================================================================
