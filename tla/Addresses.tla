------------------------------ MODULE Addresses ------------------------------
(***************************************************************************)
(* AddressService over the tables addresses and claim_codes of one domain: *)
(* who answers for which handle, and what a claim code buys. A handle is a *)
(* name or a session id, and a wallet is its session id: `.../lnurlp/name` *)
(* and `/lnurl/<session id>` lead payers to rows of one table, in which a  *)
(* nameless receiver's row has its session id for a name.                  *)
(*                                                                         *)
(* Every call runs to its end without an await; what can go wrong is a     *)
(* sequence of legal calls by wallets and the operator.                    *)
(***************************************************************************)
EXTENDS Integers, FiniteSets

CONSTANTS
  Names,
  Wallets,       (* wallets, and the ids that deriveSessionId gives them    *)
  Nobody,
  Codes,         (* claim codes, each drawn at random once                  *)
  NoCode,
  Rails,
  MaxPerSession, (* the domain's cap on what a wallet takes for itself      *)
  ModeSets       (* the allocation modes the operator may set               *)

ASSUME AddressAssumption ==
  /\ Names \cap Wallets = {} /\ Nobody \notin Wallets /\ NoCode \notin Codes
  /\ MaxPerSession \in Nat
  /\ ModeSets \subseteq SUBSET {"self", "session", "random"} /\ ModeSets # {}

VARIABLES
  row,       (* the table addresses, by username: UNIQUE(domain, username)  *)
  free,      (* the table claim_codes: none, live or spent                  *)
  modes,     (* the domain's allocation modes                               *)
  issued,    (* codes drawn                                                 *)
  void,      (* codes replaced, revoked or of a reservation that is no more *)
  granted,   (* the handles each code has bought                            *)
  ever       (* the wallets a handle has led to since its row was created   *)

codes   == <<free, issued, void>>
history == <<granted, ever>>
vars    == <<row, codes, modes, history>>

Handles == Names \cup Wallets

Row == [status  : {"none", "reserved", "active", "revoked"},
        wallet  : Wallets \cup {Nobody},
        flagged : BOOLEAN,                  (* session_lnurl                *)
        code    : Codes \cup {NoCode},      (* claim_code_hash              *)
        off     : SUBSET Rails]             (* disabled_rails               *)

(* No row has this username.                                                *)
Free == [status |-> "none", wallet |-> Nobody, flagged |-> FALSE, code |-> NoCode, off |-> {}]

-----------------------------------------------------------------------------
(* Reading the tables.                                                      *)

(* getSessionLnurl: the active flagged row of a session.                    *)
SessionLnurl(w) ==
  {h \in Handles : row[h].flagged /\ row[h].wallet = w /\ row[h].status = "active"}

(* ownedByHandle, as a set of no or one row: by username, or the session's. *)
Owned(w, h) ==
  LET found == IF row[h].status # "none" THEN {h}
               ELSE IF h \in Wallets THEN SessionLnurl(h) ELSE {}
  IN  {x \in found : row[x].wallet = w}

IsNameless(h) == row[h].flagged /\ row[h].wallet = h

(* Mutant of ValidName: a name that looks like a session handle will do.    *)
ValidNameAny(h) == h \in Handles

(* assertUsername; the domain's rules and the blacklist are in Names.       *)
ValidName(h) == h \in Names

UnderCap(w) ==
  Cardinality({h \in Handles : row[h].wallet = w /\ row[h].status = "active"}) < MaxPerSession

(* freeNameCode: a new name needs self mode or a code nobody has spent.     *)
FreeNameCode(c) == IF c = NoCode THEN "self" \in modes ELSE free[c] = "live"

(* Where a handle leads payers: an active row of that name, or the session's*)
(* row at its session LNURL.                                                *)
LeadsTo(table, h) ==
  {w \in Wallets : table[h].wallet = w /\ table[h].status = "active"}
  \cup {w \in Wallets : w = h /\ \E x \in Handles :
          table[x].flagged /\ table[x].wallet = w /\ table[x].status = "active"}

TypeOK ==
  /\ row \in [Handles -> Row]
  /\ \A w \in Wallets : \A x, y \in SessionLnurl(w) : x = y
  /\ free \in [Codes -> {"none", "live", "spent"}]
  /\ modes \in ModeSets
  /\ issued \subseteq Codes /\ void \subseteq Codes
  /\ granted \in [Codes -> SUBSET Handles]
  /\ ever \in [Handles -> SUBSET Wallets]

-----------------------------------------------------------------------------
(* History.                                                                 *)

Remembers == ever' = [h \in Handles |-> ever[h] \cup LeadsTo(row', h)]

Grants(c, h) ==
  granted' = IF c = NoCode THEN granted ELSE [granted EXCEPT ![c] = @ \cup {h}]

(* A reservation that ends in any way but its claim voids its code.         *)
VoidsCodeOf(h) == void' = IF row[h].status = "reserved" THEN void \cup {row[h].code} ELSE void

-----------------------------------------------------------------------------
(* Wallets: POST /lnurl/address.                                            *)

(* redeem: marks a code spent; without a code there is nothing to mark.     *)
Spend(c) == free' = IF c = NoCode THEN free ELSE [free EXCEPT ![c] = "spent"]

ActiveRow(w, flag) == [Free EXCEPT !.status = "active", !.wallet = w, !.flagged = flag]

(* register of a free username, self-chosen or bought with a free code,     *)
(* which no cap limits.                                                     *)
Take(w, h, c) ==
  /\ row[h].status = "none" /\ ValidName(h)
  /\ FreeNameCode(c)
  /\ c = NoCode => UnderCap(w)
  /\ row' = [row EXCEPT ![h] = ActiveRow(w, FALSE)]
  /\ Spend(c) /\ Grants(c, h) /\ Remembers
  /\ UNCHANGED <<modes, issued, void>>

(* A reservation opens only to its own code, whether or not it is named.    *)
Holds(h, c) == row[h].status = "reserved" /\ row[h].code = c

Bound(r, w) == [r EXCEPT !.status = "active", !.wallet = w, !.code = NoCode]

(* register of a reserved username, or of a reservation's code alone: bind. *)
Claim(w, h, c) ==
  /\ Holds(h, c)
  /\ row' = [row EXCEPT ![h] = Bound(row[h], w)]
  /\ Grants(c, h) /\ Remembers
  /\ UNCHANGED <<codes, modes>>

(* register without username or code, in random mode.                       *)
TakeRandom(w) ==
  /\ "random" \in modes /\ UnderCap(w)
  /\ \E n \in Names :
       /\ row[n].status = "none"
       /\ row' = [row EXCEPT ![n] = ActiveRow(w, FALSE)]
  /\ Remembers
  /\ UNCHANGED <<codes, modes, granted>>

(* registerNameless: a row of its own under the session id, new or revoked. *)
RegisterNameless(w) ==
  /\ "session" \in modes /\ SessionLnurl(w) = {} /\ UnderCap(w)
  /\ \/ /\ row[w].status = "revoked" /\ row[w].wallet = w
        /\ row' = [row EXCEPT ![w].status = "active"]
     \/ /\ row[w].status = "none"
        /\ row' = [row EXCEPT ![w] = ActiveRow(w, TRUE)]
  /\ Remembers
  /\ UNCHANGED <<codes, modes, granted>>

(* Mutant of Absorb: the row keeps its own policy and drops the other.      *)
AbsorbForgets(w, n) == row' = [row EXCEPT ![n] = row[w], ![w] = Free]

(* absorbReservation and rename: the reservation's row goes, its policy is  *)
(* added to the target's.                                                   *)
Absorb(w, n) ==
  row' = [row EXCEPT ![n] = [row[w] EXCEPT !.off = @ \cup row[n].off], ![w] = Free]

(* PATCH /lnurl/address/:handle: a nameless row is given a name, reserved,  *)
(* bought, self-chosen or random.                                           *)
Upgrade(w, n, c) ==
  /\ w \in Owned(w, w) /\ row[w].status = "active" /\ IsNameless(w)
  /\ \/ Holds(n, c) /\ Absorb(w, n) /\ Grants(c, n) /\ UNCHANGED free
     \/ /\ row[n].status = "none" /\ ValidName(n)
        /\ FreeNameCode(c) \/ (c = NoCode /\ "random" \in modes)
        /\ row' = [row EXCEPT ![n] = row[w], ![w] = Free]
        /\ Spend(c) /\ Grants(c, n)
  /\ Remembers
  /\ UNCHANGED <<modes, issued, void>>

(* DELETE /lnurl/address/:handle.                                           *)
RevokeOwn(w, h) ==
  /\ \E x \in Owned(w, h) : row' = [row EXCEPT ![x].status = "revoked"]
  /\ Remembers
  /\ UNCHANGED <<codes, modes, granted>>

-----------------------------------------------------------------------------
(* The operator.                                                            *)

Fresh(c) == c \in Codes \ issued

Reserve(h, c) ==
  /\ row[h].status = "none" /\ ValidName(h) /\ Fresh(c)
  /\ row' = [row EXCEPT ![h] = [Free EXCEPT !.status = "reserved", !.code = c]]
  /\ issued' = issued \cup {c}
  /\ Remembers
  /\ UNCHANGED <<free, void, modes, granted>>

(* mint: an address for the wallet of a secret drawn for it.                *)
Mint(h, w) ==
  /\ row[h].status = "none" /\ ValidName(h)
  /\ \A x \in Handles : row[x].wallet # w
  /\ row' = [row EXCEPT ![h] = ActiveRow(w, FALSE)]
  /\ Remembers
  /\ UNCHANGED <<codes, modes, granted>>

(* PATCH /addresses/:id, of a row of any status; the index on session LNURLs*)
(* refuses a second active one.                                             *)
SetStatus(h, status) ==
  /\ row[h].status # "none"
  /\ status = "active" /\ row[h].flagged => SessionLnurl(row[h].wallet) \subseteq {h}
  /\ row' = [row EXCEPT ![h].status = status]
  /\ VoidsCodeOf(h) /\ Remembers
  /\ UNCHANGED <<free, issued, modes, granted>>

SetRails(h, off) ==
  /\ row[h].status # "none"
  /\ row' = [row EXCEPT ![h].off = off]
  /\ UNCHANGED <<codes, modes, history>>

(* DELETE /addresses/:id: whoever takes the handle next is nobody's heir.   *)
Delete(h) ==
  /\ row[h].status # "none"
  /\ row' = [row EXCEPT ![h] = Free]
  /\ ever' = [ever EXCEPT ![h] = {}]
  /\ VoidsCodeOf(h)
  /\ UNCHANGED <<free, issued, modes, granted>>

(* reissueReservation.                                                      *)
ReissueReservation(h, c) ==
  /\ row[h].status = "reserved" /\ Fresh(c)
  /\ row' = [row EXCEPT ![h].code = c]
  /\ issued' = issued \cup {c}
  /\ void' = void \cup {row[h].code}
  /\ UNCHANGED <<free, modes, history>>

IssueClaimCode(c) ==
  /\ Fresh(c)
  /\ free' = [free EXCEPT ![c] = "live"]
  /\ issued' = issued \cup {c}
  /\ UNCHANGED <<row, void, modes, history>>

(* Mutant of ReissueClaimCode: the new hash is a row of its own.            *)
ReissueClaimCodeAdds(c, d) ==
  /\ free[c] = "live" /\ Fresh(d)
  /\ free' = [free EXCEPT ![d] = "live"]
  /\ issued' = issued \cup {d}
  /\ void' = void \cup {c}
  /\ UNCHANGED <<row, modes, history>>

(* reissueClaimCode: an unspent entry gets a new hash.                      *)
ReissueClaimCode(c, d) ==
  /\ free[c] = "live" /\ Fresh(d)
  /\ free' = [free EXCEPT ![c] = "none", ![d] = "live"]
  /\ issued' = issued \cup {d}
  /\ void' = void \cup {c}
  /\ UNCHANGED <<row, modes, history>>

(* revoke: deletes an unspent entry.                                        *)
RevokeClaimCode(c) ==
  /\ free[c] = "live"
  /\ free' = [free EXCEPT ![c] = "none"]
  /\ void' = void \cup {c}
  /\ UNCHANGED <<row, issued, modes, history>>

(* PATCH /domains/:id.                                                      *)
SetModes(m) ==
  /\ modes' = m
  /\ UNCHANGED <<row, codes, history>>

Init ==
  /\ row = [h \in Handles |-> Free]
  /\ free = [c \in Codes |-> "none"]
  /\ modes \in ModeSets
  /\ issued = {} /\ void = {}
  /\ granted = [c \in Codes |-> {}]
  /\ ever = [h \in Handles |-> {}]

WalletActs ==
  \E w \in Wallets :
    \/ TakeRandom(w) \/ RegisterNameless(w)
    \/ \E h \in Handles : RevokeOwn(w, h) \/ \E c \in Codes : Claim(w, h, c)
    \/ \E h \in Handles, c \in Codes \cup {NoCode} : Take(w, h, c) \/ Upgrade(w, h, c)

OperatorActs ==
  \/ \E h \in Handles :
       \/ Delete(h)
       \/ \E w \in Wallets : Mint(h, w)
       \/ \E status \in {"active", "revoked"} : SetStatus(h, status)
       \/ \E off \in SUBSET Rails : SetRails(h, off)
       \/ \E c \in Codes : Reserve(h, c) \/ ReissueReservation(h, c)
  \/ \E c \in Codes :
       IssueClaimCode(c) \/ RevokeClaimCode(c) \/ \E d \in Codes : ReissueClaimCode(c, d)
  \/ \E m \in ModeSets : SetModes(m)

Next == WalletActs \/ OperatorActs

Spec == Init /\ [][Next]_vars

-----------------------------------------------------------------------------

(* A claim code buys one handle, once, and none after it was replaced or    *)
(* withdrawn, or its reservation opened another way: through reservations,  *)
(* free codes, reissues, claims and upgrades in any order.                  *)
CodesGrantOnce ==
  [][\A c \in Codes :
       granted'[c] # granted[c] =>
         granted[c] = {} /\ c \notin void /\ Cardinality(granted'[c]) = 1]_vars

(* A handle, printed somewhere, leads payers to one wallet only for as long *)
(* as the operator does not delete its row; a session LNURL to its session, *)
(* whatever is registered, revoked, upgraded and registered again.          *)
OneWalletPerHandle ==
  /\ \A h \in Handles : \A v, w \in ever[h] : v = w
  /\ \A w \in Wallets : ever[w] \subseteq {w}

(* "Union, not replace: both policies are the operator's": a rail that was  *)
(* turned off, on a wallet's row or on the reservation it claims, is turned *)
(* on again by the operator only.                                           *)
PolicyIsKept ==
  [][\/ \A h \in Handles :
          row[h].status # "none" =>
            \E x \in Handles :
              /\ x = h \/ (row'[x].flagged /\ row'[x].wallet = h)
              /\ row'[x].status # "none" /\ row[h].off \subseteq row'[x].off
     \/ OperatorActs]_vars
=============================================================================
