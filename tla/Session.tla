------------------------------- MODULE Session -------------------------------
(***************************************************************************)
(* SessionManager: wallets that are online. A wallet holds an event stream *)
(* open; payers of its LNURL ask it for an invoice over that stream and    *)
(* wait; it posts the answer to the session's URL. A wallet that brings a  *)
(* token gets the same session id each time it connects.                   *)
(*                                                                         *)
(* A Session object is named by the stream it was created for. A stream    *)
(* that either side has ended is closing until its "close" event reaches   *)
(* the server, which may be long after the wallet has connected again.     *)
(***************************************************************************)
EXTENDS Integers, FiniteSets

CONSTANTS
  Conns,        (* streams a wallet may open                                *)
  NoConn,
  Requests,     (* payers' requests                                         *)
  NoRequest,
  Ids, IdOf,    (* [Conns -> Ids]: equal for streams that bring one token   *)
  Ips, IpOf,    (* [Conns -> Ips]                                           *)
  MaxSessions,
  MaxPerIp

ASSUME SessionAssumption ==
  /\ NoConn \notin Conns /\ NoRequest \notin Requests
  /\ IdOf \in [Conns -> Ids] /\ IpOf \in [Conns -> Ips]
  /\ MaxSessions \in Nat /\ MaxPerIp \in Nat
  /\ IsFiniteSet(Conns)

VARIABLES
  down,       (* the server is shutting down                                *)
  stream,     (* each stream: new, open, closing or closed                  *)
  sessions,   (* the map: each id's Session, or NoConn                      *)
  newest,     (* the stream last opened for each id                         *)
  pending,    (* pendingInvoice of each Session                             *)
  request,    (* each request: none, waiting, answered or failed            *)
  askedOf,    (* the Session a request was made of                          *)
  prompts,    (* requests the wallet has seen and not dealt with            *)
  answer      (* the request whose invoice a payer was given                *)

conns == <<stream, sessions, newest>>
payer == <<pending, request, askedOf, answer>>
vars  == <<down, conns, payer, prompts>>

TypeOK ==
  /\ down \in BOOLEAN
  /\ stream \in [Conns -> {"new", "open", "closing", "closed"}]
  /\ sessions \in [Ids -> Conns \cup {NoConn}]
  /\ newest \in [Ids -> Conns \cup {NoConn}]
  /\ pending \in [Conns -> Requests \cup {NoRequest}]
  /\ request \in [Requests -> {"none", "waiting", "answered", "failed"}]
  /\ askedOf \in [Requests -> Conns \cup {NoConn}]
  /\ prompts \in SUBSET Requests
  /\ answer \in [Requests -> Requests \cup {NoRequest}]

Live == {c \in Conns : sessions[IdOf[c]] = c}

(* Mutant of CanAccept: the limits are reached one session too late.       *)
CanAcceptOneMore(c) ==
  LET others == Live \ {sessions[IdOf[c]]}
  IN  /\ Cardinality(others) <= MaxSessions
      /\ Cardinality({d \in others : IpOf[d] = IpOf[c]}) < MaxPerIp

(* canAccept: a wallet that reconnects takes the place of its own session. *)
CanAccept(c) ==
  LET others == Live \ {sessions[IdOf[c]]}
  IN  /\ Cardinality(others) < MaxSessions
      /\ Cardinality({d \in others : IpOf[d] = IpOf[c]}) < MaxPerIp

-----------------------------------------------------------------------------
(* Mutant of Fail: resets the slot to the null of another field.           *)
FailWithWrongNull(c) ==
  /\ request' = [r \in Requests |-> IF r = pending[c] THEN "failed" ELSE request[r]]
  /\ pending' = [pending EXCEPT ![c] = NoConn]

(* The pending request of Session c, if it has one, is over.               *)
Fail(c) ==
  /\ request' = [r \in Requests |-> IF r = pending[c] THEN "failed" ELSE request[r]]
  /\ pending' = [pending EXCEPT ![c] = NoRequest]

(* destroy(id), of whichever Session the map holds; of none, nothing.      *)
Destroy(id) ==
  IF sessions[id] = NoConn
  THEN UNCHANGED <<sessions, pending, request>>
  ELSE /\ Fail(sessions[id])
       /\ sessions' = [sessions EXCEPT ![id] = NoConn]

(* Mutant of Open: the new Session is put over the old one.                *)
OpenOver(c) ==
  LET id == IdOf[c] IN
  /\ ~down
  /\ stream[c] = "new"
  /\ CanAccept(c)
  /\ sessions' = [sessions EXCEPT ![id] = c]
  /\ newest' = [newest EXCEPT ![id] = c]
  /\ stream' = [stream EXCEPT ![c] = "open"]
  /\ UNCHANGED <<down, payer, prompts>>

(* POST /lnurl/session. The Session replaced is destroyed, its stream not  *)
(* ended.                                                                  *)
Open(c) ==
  LET id == IdOf[c] IN
  /\ ~down
  /\ stream[c] = "new"
  /\ CanAccept(c)
  /\ IF sessions[id] = NoConn THEN UNCHANGED <<pending, request>> ELSE Fail(sessions[id])
  /\ sessions' = [sessions EXCEPT ![id] = c]
  /\ newest' = [newest EXCEPT ![id] = c]
  /\ stream' = [stream EXCEPT ![c] = "open"]
  /\ UNCHANGED <<down, askedOf, answer, prompts>>

(* External: the wallet ends its stream, or the network does.              *)
Drop(c) ==
  /\ stream[c] = "open"
  /\ stream' = [stream EXCEPT ![c] = "closing"]
  /\ UNCHANGED <<down, sessions, newest, payer, prompts>>

(* Mutant of CloseEvent: a Session nobody waits on is kept for its wallet. *)
CloseEventKeeps(c) ==
  /\ stream[c] = "closing"
  /\ stream' = [stream EXCEPT ![c] = "closed"]
  /\ IF pending[c] = NoRequest THEN UNCHANGED <<sessions, pending, request>>
                               ELSE Destroy(IdOf[c])
  /\ UNCHANGED <<down, newest, askedOf, answer, prompts>>

(* The listener create left on the stream.                                 *)
CloseEvent(c) ==
  /\ stream[c] = "closing"
  /\ stream' = [stream EXCEPT ![c] = "closed"]
  /\ Destroy(IdOf[c])
  /\ UNCHANGED <<down, newest, askedOf, answer, prompts>>

(* GET .../callback of a live session: one payer waits, others are refused.*)
Ask(r, id) ==
  LET c == sessions[id] IN
  /\ ~down
  /\ request[r] = "none" /\ c # NoConn
  /\ \/ /\ pending[c] # NoRequest
        /\ request' = [request EXCEPT ![r] = "failed"]
        /\ UNCHANGED <<pending, askedOf, prompts>>
     \/ /\ pending[c] = NoRequest
        /\ pending' = [pending EXCEPT ![c] = r]
        /\ request' = [request EXCEPT ![r] = "waiting"]
        /\ askedOf' = [askedOf EXCEPT ![r] = c]
        /\ prompts' = IF stream[c] = "open" THEN prompts \cup {r} ELSE prompts
  /\ UNCHANGED <<down, conns, answer>>

(* Mutant of Timeout: the answer does not clear the timer.                 *)
TimeoutAnyway(r) ==
  /\ request[r] # "none"
  /\ request' = [request EXCEPT ![r] = "failed"]
  /\ pending' = [pending EXCEPT ![askedOf[r]] = NoRequest]
  /\ UNCHANGED <<down, conns, askedOf, answer, prompts>>

(* requestInvoice's timer holds on to the Session it was set for.          *)
Timeout(r) ==
  /\ request[r] = "waiting"
  /\ request' = [request EXCEPT ![r] = "failed"]
  /\ pending' = [pending EXCEPT ![askedOf[r]] = NoRequest]
  /\ UNCHANGED <<down, conns, askedOf, answer, prompts>>

Awaited(c) == c # NoConn /\ pending[c] # NoRequest

(* POST .../invoice: the wallet's answer to prompt q names only the        *)
(* session; it goes to the request pending there, if any.                  *)
Answer(q) ==
  LET c == sessions[IdOf[askedOf[q]]] IN
  /\ q \in prompts
  /\ prompts' = prompts \ {q}
  /\ \/ /\ Awaited(c)
        /\ request' = [request EXCEPT ![pending[c]] = "answered"]
        /\ answer' = [answer EXCEPT ![pending[c]] = q]
        /\ pending' = [pending EXCEPT ![c] = NoRequest]
     \/ /\ ~Awaited(c)
        /\ UNCHANGED <<request, answer, pending>>
  /\ UNCHANGED <<down, conns, askedOf>>

(* The same with an error in place of the invoice.                         *)
Reject(q) ==
  LET c == sessions[IdOf[askedOf[q]]] IN
  /\ q \in prompts
  /\ prompts' = prompts \ {q}
  /\ IF c = NoConn THEN UNCHANGED <<request, pending>> ELSE Fail(c)
  /\ UNCHANGED <<down, conns, askedOf, answer>>

(* disconnect, from the admin API: destroyed, and its stream ended.        *)
Disconnect(id) ==
  LET c == sessions[id] IN
  /\ c # NoConn
  /\ Destroy(id)
  /\ stream' = [stream EXCEPT ![c] = IF @ = "open" THEN "closing" ELSE @]
  /\ UNCHANGED <<down, newest, askedOf, answer, prompts>>

(* shutdown: disconnect for every session, with the listeners closing.     *)
Shutdown ==
  /\ ~down
  /\ down' = TRUE
  /\ sessions' = [id \in Ids |-> NoConn]
  /\ stream' = [c \in Conns |->
       IF c \in Live /\ stream[c] = "open" THEN "closing" ELSE stream[c]]
  /\ request' = [r \in Requests |->
       IF \E c \in Live : pending[c] = r THEN "failed" ELSE request[r]]
  /\ pending' = [c \in Conns |-> IF c \in Live THEN NoRequest ELSE pending[c]]
  /\ UNCHANGED <<newest, askedOf, answer, prompts>>

Init ==
  /\ down = FALSE
  /\ stream = [c \in Conns |-> "new"]
  /\ sessions = [id \in Ids |-> NoConn]
  /\ newest = [id \in Ids |-> NoConn]
  /\ pending = [c \in Conns |-> NoRequest]
  /\ request = [r \in Requests |-> "none"]
  /\ askedOf = [r \in Requests |-> NoConn]
  /\ prompts = {}
  /\ answer = [r \in Requests |-> NoRequest]

Next ==
  \/ \E c \in Conns : Open(c) \/ Drop(c) \/ CloseEvent(c)
  \/ \E r \in Requests : Timeout(r) \/ Answer(r) \/ Reject(r) \/ \E id \in Ids : Ask(r, id)
  \/ \E id \in Ids : Disconnect(id)
  \/ Shutdown

Spec == Init /\ [][Next]_vars

-----------------------------------------------------------------------------

(* No payer waits on a Session that is gone or has forgotten it: every way *)
(* a Session ends, or is replaced by the wallet reconnecting, fails its    *)
(* payer at once, and a Session waits for nobody who has given up.         *)
WaitingIsPending ==
  /\ \A r \in Requests :
       request[r] = "waiting" => askedOf[r] \in Live /\ pending[askedOf[r]] = r
  /\ \A c \in Conns : pending[c] # NoRequest => request[pending[c]] = "waiting"

(* A Session whose stream has closed is off the map, so it neither counts  *)
(* against the limits nor offers an LNURL that nobody answers.             *)
LiveHasStream == \A c \in Live : stream[c] \in {"open", "closing"}

(* MAX_SESSIONS and the limit per address hold across reconnects, which    *)
(* are let in when the server is full.                                     *)
LimitsHold ==
  /\ Cardinality(Live) <= MaxSessions
  /\ \A ip \in Ips : Cardinality({c \in Live : IpOf[c] = ip}) <= MaxPerIp

(* What a payer was told is not taken back, by an answer that comes after  *)
(* the timeout, a timer that fires after the answer, or a reconnect.       *)
OutcomeIsFinal ==
  [][\A r \in Requests :
       request[r] \in {"answered", "failed"} =>
         request'[r] = request[r] /\ answer'[r] = answer[r]]_vars

(* "Check if a session is still active (SSE connected)": the wallet whose  *)
(* latest stream is open has a session.                                    *)
ConnectedIsActive ==
  \A id \in Ids :
    newest[id] # NoConn /\ stream[newest[id]] = "open" => sessions[id] = newest[id]

(* "Answers or rejects this specific request": a payer is given the        *)
(* invoice that was made for its own request.                              *)
AnswersItsRequest == \A r \in Requests : answer[r] \in {r, NoRequest}
=============================================================================
