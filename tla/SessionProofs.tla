---------------------------- MODULE SessionProofs ----------------------------
(***************************************************************************)
(* Proofs about module Session, for any streams, ids, addresses, requests  *)
(* and limits. None of the invariants of the runs is inductive by itself;  *)
(* what is missing is that the map files a Session under its own id, that  *)
(* a pending request knows the Session it waits on, and that a prompt was  *)
(* made of some Session. At the end, the two claims the runs refute, of    *)
(* behaviours without the race that breaks them.                           *)
(***************************************************************************)
EXTENDS Session, FiniteSetTheorems, TLAPS

FiledById == \A id \in Ids : sessions[id] # NoConn => IdOf[sessions[id]] = id

PendingKnowsSession ==
  \A c \in Conns : pending[c] # NoRequest => askedOf[pending[c]] = c

PromptKnowsSession == \A q \in prompts : askedOf[q] \in Conns

SInv ==
  /\ TypeOK
  /\ WaitingIsPending
  /\ LiveHasStream
  /\ FiledById
  /\ PendingKnowsSession
  /\ PromptKnowsSession

-----------------------------------------------------------------------------
(* Failing the request a Session has pending, taken by itself.             *)

LEMMA FailStep ==
  ASSUME SInv, NEW c \in Conns, Fail(c)
  PROVE  /\ pending' \in [Conns -> Requests \cup {NoRequest}]
         /\ request' \in [Requests -> {"none", "waiting", "answered", "failed"}]
         /\ pending'[c] = NoRequest
         /\ \A d \in Conns : d # c => pending'[d] = pending[d]
         /\ \A d \in Conns : pending'[d] # NoRequest =>
              pending[d] = pending'[d] /\ request'[pending'[d]] = "waiting"
         /\ \A r \in Requests : request'[r] = "waiting" =>
              request[r] = "waiting" /\ askedOf[r] # c /\ pending'[askedOf[r]] = r
         /\ \A r \in Requests : request[r] \in {"answered", "failed"} => request'[r] = request[r]
<1>1. NoRequest \notin Requests
  BY SessionAssumption
<1>2. /\ pending \in [Conns -> Requests \cup {NoRequest}]
      /\ request \in [Requests -> {"none", "waiting", "answered", "failed"}]
  BY DEF SInv, TypeOK
<1>3. \A d \in Conns : pending[d] # NoRequest =>
        request[pending[d]] = "waiting" /\ askedOf[pending[d]] = d
  BY DEF SInv, WaitingIsPending, PendingKnowsSession
<1>4. \A r \in Requests : request[r] = "waiting" =>
        askedOf[r] \in Conns /\ pending[askedOf[r]] = r
  BY DEF SInv, WaitingIsPending, Live
<1> QED
  BY <1>1, <1>2, <1>3, <1>4 DEF Fail

(* destroy, of whatever the map holds under id.                            *)
LEMMA DestroyStep ==
  ASSUME SInv, NEW id \in Ids, Destroy(id)
  PROVE  /\ sessions' = [sessions EXCEPT ![id] = NoConn]
         /\ pending' \in [Conns -> Requests \cup {NoRequest}]
         /\ request' \in [Requests -> {"none", "waiting", "answered", "failed"}]
         /\ \A d \in Conns : pending'[d] # NoRequest =>
              pending[d] = pending'[d] /\ request'[pending'[d]] = "waiting"
         /\ \A r \in Requests : request'[r] = "waiting" =>
              /\ request[r] = "waiting" /\ askedOf[r] # sessions[id]
              /\ pending'[askedOf[r]] = r
         /\ \A r \in Requests : request[r] \in {"answered", "failed"} => request'[r] = request[r]
<1>1. CASE sessions[id] = NoConn
  <2>1. /\ sessions' = sessions /\ pending' = pending /\ request' = request
        /\ sessions \in [Ids -> Conns \cup {NoConn}]
    BY <1>1 DEF Destroy, SInv, TypeOK
  <2>2. \A r \in Requests : request[r] = "waiting" => askedOf[r] # sessions[id]
    BY <1>1, SessionAssumption DEF SInv, WaitingIsPending, Live
  <2> QED
    BY <1>1, <2>1, <2>2 DEF SInv, TypeOK, WaitingIsPending
<1>2. CASE sessions[id] # NoConn
  <2>1. sessions[id] \in Conns /\ Fail(sessions[id])
    BY <1>2 DEF Destroy, SInv, TypeOK
  <2> QED
    BY <1>2, <2>1, FailStep DEF Destroy
<1> QED
  BY <1>1, <1>2

-----------------------------------------------------------------------------

LEMMA InitSInv == Init => SInv
<1> SUFFICES ASSUME Init PROVE SInv
  OBVIOUS
<1>1. TypeOK
  BY DEF Init, TypeOK
<1>2. Live = {}
  BY SessionAssumption DEF Init, Live
<1>3. WaitingIsPending /\ LiveHasStream
  BY <1>2 DEF Init, WaitingIsPending, LiveHasStream
<1>4. FiledById /\ PendingKnowsSession /\ PromptKnowsSession
  BY DEF Init, FiledById, PendingKnowsSession, PromptKnowsSession
<1> QED
  BY <1>1, <1>3, <1>4 DEF SInv

LEMMA OpenKeeps ==
  ASSUME SInv, NEW c \in Conns, Open(c)
  PROVE  SInv'
<1> DEFINE id == IdOf[c]
<1>1. id \in Ids /\ NoConn \notin Conns /\ NoRequest \notin Requests
  BY SessionAssumption
<1>2. /\ sessions' = [sessions EXCEPT ![id] = c]
      /\ newest' = [newest EXCEPT ![id] = c]
      /\ stream' = [stream EXCEPT ![c] = "open"]
      /\ stream[c] = "new"
      /\ UNCHANGED <<down, askedOf, answer, prompts>>
  BY DEF Open
<1>3. /\ pending' \in [Conns -> Requests \cup {NoRequest}]
      /\ request' \in [Requests -> {"none", "waiting", "answered", "failed"}]
      /\ \A d \in Conns : pending'[d] # NoRequest =>
           pending[d] = pending'[d] /\ request'[pending'[d]] = "waiting"
      /\ \A r \in Requests : request'[r] = "waiting" =>
           request[r] = "waiting" /\ askedOf[r] # sessions[id] /\ pending'[askedOf[r]] = r
  <2>1. CASE sessions[id] = NoConn
    BY <2>1, <1>1 DEF Open, SInv, TypeOK, WaitingIsPending, Live
  <2>2. CASE sessions[id] # NoConn
    <3>1. sessions[id] \in Conns /\ Fail(sessions[id])
      BY <2>2, <1>1 DEF Open, SInv, TypeOK
    <3> QED
      BY <3>1, FailStep
  <2> QED
    BY <2>1, <2>2
<1>4. TypeOK'
  BY <1>1, <1>2, <1>3 DEF SInv, TypeOK
<1>5. \A d \in Live : d # sessions[id] => d \in Live'
  BY <1>1, <1>2 DEF Live, SInv, TypeOK
<1>6. WaitingIsPending'
  BY <1>2, <1>3, <1>5 DEF SInv, WaitingIsPending
<1>7. LiveHasStream'
  BY <1>1, <1>2 DEF SInv, TypeOK, LiveHasStream, Live
<1>8. FiledById'
  BY <1>1, <1>2 DEF SInv, TypeOK, FiledById
<1>9. PendingKnowsSession' /\ PromptKnowsSession'
  BY <1>2, <1>3 DEF SInv, PendingKnowsSession, PromptKnowsSession
<1> QED
  BY <1>4, <1>6, <1>7, <1>8, <1>9 DEF SInv

(* What a step that destroys one Session owes: its stream may be ending,   *)
(* as may the stream of one that is off the map already.                   *)
LEMMA DestroyKeeps ==
  ASSUME SInv, NEW id \in Ids, Destroy(id),
         UNCHANGED <<down, newest, askedOf, answer, prompts>>,
         stream' \in [Conns -> {"new", "open", "closing", "closed"}],
         \A d \in Live : IdOf[d] # id => stream'[d] = stream[d]
  PROVE  SInv'
<1>1. NoConn \notin Conns /\ sessions' = [sessions EXCEPT ![id] = NoConn]
  BY SessionAssumption, DestroyStep
<1>2. TypeOK'
  BY <1>1, DestroyStep DEF SInv, TypeOK
<1>3. \A d \in Conns : d \in Live' <=> d \in Live /\ IdOf[d] # id
  BY <1>1, SessionAssumption DEF Live, SInv, TypeOK
<1>4. \A d \in Live : d # sessions[id] => IdOf[d] # id
  BY DEF Live
<1>5. WaitingIsPending'
  BY <1>3, <1>4, DestroyStep DEF SInv, WaitingIsPending, Live
<1>6. LiveHasStream'
  BY <1>3 DEF SInv, LiveHasStream, Live
<1>7. FiledById'
  BY <1>1 DEF SInv, TypeOK, FiledById
<1>8. PendingKnowsSession' /\ PromptKnowsSession'
  BY DestroyStep DEF SInv, PendingKnowsSession, PromptKnowsSession
<1> QED
  BY <1>2, <1>5, <1>6, <1>7, <1>8 DEF SInv

LEMMA CloseEventKeepsSInv ==
  ASSUME SInv, NEW c \in Conns, CloseEvent(c)
  PROVE  SInv'
<1>1. /\ IdOf[c] \in Ids /\ Destroy(IdOf[c])
      /\ UNCHANGED <<down, newest, askedOf, answer, prompts>>
  BY SessionAssumption DEF CloseEvent
<1>2. /\ stream' \in [Conns -> {"new", "open", "closing", "closed"}]
      /\ \A d \in Conns : d # c => stream'[d] = stream[d]
  BY DEF CloseEvent, SInv, TypeOK
<1> QED
  BY <1>1, <1>2, DestroyKeeps DEF Live

LEMMA DisconnectKeeps ==
  ASSUME SInv, NEW id \in Ids, Disconnect(id)
  PROVE  SInv'
<1>1. /\ Destroy(id)
      /\ UNCHANGED <<down, newest, askedOf, answer, prompts>>
      /\ sessions[id] \in Conns /\ IdOf[sessions[id]] = id
  BY DEF Disconnect, SInv, TypeOK, FiledById
<1>2. /\ stream' \in [Conns -> {"new", "open", "closing", "closed"}]
      /\ \A d \in Conns : d # sessions[id] => stream'[d] = stream[d]
  BY <1>1 DEF Disconnect, SInv, TypeOK
<1> QED
  BY <1>1, <1>2, DestroyKeeps DEF Live

LEMMA DropKeeps ==
  ASSUME SInv, NEW c \in Conns, Drop(c)
  PROVE  SInv'
BY DEF SInv, Drop, TypeOK, payer, WaitingIsPending, LiveHasStream, Live, FiledById,
       PendingKnowsSession, PromptKnowsSession

LEMMA AskKeeps ==
  ASSUME SInv, NEW r \in Requests, NEW id \in Ids, Ask(r, id)
  PROVE  SInv'
<1> DEFINE c == sessions[id]
<1>1. /\ NoRequest \notin Requests /\ c \in Conns /\ IdOf[c] = id /\ request[r] = "none"
      /\ UNCHANGED <<down, stream, sessions, newest, answer>>
  BY SessionAssumption DEF Ask, conns, SInv, TypeOK, FiledById
<1>2. c \in Live
  BY <1>1 DEF Live
<1>3. CASE pending[c] # NoRequest
  <2>1. request' = [request EXCEPT ![r] = "failed"] /\ UNCHANGED <<pending, askedOf, prompts>>
    BY <1>3 DEF Ask
  <2> QED
    BY <1>1, <2>1
       DEF SInv, TypeOK, WaitingIsPending, LiveHasStream, Live, FiledById,
           PendingKnowsSession, PromptKnowsSession
<1>4. CASE pending[c] = NoRequest
  <2>1. /\ pending' = [pending EXCEPT ![c] = r]
        /\ request' = [request EXCEPT ![r] = "waiting"]
        /\ askedOf' = [askedOf EXCEPT ![r] = c]
        /\ prompts' \in {prompts, prompts \cup {r}}
    BY <1>4 DEF Ask
  <2>2. TypeOK'
    BY <1>1, <2>1 DEF SInv, TypeOK
  <2>3. \A d \in Conns : pending[d] # r
    BY <1>1 DEF SInv, WaitingIsPending
  <2>4. \A q \in Requests : q # r /\ request[q] = "waiting" => askedOf[q] # c
    BY <1>1, <1>4 DEF SInv, WaitingIsPending
  <2>5. WaitingIsPending'
    BY <1>1, <1>2, <2>1, <2>3, <2>4 DEF SInv, TypeOK, WaitingIsPending, Live
  <2>6. LiveHasStream' /\ FiledById'
    BY <1>1 DEF SInv, LiveHasStream, Live, FiledById
  <2>7. PendingKnowsSession' /\ PromptKnowsSession'
    BY <1>1, <2>1, <2>3 DEF SInv, TypeOK, PendingKnowsSession, PromptKnowsSession
  <2> QED
    BY <2>2, <2>5, <2>6, <2>7 DEF SInv
<1> QED
  BY <1>3, <1>4

(* A pending request is over: by its timer, by an answer or by an error.   *)
LEMMA OverKeeps ==
  ASSUME SInv, NEW c \in Conns, pending[c] # NoRequest,
         NEW outcome \in {"answered", "failed"},
         request' = [request EXCEPT ![pending[c]] = outcome],
         pending' = [pending EXCEPT ![c] = NoRequest],
         answer' \in [Requests -> Requests \cup {NoRequest}],
         prompts' \subseteq prompts,
         UNCHANGED <<down, conns, askedOf>>
  PROVE  SInv'
<1>1. /\ NoRequest \notin Requests /\ pending[c] \in Requests
      /\ UNCHANGED <<down, stream, sessions, newest, askedOf>>
  BY SessionAssumption DEF SInv, TypeOK, conns
<1>2. TypeOK'
  BY <1>1 DEF SInv, TypeOK
<1>3. \A d \in Conns : d # c /\ pending[d] # NoRequest => pending[d] # pending[c]
  BY DEF SInv, PendingKnowsSession
<1>4. WaitingIsPending'
  BY <1>1, <1>3 DEF SInv, TypeOK, WaitingIsPending, PendingKnowsSession, Live
<1>5. LiveHasStream' /\ FiledById'
  BY <1>1 DEF SInv, LiveHasStream, Live, FiledById
<1>6. PendingKnowsSession' /\ PromptKnowsSession'
  BY <1>1 DEF SInv, TypeOK, PendingKnowsSession, PromptKnowsSession
<1> QED
  BY <1>2, <1>4, <1>5, <1>6 DEF SInv

LEMMA TimeoutKeeps ==
  ASSUME SInv, NEW r \in Requests, Timeout(r)
  PROVE  SInv'
<1>1. askedOf[r] \in Conns /\ pending[askedOf[r]] = r /\ r # NoRequest
  BY SessionAssumption DEF Timeout, SInv, WaitingIsPending, Live
<1>2. answer' \in [Requests -> Requests \cup {NoRequest}]
  BY DEF Timeout, SInv, TypeOK
<1> QED
  BY <1>1, <1>2, OverKeeps DEF Timeout

(* An answer or an error that finds nothing pending changes nothing else.  *)
LEMMA UnheardKeeps ==
  ASSUME SInv, prompts' \subseteq prompts, UNCHANGED <<down, conns, payer>>
  PROVE  SInv'
BY DEF SInv, TypeOK, conns, payer, WaitingIsPending, LiveHasStream, Live, FiledById,
       PendingKnowsSession, PromptKnowsSession

LEMMA AnswerKeeps ==
  ASSUME SInv, NEW q \in Requests, Answer(q)
  PROVE  SInv'
<1> DEFINE c == sessions[IdOf[askedOf[q]]]
<1>1. prompts' \subseteq prompts /\ UNCHANGED <<down, conns, askedOf>>
  BY DEF Answer
<1>2. c \in Conns \cup {NoConn}
  BY SessionAssumption DEF Answer, SInv, TypeOK, PromptKnowsSession
<1>3. CASE Awaited(c)
  <2>1. /\ c \in Conns /\ pending[c] # NoRequest
        /\ request' = [request EXCEPT ![pending[c]] = "answered"]
        /\ answer' = [answer EXCEPT ![pending[c]] = q]
        /\ pending' = [pending EXCEPT ![c] = NoRequest]
    BY <1>2, <1>3 DEF Answer, Awaited
  <2>2. answer' \in [Requests -> Requests \cup {NoRequest}]
    BY <2>1 DEF SInv, TypeOK
  <2> QED
    BY <1>1, <2>1, <2>2, OverKeeps
<1>4. CASE ~Awaited(c)
  BY <1>1, <1>4, UnheardKeeps DEF Answer, payer
<1> QED
  BY <1>3, <1>4

LEMMA RejectKeeps ==
  ASSUME SInv, NEW q \in Requests, Reject(q)
  PROVE  SInv'
<1> DEFINE c == sessions[IdOf[askedOf[q]]]
<1>1. prompts' \subseteq prompts /\ UNCHANGED <<down, conns, askedOf, answer>>
  BY DEF Reject
<1>2. c \in Conns \cup {NoConn}
  BY SessionAssumption DEF Reject, SInv, TypeOK, PromptKnowsSession
<1>3. CASE c = NoConn \/ pending[c] = NoRequest
  <2>1. request' = request /\ pending' = pending
    BY <1>2, <1>3, SessionAssumption DEF Reject, Fail, SInv, TypeOK
  <2> QED
    BY <1>1, <2>1, UnheardKeeps DEF payer
<1>4. CASE c # NoConn /\ pending[c] # NoRequest
  <2>1. /\ c \in Conns /\ pending[c] # NoRequest
        /\ request' = [request EXCEPT ![pending[c]] = "failed"]
        /\ pending' = [pending EXCEPT ![c] = NoRequest]
    BY <1>2, <1>4 DEF Reject, Fail, SInv, TypeOK
  <2>2. answer' \in [Requests -> Requests \cup {NoRequest}]
    BY <1>1 DEF SInv, TypeOK
  <2> QED
    BY <1>1, <2>1, <2>2, OverKeeps
<1> QED
  BY <1>3, <1>4

LEMMA ShutdownKeeps ==
  ASSUME SInv, Shutdown
  PROVE  SInv'
<1>1. /\ NoConn \notin Conns /\ NoRequest \notin Requests
      /\ UNCHANGED <<newest, askedOf, answer, prompts>>
      /\ down' = TRUE
      /\ sessions' = [id \in Ids |-> NoConn]
  BY SessionAssumption DEF Shutdown
<1>2. /\ stream' \in [Conns -> {"new", "open", "closing", "closed"}]
      /\ request' \in [Requests -> {"none", "waiting", "answered", "failed"}]
      /\ pending' \in [Conns -> Requests \cup {NoRequest}]
  BY DEF Shutdown, SInv, TypeOK
<1>3. TypeOK'
  BY <1>1, <1>2 DEF SInv, TypeOK
<1>4. Live' = {}
  BY <1>1, SessionAssumption DEF Live
<1>5. \A r \in Requests : request'[r] # "waiting"
  BY DEF Shutdown, SInv, TypeOK, WaitingIsPending
<1>6. \A c \in Conns : pending'[c] = NoRequest
  <2>1. \A c \in Conns : c \notin Live => pending[c] = NoRequest
    BY DEF SInv, WaitingIsPending, PendingKnowsSession, TypeOK
  <2> QED
    BY <2>1 DEF Shutdown
<1>7. WaitingIsPending'
  BY <1>5, <1>6 DEF WaitingIsPending
<1>8. LiveHasStream'
  BY <1>4 DEF LiveHasStream
<1>9. FiledById' /\ PendingKnowsSession' /\ PromptKnowsSession'
  BY <1>1, <1>6 DEF SInv, FiledById, PendingKnowsSession, PromptKnowsSession
<1> QED
  BY <1>3, <1>7, <1>8, <1>9 DEF SInv

LEMMA StutterKeeps == ASSUME SInv, UNCHANGED vars PROVE SInv'
BY DEF vars, conns, payer, SInv, TypeOK, WaitingIsPending, LiveHasStream, Live, FiledById,
       PendingKnowsSession, PromptKnowsSession

LEMMA StepKeeps == SInv /\ [Next]_vars => SInv'
<1> SUFFICES ASSUME SInv, [Next]_vars PROVE SInv'
  OBVIOUS
<1>1. ASSUME NEW c \in Conns, Open(c) PROVE SInv'
  BY <1>1, OpenKeeps
<1>2. ASSUME NEW c \in Conns, Drop(c) PROVE SInv'
  BY <1>2, DropKeeps
<1>3. ASSUME NEW c \in Conns, CloseEvent(c) PROVE SInv'
  BY <1>3, CloseEventKeepsSInv
<1>4. ASSUME NEW r \in Requests, Timeout(r) PROVE SInv'
  BY <1>4, TimeoutKeeps
<1>5. ASSUME NEW r \in Requests, Answer(r) PROVE SInv'
  BY <1>5, AnswerKeeps
<1>6. ASSUME NEW r \in Requests, Reject(r) PROVE SInv'
  BY <1>6, RejectKeeps
<1>7. ASSUME NEW r \in Requests, NEW id \in Ids, Ask(r, id) PROVE SInv'
  BY <1>7, AskKeeps
<1>8. ASSUME NEW id \in Ids, Disconnect(id) PROVE SInv'
  BY <1>8, DisconnectKeeps
<1>9. CASE Shutdown
  BY <1>9, ShutdownKeeps
<1>10. CASE UNCHANGED vars
  BY <1>10, StutterKeeps
<1> QED
  BY <1>1, <1>2, <1>3, <1>4, <1>5, <1>6, <1>7, <1>8, <1>9, <1>10 DEF Next

LEMMA AlwaysSInv == Spec => []SInv
<1> QED
  BY InitSInv, StepKeeps, PTL DEF Spec

(* The session table is well typed in every reachable state: for every     *)
(* schedule of connects, closes, timers and answers.                       *)
THEOREM SessionTypeCorrect == Spec => []TypeOK
<1>1. SInv => TypeOK
  BY DEF SInv
<1> QED
  BY <1>1, AlwaysSInv, PTL

(* No payer is left waiting on a Session that ended, was replaced or has   *)
(* forgotten it (SessionManager's destroy, create, requestInvoice).        *)
THEOREM NobodyForgotten == Spec => []WaitingIsPending
<1>1. SInv => WaitingIsPending
  BY DEF SInv
<1> QED
  BY <1>1, AlwaysSInv, PTL

(* A Session is off the map by the time its stream's close event has been  *)
(* handled, whatever reconnects and disconnects came before it.            *)
THEOREM NoGhostSessions == Spec => []LiveHasStream
<1>1. SInv => LiveHasStream
  BY DEF SInv
<1> QED
  BY <1>1, AlwaysSInv, PTL

-----------------------------------------------------------------------------
(* Outcomes.                                                               *)

LEMMA StepKeepsOutcomes ==
  ASSUME SInv, [Next]_vars, NEW r \in Requests, request[r] \in {"answered", "failed"}
  PROVE  request'[r] = request[r] /\ answer'[r] = answer[r]
<1>1. \A c \in Conns : pending[c] # r
  BY SessionAssumption DEF SInv, WaitingIsPending
<1>2. request \in [Requests -> {"none", "waiting", "answered", "failed"}]
      /\ answer \in [Requests -> Requests \cup {NoRequest}]
      /\ sessions \in [Ids -> Conns \cup {NoConn}]
      /\ pending \in [Conns -> Requests \cup {NoRequest}]
      /\ IdOf \in [Conns -> Ids]
  BY SessionAssumption DEF SInv, TypeOK
<1>3. ASSUME NEW c \in Conns, Fail(c) PROVE request'[r] = request[r]
  BY <1>1, <1>3 DEF Fail
<1>4. ASSUME NEW id \in Ids, Destroy(id) PROVE request'[r] = request[r]
  BY <1>2, <1>3, <1>4 DEF Destroy
<1>5. ASSUME NEW c \in Conns, Open(c) \/ Drop(c) \/ CloseEvent(c)
      PROVE  request'[r] = request[r] /\ answer'[r] = answer[r]
  BY <1>2, <1>3, <1>4, <1>5 DEF Open, Drop, CloseEvent, payer
<1>6. ASSUME NEW q \in Requests, Timeout(q)
      PROVE  request'[r] = request[r] /\ answer'[r] = answer[r]
  BY <1>2, <1>6 DEF Timeout
<1>7. ASSUME NEW q \in Requests, Answer(q)
      PROVE  request'[r] = request[r] /\ answer'[r] = answer[r]
  <2>1. sessions[IdOf[askedOf[q]]] \in Conns \cup {NoConn}
    BY <1>2, <1>7 DEF Answer, SInv, PromptKnowsSession
  <2> QED
    BY <1>1, <1>2, <1>7, <2>1 DEF Answer, Awaited
<1>8. ASSUME NEW q \in Requests, Reject(q)
      PROVE  request'[r] = request[r] /\ answer'[r] = answer[r]
  <2>1. sessions[IdOf[askedOf[q]]] \in Conns \cup {NoConn}
    BY <1>2, <1>8 DEF Reject, SInv, PromptKnowsSession
  <2> QED
    BY <1>2, <1>3, <1>8, <2>1 DEF Reject
<1>9. ASSUME NEW q \in Requests, NEW id \in Ids, Ask(q, id)
      PROVE  request'[r] = request[r] /\ answer'[r] = answer[r]
  BY <1>2, <1>9 DEF Ask
<1>10. ASSUME NEW id \in Ids, Disconnect(id)
       PROVE  request'[r] = request[r] /\ answer'[r] = answer[r]
  BY <1>4, <1>10 DEF Disconnect
<1>11. CASE Shutdown
  BY <1>1, <1>2, <1>11 DEF Shutdown, Live
<1>12. CASE UNCHANGED vars
  BY <1>12 DEF vars, payer
<1> QED
  BY <1>5, <1>6, <1>7, <1>8, <1>9, <1>10, <1>11, <1>12 DEF Next

(* What a payer was told is never taken back: a timer and an answer, an    *)
(* answer and a disconnect settle it once between them.                    *)
THEOREM OutcomesAreFinal == Spec => OutcomeIsFinal
<1>1. SInv /\ [Next]_vars =>
        [\A r \in Requests : request[r] \in {"answered", "failed"} =>
           request'[r] = request[r] /\ answer'[r] = answer[r]]_vars
  BY StepKeepsOutcomes
<1> QED
  BY <1>1, AlwaysSInv, PTL DEF Spec, OutcomeIsFinal

-----------------------------------------------------------------------------
(* Limits.                                                                 *)

From(ip, cs) == {c \in cs : IpOf[c] = ip}

LEMMA FewerIsFewer ==
  ASSUME NEW S \in SUBSET Conns, NEW T \in SUBSET S
  PROVE  /\ Cardinality(T) <= Cardinality(S)
         /\ \A ip : Cardinality(From(ip, T)) <= Cardinality(From(ip, S))
<1>1. IsFiniteSet(S)
  BY SessionAssumption, FS_Subset
<1>2. \A ip : From(ip, T) \subseteq From(ip, S) /\ IsFiniteSet(From(ip, S))
  BY <1>1, FS_Subset DEF From
<1> QED
  BY <1>1, <1>2, FS_Subset

LEMMA CountIsNat == \A S \in SUBSET Conns : Cardinality(S) \in Nat
BY SessionAssumption, FS_Subset, FS_CardinalityType

LEMMA OneMore ==
  ASSUME NEW S \in SUBSET Conns, NEW c \in Conns
  PROVE  /\ Cardinality(S) \in Nat
         /\ Cardinality(S \cup {c}) <= Cardinality(S) + 1
<1>1. IsFiniteSet(S)
  BY SessionAssumption, FS_Subset
<1>2. Cardinality(S) \in Nat
  BY <1>1, FS_CardinalityType
<1>3. Cardinality(S \cup {c}) = IF c \in S THEN Cardinality(S) ELSE Cardinality(S) + 1
  BY <1>1, FS_AddElement
<1> QED
  BY <1>2, <1>3

(* Every step but a connect leaves no more Sessions than there were.       *)
LEMMA OthersAddNone ==
  ASSUME SInv, [Next]_vars
  PROVE  Live' \subseteq Live \/ \E c \in Conns : Open(c)
<1>1. ASSUME sessions' = sessions PROVE Live' \subseteq Live
  BY <1>1 DEF Live
<1>2. ASSUME NEW id \in Ids, Destroy(id) PROVE Live' \subseteq Live
  BY <1>2, SessionAssumption DEF Destroy, Live, SInv, TypeOK
<1>3. ASSUME NEW c \in Conns, Drop(c) \/ CloseEvent(c) PROVE Live' \subseteq Live
  BY <1>1, <1>2, <1>3, SessionAssumption DEF Drop, CloseEvent
<1>4. ASSUME NEW r \in Requests, Timeout(r) \/ Answer(r) \/ Reject(r) \/ \E id \in Ids : Ask(r, id)
      PROVE  Live' \subseteq Live
  BY <1>1, <1>4 DEF Timeout, Answer, Reject, Ask, conns
<1>5. ASSUME NEW id \in Ids, Disconnect(id) PROVE Live' \subseteq Live
  BY <1>2, <1>5 DEF Disconnect
<1>6. CASE Shutdown
  BY <1>6, SessionAssumption DEF Shutdown, Live
<1>7. CASE UNCHANGED vars
  BY <1>1, <1>7 DEF vars, conns
<1> QED
  BY <1>3, <1>4, <1>5, <1>6, <1>7 DEF Next

LEMMA OpenWithinLimits ==
  ASSUME SInv, LimitsHold, NEW c \in Conns, Open(c)
  PROVE  LimitsHold'
<1> DEFINE others == Live \ {sessions[IdOf[c]]}
<1>1. Live' \subseteq others \cup {c}
  BY SessionAssumption DEF Open, Live, SInv, TypeOK, FiledById
<1>2. /\ others \in SUBSET Conns
      /\ Cardinality(others) < MaxSessions
      /\ Cardinality(From(IpOf[c], others)) < MaxPerIp
      /\ MaxSessions \in Nat /\ MaxPerIp \in Nat
  BY SessionAssumption DEF Open, CanAccept, Live, From
<1>3. Cardinality(others \cup {c}) <= MaxSessions
  BY <1>2, OneMore
<1>4. ASSUME NEW ip \in Ips PROVE Cardinality(From(ip, others \cup {c})) <= MaxPerIp
  <2>1. From(ip, others) \in SUBSET Conns
    BY <1>2 DEF From
  <2>2. CASE ip = IpOf[c]
    <3>1. From(ip, others \cup {c}) = From(ip, others) \cup {c}
      BY <2>2 DEF From
    <3>2. /\ Cardinality(From(ip, others)) \in Nat
          /\ Cardinality(From(ip, others) \cup {c}) <= Cardinality(From(ip, others)) + 1
      BY <2>1, OneMore
    <3>3. From(ip, others) \cup {c} \in SUBSET Conns
      BY <2>1
    <3>4. Cardinality(From(ip, others) \cup {c}) \in Nat
      BY <3>3, CountIsNat
    <3>5. Cardinality(From(ip, others)) < MaxPerIp
      BY <1>2, <2>2
    <3>6. Cardinality(From(ip, others) \cup {c}) <= MaxPerIp
      BY <3>2, <3>4, <3>5, SessionAssumption
    <3> QED
      BY <3>1, <3>6
  <2>3. CASE ip # IpOf[c]
    <3>1. From(ip, others \cup {c}) = From(ip, others)
      BY <2>3 DEF From
    <3>2. Live \in SUBSET Conns /\ others \in SUBSET Live
      BY DEF Live
    <3>3. Cardinality(From(ip, others)) <= Cardinality(From(ip, Live))
      BY <3>2, FewerIsFewer
    <3>4. Cardinality(From(ip, Live)) <= MaxPerIp
      BY DEF LimitsHold, From
    <3>5. Cardinality(From(ip, others)) \in Nat /\ Cardinality(From(ip, Live)) \in Nat
      <4>1. From(ip, Live) \in SUBSET Conns
        BY DEF Live, From
      <4> QED
        BY <2>1, <4>1, CountIsNat
    <3> QED
      BY <1>2, <3>1, <3>3, <3>4, <3>5
  <2> QED
    BY <2>2, <2>3
<1>5. others \cup {c} \in SUBSET Conns
  BY <1>2
<1>6. /\ Cardinality(Live') <= Cardinality(others \cup {c})
      /\ \A ip : Cardinality(From(ip, Live')) <= Cardinality(From(ip, others \cup {c}))
  BY <1>1, <1>5, FewerIsFewer
<1>7. /\ Cardinality(Live') \in Nat /\ Cardinality(others \cup {c}) \in Nat
      /\ \A ip : Cardinality(From(ip, Live')) \in Nat /\ Cardinality(From(ip, others \cup {c})) \in Nat
  <2>1. /\ Live' \in SUBSET Conns
        /\ \A ip : From(ip, Live') \in SUBSET Conns /\ From(ip, others \cup {c}) \in SUBSET Conns
    BY <1>1, <1>5 DEF From
  <2> QED
    BY <1>5, <2>1, CountIsNat
<1>8. /\ Cardinality(Live') <= MaxSessions
      /\ \A ip \in Ips : Cardinality(From(ip, Live')) <= MaxPerIp
  BY <1>2, <1>3, <1>4, <1>6, <1>7
<1> QED
  BY <1>8 DEF LimitsHold, From

(* MAX_SESSIONS and the limit per address are never exceeded, although a   *)
(* wallet that reconnects is let in when the server is full.               *)
THEOREM LimitsRespected == Spec => []LimitsHold
<1>1. Init => LimitsHold
  <2> SUFFICES ASSUME Init PROVE LimitsHold
    OBVIOUS
  <2>1. Live = {} /\ \A ip : {c \in Live : IpOf[c] = ip} = {}
    BY SessionAssumption DEF Init, Live
  <2> QED
    BY <2>1, FS_EmptySet, SessionAssumption DEF LimitsHold
<1>2. SInv /\ LimitsHold /\ [Next]_vars => LimitsHold'
  <2> SUFFICES ASSUME SInv, LimitsHold, [Next]_vars PROVE LimitsHold'
    OBVIOUS
  <2>1. CASE Live' \subseteq Live
    <3>1. Live \in SUBSET Conns /\ Live' \in SUBSET Live
      BY <2>1 DEF Live
    <3>2. /\ Cardinality(Live') <= Cardinality(Live)
          /\ \A ip : Cardinality(From(ip, Live')) <= Cardinality(From(ip, Live))
      BY <3>1, FewerIsFewer
    <3>3. /\ Cardinality(Live') \in Nat /\ Cardinality(Live) \in Nat
          /\ \A ip : Cardinality(From(ip, Live')) \in Nat /\ Cardinality(From(ip, Live)) \in Nat
      <4>1. /\ Live' \in SUBSET Conns
            /\ \A ip : From(ip, Live') \in SUBSET Conns /\ From(ip, Live) \in SUBSET Conns
        BY <3>1 DEF From
      <4> QED
        BY <3>1, <4>1, CountIsNat
    <3>4. /\ Cardinality(Live') <= MaxSessions
          /\ \A ip \in Ips : Cardinality(From(ip, Live')) <= MaxPerIp
      <4>1. /\ Cardinality(Live) <= MaxSessions
            /\ \A ip \in Ips : Cardinality(From(ip, Live)) <= MaxPerIp
        BY DEF LimitsHold, From
      <4> QED
        BY <3>2, <3>3, <4>1, SessionAssumption
    <3> QED
      BY <3>4 DEF LimitsHold, From
  <2>2. CASE \E c \in Conns : Open(c)
    BY <2>2, OpenWithinLimits
  <2> QED
    BY <2>1, <2>2, OthersAddNone
<1> QED
  BY <1>1, <1>2, AlwaysSInv, PTL DEF Spec

-----------------------------------------------------------------------------
(* What the two disagreements come to: each needs one thing to overtake    *)
(* another, and with that excluded the claim holds.                        *)

Attached(c) == stream[c] \in {"open", "closing"}

(* A wallet reconnects only once its last stream has closed.               *)
ReconnectsAfterClose ==
  [][\A c \in Conns : Open(c) =>
       \A d \in Conns \ {c} : IdOf[d] = IdOf[c] => ~Attached(d)]_vars

OneAttached ==
  \A c, d \in Conns : IdOf[c] = IdOf[d] /\ Attached(c) /\ Attached(d) => c = d

NewestIsFiled ==
  \A id \in Ids :
    /\ newest[id] # NoConn => IdOf[newest[id]] = id
    /\ sessions[id] \in {NoConn, newest[id]}

AInv == OneAttached /\ NewestIsFiled /\ ConnectedIsActive

(* Every other step ends a Session with its stream, or ends neither.       *)
LEMMA MapStep ==
  ASSUME SInv, [Next]_vars, \A c \in Conns : ~Open(c)
  PROVE  /\ UNCHANGED newest
         /\ \A c \in Conns : Attached(c)' => Attached(c)
         /\ \A id \in Ids : \/ sessions'[id] = sessions[id]
                            \/ sessions'[id] = NoConn /\ stream'[sessions[id]] # "open"
                            \/ \E c \in Conns : CloseEvent(c) /\ IdOf[c] = id
                                                /\ sessions'[id] = NoConn
         /\ \A c \in Conns : stream'[c] = "open" => stream[c] = "open"
<1> USE SessionAssumption DEF SInv, TypeOK, Attached
<1>1. ASSUME NEW c \in Conns, Drop(c)
      PROVE  UNCHANGED <<sessions, newest>> /\ stream' = [stream EXCEPT ![c] = "closing"]
             /\ stream[c] = "open"
  BY <1>1 DEF Drop
<1>2. ASSUME NEW id \in Ids, Destroy(id)
      PROVE  sessions' = [sessions EXCEPT ![id] = NoConn]
  BY <1>2, DestroyStep
<1>3. ASSUME NEW c \in Conns, CloseEvent(c)
      PROVE  /\ UNCHANGED newest /\ stream' = [stream EXCEPT ![c] = "closed"]
             /\ sessions' = [sessions EXCEPT ![IdOf[c]] = NoConn] /\ IdOf[c] \in Ids
  BY <1>2, <1>3 DEF CloseEvent
<1>4. ASSUME NEW id \in Ids, Disconnect(id)
      PROVE  /\ UNCHANGED newest /\ sessions[id] \in Conns
             /\ sessions' = [sessions EXCEPT ![id] = NoConn]
             /\ stream' = [stream EXCEPT ![sessions[id]] = IF @ = "open" THEN "closing" ELSE @]
  BY <1>2, <1>4 DEF Disconnect
<1>5. CASE Shutdown
  <2>1. /\ UNCHANGED newest /\ sessions' = [id \in Ids |-> NoConn]
        /\ stream' = [c \in Conns |->
             IF c \in Live /\ stream[c] = "open" THEN "closing" ELSE stream[c]]
    BY <1>5 DEF Shutdown
  <2>2. \A id \in Ids : sessions[id] # NoConn => sessions[id] \in Live
    BY DEF FiledById, Live
  <2> QED
    BY <2>1, <2>2
<1>6. ASSUME \/ \E r \in Requests : \/ Timeout(r) \/ Answer(r) \/ Reject(r)
                                    \/ \E id \in Ids : Ask(r, id)
             \/ UNCHANGED vars
      PROVE  UNCHANGED <<stream, sessions, newest>>
  BY <1>6 DEF Timeout, Answer, Reject, Ask, conns, vars
<1>7. CASE \E c \in Conns : Drop(c)
  BY <1>1, <1>7
<1>8. CASE \E c \in Conns : CloseEvent(c)
  BY <1>3, <1>8
<1>9. CASE \E id \in Ids : Disconnect(id)
  BY <1>4, <1>9
<1> QED
  BY <1>5, <1>6, <1>7, <1>8, <1>9 DEF Next

LEMMA AttachedStep ==
  ASSUME SInv, AInv, [Next]_vars,
         \A c \in Conns : Open(c) =>
           \A d \in Conns \ {c} : IdOf[d] = IdOf[c] => ~Attached(d)
  PROVE  AInv'
<1> USE SessionAssumption
<1>1. ASSUME NEW c \in Conns, Open(c) PROVE AInv'
  <2>1. /\ sessions' = [sessions EXCEPT ![IdOf[c]] = c]
        /\ newest' = [newest EXCEPT ![IdOf[c]] = c]
        /\ stream' = [stream EXCEPT ![c] = "open"]
    BY <1>1 DEF Open
  <2>2. /\ sessions \in [Ids -> Conns \cup {NoConn}] /\ newest \in [Ids -> Conns \cup {NoConn}]
        /\ stream \in [Conns -> {"new", "open", "closing", "closed"}]
    BY DEF SInv, TypeOK
  <2>3. OneAttached'
    BY <1>1, <2>1, <2>2 DEF AInv, OneAttached, Attached
  <2>4. NewestIsFiled'
    BY <2>1, <2>2 DEF AInv, NewestIsFiled
  <2>5. ConnectedIsActive'
    BY <2>1, <2>2 DEF AInv, NewestIsFiled, ConnectedIsActive
  <2> QED
    BY <2>3, <2>4, <2>5 DEF AInv
<1>2. CASE \A c \in Conns : ~Open(c)
  <2>1. OneAttached'
    BY <1>2, MapStep DEF AInv, OneAttached
  <2>2. NewestIsFiled'
    BY <1>2, MapStep DEF AInv, NewestIsFiled
  <2>3. ASSUME NEW id \in Ids, newest'[id] # NoConn, stream'[newest'[id]] = "open"
        PROVE  sessions'[id] = newest'[id]
    <3> DEFINE n == newest[id]
    <3>1. n \in Conns /\ newest'[id] = n /\ stream'[n] = "open" /\ stream[n] = "open"
      BY <1>2, <2>3, MapStep DEF SInv, TypeOK
    <3>2. sessions[id] = n /\ IdOf[n] = id
      BY <2>3, <3>1 DEF AInv, ConnectedIsActive, NewestIsFiled
    <3>3. ASSUME NEW c \in Conns, CloseEvent(c), IdOf[c] = id PROVE FALSE
      <4>1. stream[c] = "closing" /\ stream'[c] = "closed"
        BY <3>3 DEF CloseEvent, SInv, TypeOK
      <4>2. c = n
        BY <3>1, <3>2, <3>3, <4>1 DEF AInv, OneAttached, Attached
      <4> QED
        BY <3>1, <4>1, <4>2
    <3> QED
      BY <1>2, <3>1, <3>2, <3>3, MapStep
  <2> QED
    BY <2>1, <2>2, <2>3 DEF AInv, ConnectedIsActive
<1> QED
  BY <1>1, <1>2

(* "Check if a session is still active (SSE connected)" is true of every   *)
(* wallet that comes back after its old stream has closed; only a close    *)
(* event that comes after the reconnect takes the new Session down.        *)
THEOREM ConnectedUnlessOvertaken == Spec /\ ReconnectsAfterClose => []ConnectedIsActive
<1>1. Init => AInv
  BY SessionAssumption DEF Init, AInv, OneAttached, NewestIsFiled, ConnectedIsActive, Attached
<1>2. SInv /\ AInv /\ [Next]_vars
        /\ [\A c \in Conns : Open(c) =>
              \A d \in Conns \ {c} : IdOf[d] = IdOf[c] => ~Attached(d)]_vars
      => AInv'
  <2>1. UNCHANGED vars => AInv' = AInv
    BY DEF vars, conns, AInv, OneAttached, NewestIsFiled, ConnectedIsActive, Attached
  <2> QED
    BY <2>1, AttachedStep
<1>3. AInv => ConnectedIsActive
  BY DEF AInv
<1> QED
  BY <1>1, <1>2, <1>3, AlwaysSInv, PTL DEF Spec, ReconnectsAfterClose

(* A payer is let in only once the wallet has dealt with every prompt it   *)
(* was sent for the same id.                                               *)
AsksInTurn ==
  [][\A r \in Requests, id \in Ids :
       Ask(r, id) /\ request'[r] = "waiting" =>
         \A q \in prompts : IdOf[askedOf[q]] # id]_vars

PromptOf(q) == sessions[IdOf[askedOf[q]]]

PromptIsPending == \A q \in prompts : Awaited(PromptOf(q)) => pending[PromptOf(q)] = q

PInv == PromptIsPending /\ AnswersItsRequest

(* Nobody else puts a Session on the map or a request into one.            *)
LEMMA LessStep ==
  ASSUME SInv, [Next]_vars, \A c \in Conns : ~Open(c),
         \A r \in Requests, id \in Ids : ~(Ask(r, id) /\ request'[r] = "waiting")
  PROVE  /\ \A c \in Conns : pending'[c] \in {pending[c], NoRequest}
         /\ \A id \in Ids : sessions'[id] \in {sessions[id], NoConn}
         /\ prompts' \subseteq prompts /\ UNCHANGED askedOf
         /\ UNCHANGED answer \/ \E q \in prompts : Answer(q)
<1> USE SessionAssumption
<1>1. ASSUME NEW id \in Ids, Destroy(id)
      PROVE  /\ \A c \in Conns : pending'[c] \in {pending[c], NoRequest}
             /\ \A i \in Ids : sessions'[i] \in {sessions[i], NoConn}
  BY <1>1 DEF Destroy, Fail, SInv, TypeOK
<1>2. CASE \E c \in Conns : CloseEvent(c)
  BY <1>1, <1>2 DEF CloseEvent
<1>3. CASE \E id \in Ids : Disconnect(id)
  BY <1>1, <1>3 DEF Disconnect
<1>4. CASE \/ \E c \in Conns : Drop(c)
           \/ \E r \in Requests : Timeout(r)
           \/ Shutdown \/ UNCHANGED vars
  BY <1>4 DEF Drop, Timeout, Shutdown, conns, payer, vars, SInv, TypeOK
<1>5. ASSUME NEW q \in Requests, Answer(q) \/ Reject(q)
      PROVE  /\ \A c \in Conns : pending'[c] \in {pending[c], NoRequest}
             /\ UNCHANGED <<sessions, askedOf>> /\ prompts' \subseteq prompts /\ q \in prompts
             /\ Reject(q) => UNCHANGED answer
  BY <1>5 DEF Answer, Reject, Fail, conns, SInv, TypeOK
<1>6. ASSUME NEW r \in Requests, NEW id \in Ids, Ask(r, id)
      PROVE  UNCHANGED <<pending, sessions, prompts, askedOf, answer>>
  <2>1. request'[r] # "waiting"
    BY <1>6
  <2>2. pending[sessions[id]] # NoRequest
    BY <1>6, <2>1 DEF Ask, SInv, TypeOK
  <2> QED
    BY <1>6, <2>2 DEF Ask, conns
<1>7. CASE \E r \in Requests : Answer(r) \/ Reject(r)
  BY <1>5, <1>7
<1>8. CASE \E r \in Requests, id \in Ids : Ask(r, id)
  BY <1>6, <1>8
<1> QED
  BY <1>2, <1>3, <1>4, <1>7, <1>8 DEF Next

LEMMA PromptStep ==
  ASSUME SInv, PInv, [Next]_vars,
         \A r \in Requests, id \in Ids :
           Ask(r, id) /\ request'[r] = "waiting" => \A q \in prompts : IdOf[askedOf[q]] # id
  PROVE  PInv'
<1> USE SessionAssumption
<1>1. ASSUME NEW c \in Conns, Open(c) PROVE PInv'
  <2> DEFINE id == IdOf[c]
  <2>1. UNCHANGED <<askedOf, answer, prompts>> /\ id \in Ids
    BY <1>1 DEF Open
  <2>2. sessions' = [sessions EXCEPT ![id] = c]
    BY <1>1 DEF Open
  <2>3. pending[c] = NoRequest
    BY <1>1 DEF Open, SInv, TypeOK, WaitingIsPending, PendingKnowsSession, LiveHasStream
  <2>4. \A d \in Conns : pending'[d] \in {pending[d], NoRequest}
    BY <1>1 DEF Open, Fail, SInv, TypeOK
  <2>5. ASSUME NEW q \in prompts, Awaited(PromptOf(q))'
        PROVE  pending'[PromptOf(q)'] = q
    <3>1. IdOf[askedOf[q]] # id
      BY <2>1, <2>2, <2>3, <2>4, <2>5 DEF Awaited, PromptOf, SInv, TypeOK
    <3>2. PromptOf(q)' = PromptOf(q) /\ PromptOf(q) \in Conns \cup {NoConn}
      BY <2>1, <2>2, <3>1 DEF PromptOf, SInv, TypeOK, PromptKnowsSession
    <3> QED
      BY <2>4, <2>5, <3>2 DEF Awaited, PInv, PromptIsPending
  <2> QED
    BY <2>1, <2>5 DEF PInv, PromptIsPending, AnswersItsRequest
<1>2. ASSUME NEW r \in Requests, NEW id \in Ids, Ask(r, id), request'[r] = "waiting"
      PROVE  PInv'
  <2> DEFINE c == sessions[id]
  <2>1. request[r] = "none" /\ c \in Conns /\ IdOf[c] = id /\ UNCHANGED <<sessions, answer>>
    BY <1>2 DEF Ask, SInv, TypeOK, FiledById, conns
  <2>2. /\ pending' = [pending EXCEPT ![c] = r] /\ askedOf' = [askedOf EXCEPT ![r] = c]
        /\ prompts' \subseteq prompts \cup {r}
    BY <1>2 DEF Ask, SInv, TypeOK
  <2>3. ASSUME NEW q \in prompts', Awaited(PromptOf(q))'
        PROVE  pending'[PromptOf(q)'] = q
    <3>1. CASE q = r
      BY <2>1, <2>2, <3>1 DEF PromptOf, SInv, TypeOK
    <3>2. CASE q # r
      <4>1. q \in prompts /\ askedOf'[q] = askedOf[q] /\ askedOf[q] \in Conns
        BY <2>2, <2>3, <3>2 DEF SInv, TypeOK, PromptKnowsSession
      <4>2. IdOf[askedOf[q]] # id
        BY <1>2, <4>1
      <4>3. PromptOf(q)' = PromptOf(q)
        BY <2>1, <4>1 DEF PromptOf
      <4>4. PromptOf(q) \in Conns /\ PromptOf(q) # c
        BY <2>1, <2>3, <4>1, <4>2, <4>3 DEF PromptOf, Awaited, SInv, TypeOK, FiledById
      <4> QED
        BY <2>2, <2>3, <4>1, <4>3, <4>4 DEF Awaited, PInv, PromptIsPending, SInv, TypeOK
    <3> QED
      BY <3>1, <3>2
  <2> QED
    BY <2>1, <2>3 DEF PInv, PromptIsPending, AnswersItsRequest
<1>3. ASSUME \A c \in Conns : ~Open(c),
             \A r \in Requests, id \in Ids : ~(Ask(r, id) /\ request'[r] = "waiting")
      PROVE  PInv'
  <2>1. /\ \A c \in Conns : pending'[c] \in {pending[c], NoRequest}
        /\ \A id \in Ids : sessions'[id] \in {sessions[id], NoConn}
        /\ prompts' \subseteq prompts /\ UNCHANGED askedOf
    BY <1>3, LessStep
  <2>2. ASSUME NEW q \in prompts', Awaited(PromptOf(q))'
        PROVE  pending'[PromptOf(q)'] = q
    <3>1. /\ PromptOf(q)' \in {PromptOf(q), NoConn} /\ q \in prompts
          /\ PromptOf(q) \in Conns \cup {NoConn}
      BY <2>1 DEF PromptOf, SInv, TypeOK, PromptKnowsSession
    <3> QED
      BY <2>1, <2>2, <3>1 DEF Awaited, PInv, PromptIsPending
  <2>3. ASSUME NEW q \in prompts, Answer(q) PROVE AnswersItsRequest'
    <3>1. CASE Awaited(PromptOf(q))
      <4>1. pending[PromptOf(q)] = q /\ q \in Requests
        BY <3>1 DEF PInv, PromptIsPending, SInv, TypeOK
      <4>2. answer' = [answer EXCEPT ![q] = q]
        BY <2>3, <3>1, <4>1 DEF Answer, PromptOf
      <4> QED
        BY <4>1, <4>2 DEF PInv, AnswersItsRequest, SInv, TypeOK
    <3>2. CASE ~Awaited(PromptOf(q))
      BY <2>3, <3>2 DEF Answer, PromptOf, PInv, AnswersItsRequest
    <3> QED
      BY <3>1, <3>2
  <2> QED
    BY <1>3, <2>2, <2>3, LessStep DEF PInv, PromptIsPending, AnswersItsRequest
<1> QED
  BY <1>1, <1>2, <1>3

(* "This specific request": where no payer is let in before the wallet has *)
(* dealt with the last one's prompt, nobody is given the invoice made for  *)
(* another, whatever times out, reconnects or is rejected; a request that  *)
(* comes after a timeout and before the late answer is what breaks it.     *)
THEOREM AnsweredInTurn == Spec /\ AsksInTurn => []AnswersItsRequest
<1>1. Init => PInv
  BY DEF Init, PInv, PromptIsPending, AnswersItsRequest
<1>2. SInv /\ PInv /\ [Next]_vars
        /\ [\A r \in Requests, id \in Ids :
              Ask(r, id) /\ request'[r] = "waiting" =>
                \A q \in prompts : IdOf[askedOf[q]] # id]_vars
      => PInv'
  <2>1. UNCHANGED vars => PInv' = PInv
    BY DEF vars, conns, payer, PInv, PromptIsPending, PromptOf, Awaited, AnswersItsRequest
  <2> QED
    BY <2>1, PromptStep
<1>3. PInv => AnswersItsRequest
  BY DEF PInv
<1> QED
  BY <1>1, <1>2, <1>3, AlwaysSInv, PTL DEF Spec, AsksInTurn
=============================================================================
