------------------------- MODULE VerifyBatchProofs -------------------------
(***************************************************************************)
(* Proofs about module VerifyBatch, for any invoices and any number of     *)
(* streams. What is pending stays watched because a removal is only ever   *)
(* sent for a URL that was reported settled, and such a URL is never       *)
(* pending again: no removal, however late, takes a pending URL away. The  *)
(* wallet is told what is tracked because what is written last is read     *)
(* last.                                                                   *)
(***************************************************************************)
EXTENDS VerifyBatch, FiniteSetTheorems, TLAPS

SessionType == [live : BOOLEAN, end : {"none", "closed", "cut"}, tracked : Tracked, queue : Seq(Frame)]

(* Where the watcher, its stream and the session stand to one another.     *)
Linked ==
  /\ session.live => stream.phase = "open" /\ session.end = "none"
  /\ retry => stream.phase = "off"
  /\ stream.known => stream.phase = "open"
  /\ stream.phase # "open" => updates = {}
  /\ stream.phase = "off" => unsent = {}
  /\ \A u \in pending : told[u] = "nothing"
  /\ \A m \in updates : \A u \in m.remove : told[u] = "settled"
  /\ stopped => pending = {}

VInv == TypeOK /\ Sessions <= MaxSessions /\ TimerRuns /\ PendingIsWatched /\ Linked

-----------------------------------------------------------------------------

LEMMA OrderingsAreSequences ==
  ASSUME NEW F, F \subseteq Frame, IsFiniteSet(F), NEW q \in Orderings(F)
  PROVE  q \in Seq(Frame)
<1>1. Cardinality(F) \in Nat
  BY FS_CardinalityType
<1>2. q \in [1..Cardinality(F) -> F]
  BY DEF Orderings
<1>3. q \in [1..Cardinality(F) -> Frame]
  BY <1>2
<1> QED
  BY <1>1, <1>3

LEMMA ImageIsFinite ==
  ASSUME NEW U, IsFiniteSet(U), NEW f, f = [u \in U |-> f[u]]
  PROVE  IsFiniteSet({f[u] : u \in U})
<1>1. f \in Surjection(U, {f[u] : u \in U})
  BY DEF Surjection
<1> QED
  BY <1>1, FS_Surjection

LEMMA ResultsAreFinite ==
  ASSUME NEW U \in SUBSET URLs
  PROVE  IsFiniteSet({Result(u) : u \in U})
<1> DEFINE f == [u \in U |-> Result(u)]
<1>1. {f[u] : u \in U} = {Result(u) : u \in U} /\ f = [u \in U |-> f[u]]
  OBVIOUS
<1>2. IsFiniteSet(U)
  BY FS_Subset, VerifyBatchAssumption
<1> HIDE DEF f
<1> QED
  BY <1>1, <1>2, ImageIsFinite

LEMMA ResultIsFrame ==
  ASSUME TypeOK, NEW u \in URLs
  PROVE  Result(u) \in Frame
BY DEF TypeOK, Result, Frame, Says, Records

LEMMA ResultsAreSequences ==
  ASSUME TypeOK, NEW U \in SUBSET URLs, NEW q \in Orderings({Result(u) : u \in U})
  PROVE  q \in Seq(Frame)
<1>1. IsFiniteSet({Result(u) : u \in U})
  BY ResultsAreFinite
<1>2. {Result(u) : u \in U} \subseteq Frame
  BY ResultIsFrame
<1> QED
  BY <1>1, <1>2, OrderingsAreSequences

LEMMA RemovalsAreFinite ==
  ASSUME NEW U \in SUBSET URLs
  PROVE  IsFiniteSet({[url |-> u, says |-> "removed"] : u \in U})
<1> DEFINE f == [u \in U |-> [url |-> u, says |-> "removed"]]
<1>1. {f[u] : u \in U} = {[url |-> u, says |-> "removed"] : u \in U} /\ f = [u \in U |-> f[u]]
  OBVIOUS
<1>2. IsFiniteSet(U)
  BY FS_Subset, VerifyBatchAssumption
<1> HIDE DEF f
<1> QED
  BY <1>1, <1>2, ImageIsFinite

LEMMA RemovalsAreSequences ==
  ASSUME NEW U \in SUBSET URLs, NEW q \in Orderings({[url |-> u, says |-> "removed"] : u \in U})
  PROVE  q \in Seq(Frame)
<1>1. IsFiniteSet({[url |-> u, says |-> "removed"] : u \in U})
  BY RemovalsAreFinite
<1>2. {[url |-> u, says |-> "removed"] : u \in U} \subseteq Frame
  BY DEF Frame, Says
<1> QED
  BY <1>1, <1>2, OrderingsAreSequences

LEMMA NoSessionTyped == NoSession \in SessionType
BY DEF NoSession, SessionType, Tracked

LEMMA SeenTyped ==
  ASSUME TypeOK, NEW u \in URLs
  PROVE  Seen(u) \in {"pending", "settled", "unknown"}
<1>1. record[u] \in Records
  BY DEF TypeOK
<1> QED
  BY <1>1 DEF Records, Seen

(* closeIfSettled leaves a session that is live and polled, or over.       *)
LEMMA SettlesLeaves ==
  ASSUME TypeOK, NEW s \in SessionType, s.live, s.end = "none", NEW w \in Seq(Frame), Settles(s, w)
  PROVE  /\ session' \in SessionType /\ wire' \in Seq(Frame) /\ timer' \in BOOLEAN
         /\ session'.tracked = s.tracked
         /\ session'.live \/ session'.end # "none"
         /\ session'.live => timer' /\ session'.end = "none"
         /\ orphans # 0 /\ timer => timer'
         /\ wire' \o session'.queue = w \o s.queue
<1>1. CASE Terminal(s.tracked)
  <2>1. session' = [s EXCEPT !.live = FALSE, !.end = "closed", !.queue = <<>>]
        /\ wire' = w \o s.queue /\ timer' = (timer /\ ~(orphans = 0))
    BY <1>1 DEF Settles, Flushed, StopsTimer
  <2>2. s.queue \in Seq(Frame) /\ <<>> \in Seq(Frame)
    BY DEF SessionType
  <2>3. wire' \in Seq(Frame)
    BY <2>1, <2>2
  <2>4. session' = [live |-> FALSE, end |-> "closed", tracked |-> s.tracked, queue |-> <<>>]
    BY <2>1 DEF SessionType
  <2>5. wire' \o session'.queue = w \o s.queue
    BY <2>1, <2>2, <2>3, <2>4
  <2> QED
    BY <2>1, <2>2, <2>3, <2>4, <2>5 DEF SessionType, TypeOK
<1>2. CASE ~Terminal(s.tracked)
  BY <1>2 DEF Settles
<1> QED
  BY <1>1, <1>2

-----------------------------------------------------------------------------
(* The invariant, action by action.                                        *)

LEMMA VInvInit == Init => VInv
<1> SUFFICES ASSUME Init PROVE VInv
  OBVIOUS
<1>1. session = NoSession /\ session.live = FALSE /\ stream = NoStream /\ orphans = 0
  BY DEF Init, NoSession
<1>2. TypeOK
  <2>1. record \in [URLs -> Records] /\ wire \in Seq(Frame) /\ orphans \in 0..MaxSessions
    BY <1>1, VerifyBatchAssumption DEF Init, Records
  <2>2. session \in [live : BOOLEAN, end : {"none", "closed", "cut"}, tracked : Tracked, queue : Seq(Frame)]
    BY <1>1, NoSessionTyped DEF SessionType
  <2> QED
    BY <2>1, <2>2 DEF Init, TypeOK, NoStream, Says
<1>3. Sessions = 0 /\ Sessions <= MaxSessions
  BY <1>1, VerifyBatchAssumption DEF Sessions
<1>4. TimerRuns /\ PendingIsWatched /\ Linked
  BY <1>1, <1>3 DEF Init, TimerRuns, PendingIsWatched, Linked, NoStream, NoSession
<1> QED
  BY <1>2, <1>3, <1>4 DEF VInv

LEMMA OpenKeeps == VInv /\ OpenArrives => VInv'
<1> SUFFICES ASSUME VInv, OpenArrives PROVE VInv'
  OBVIOUS
<1> DEFINE seen == [u \in URLs |-> IF u \in stream.urls THEN Seen(u) ELSE "none"]
           s == [live |-> TRUE, end |-> "none", tracked |-> seen, queue |-> <<>>]
           first == <<[url |-> None, says |-> "session"]>>
<1>1. PICK burst \in Orderings({Result(u) : u \in stream.urls}) : Settles(s, first \o burst)
  BY DEF OpenArrives
<1>2. seen \in Tracked /\ \A u \in stream.urls : seen[u] # "none"
  BY SeenTyped DEF VInv, TypeOK, Tracked
<1>3. first \o burst \in Seq(Frame)
  <2>1. first \in Seq(Frame)
    BY DEF Frame
  <2>2. burst \in Seq(Frame)
    BY ResultsAreSequences DEF VInv, TypeOK
  <2> HIDE DEF first
  <2> QED
    BY <2>1, <2>2
<1>4. s \in SessionType /\ s.live /\ s.end = "none" /\ s.tracked = seen
  <2> HIDE DEF seen
  <2> QED
    BY <1>2 DEF SessionType
<1> HIDE DEF seen, s, first
<1>5. /\ session' \in SessionType /\ wire' \in Seq(Frame) /\ timer' \in BOOLEAN
      /\ session'.tracked = seen /\ (session'.live \/ session'.end # "none")
      /\ session'.live => timer' /\ session'.end = "none"
      /\ orphans # 0 /\ timer => timer'
  BY <1>1, <1>3, <1>4, SettlesLeaves DEF VInv
<1>6. /\ stream.phase = "opening" /\ Sessions < MaxSessions /\ session.live = FALSE
      /\ stream' = [stream EXCEPT !.phase = "open"]
      /\ UNCHANGED <<record, pending, told, lapsed, unsent, retry, stopped, heard, updates, orphans>>
  BY DEF OpenArrives, Room, watcher, VInv, Linked, TypeOK
<1>7. stream' \in [phase : {"off", "opening", "open"}, known : BOOLEAN, urls : SUBSET URLs]
      /\ stream'.phase = "open" /\ stream'.known = stream.known
  BY <1>6 DEF VInv, TypeOK
<1>8. TypeOK'
  BY <1>5, <1>6, <1>7 DEF VInv, TypeOK, SessionType
<1>9. orphans < MaxSessions /\ orphans \in Nat
  BY <1>6, VerifyBatchAssumption DEF Sessions, VInv, TypeOK
<1>10. Sessions' <= MaxSessions /\ TimerRuns'
  BY <1>5, <1>6, <1>9, VerifyBatchAssumption DEF Sessions, VInv, TimerRuns
<1>11. PendingIsWatched'
  BY <1>2, <1>5, <1>6, <1>7 DEF VInv, PendingIsWatched
<1>12. Linked'
  BY <1>5, <1>6, <1>7 DEF VInv, Linked
<1> QED
  BY <1>8, <1>10, <1>11, <1>12 DEF VInv

LEMMA UpdateKeeps ==
  ASSUME VInv, NEW m \in updates, UpdateArrives(m)
  PROVE  VInv'
<1> DEFINE gone == {u \in m.remove : session.tracked[u] # "none"}
           new == {u \in m.add : session.tracked[u] = "none" \/ u \in gone}
           tracked == [u \in URLs |-> IF u \in new THEN Seen(u)
                                      ELSE IF u \in gone THEN "none" ELSE session.tracked[u]]
<1>1. m \in Update /\ m.add \subseteq URLs /\ m.remove \subseteq URLs
  BY DEF VInv, TypeOK, Update
<1>2. PICK removed \in Orderings({[url |-> u, says |-> "removed"] : u \in gone}),
           added \in Orderings({Result(u) : u \in new}) :
        Settles([session EXCEPT !.tracked = tracked, !.queue = session.queue \o removed \o added], wire)
  BY DEF UpdateArrives
<1>3. tracked \in Tracked
  BY SeenTyped DEF VInv, TypeOK, Tracked
<1>4. \A u \in URLs : u \in m.add \/ (session.tracked[u] # "none" /\ u \notin m.remove) => tracked[u] # "none"
  BY SeenTyped DEF VInv, TypeOK, Tracked
<1>5. session.queue \o removed \o added \in Seq(Frame)
  <2>1. removed \in Seq(Frame) /\ added \in Seq(Frame)
    BY <1>1, RemovalsAreSequences, ResultsAreSequences DEF VInv
  <2>2. session.queue \in Seq(Frame)
    BY DEF VInv, TypeOK
  <2> QED
    BY <2>1, <2>2
<1> DEFINE queue == session.queue \o removed \o added
           s == [session EXCEPT !.tracked = tracked, !.queue = queue]
<1> HIDE DEF gone, new, tracked, queue
<1>6. session.live /\ session.end = "none" /\ session \in SessionType
  BY DEF UpdateArrives, VInv, TypeOK, SessionType, Linked
<1>7. s \in SessionType /\ s.live /\ s.end = "none" /\ s.tracked = tracked
  <2>1. queue \in Seq(Frame)
    BY <1>5 DEF queue
  <2> QED
    BY <1>3, <1>6, <2>1 DEF SessionType
<1>8. Settles(s, wire)
  BY <1>2 DEF queue
<1> HIDE DEF s
<1>9. wire \in Seq(Frame)
  BY DEF VInv, TypeOK
<1>10. /\ session' \in SessionType /\ wire' \in Seq(Frame) /\ timer' \in BOOLEAN
       /\ session'.tracked = tracked /\ (session'.live \/ session'.end # "none")
       /\ session'.live => timer' /\ session'.end = "none"
       /\ orphans # 0 /\ timer => timer'
  BY <1>7, <1>8, <1>9, SettlesLeaves DEF VInv
<1>11. /\ updates' = updates \ {m}
       /\ UNCHANGED <<record, pending, told, lapsed, unsent, retry, stopped, stream, heard, orphans>>
  BY DEF UpdateArrives, watcher
<1>12. TypeOK'
  BY <1>10, <1>11 DEF VInv, TypeOK, SessionType
<1>13. Sessions' <= MaxSessions /\ TimerRuns'
  BY <1>6, <1>10, <1>11, VerifyBatchAssumption DEF Sessions, VInv, TypeOK, TimerRuns
<1>14. PendingIsWatched'
  <2>1. \A u \in pending : u \notin m.remove
    BY DEF VInv, TypeOK, Linked
  <2>2. \A u \in pending \ unsent : tracked[u] # "none" \/ \E n \in updates \ {m} : u \in n.add
    BY <1>4, <1>6, <2>1 DEF VInv, TypeOK, PendingIsWatched
  <2> QED
    BY <1>6, <1>10, <1>11, <2>2 DEF VInv, PendingIsWatched, Linked
<1>15. Linked'
  BY <1>6, <1>10, <1>11 DEF VInv, Linked
<1> QED
  BY <1>12, <1>13, <1>14, <1>15 DEF VInv

LEMMA TickKeeps ==
  ASSUME VInv, Tick \/ MaxDuration
  PROVE  VInv'
<1>0. /\ session.live /\ timer /\ session \in SessionType /\ session.end = "none" /\ stream.phase = "open"
      /\ session.queue \in Seq(Frame) /\ wire \in Seq(Frame)
      /\ UNCHANGED <<record, pending, told, lapsed, unsent, retry, stopped, stream, heard, updates, orphans>>
  BY DEF Tick, MaxDuration, VInv, TypeOK, SessionType, Linked, watcher, client
<1>1. /\ session' \in SessionType /\ wire' \in Seq(Frame) /\ timer' \in BOOLEAN
      /\ \A u \in URLs : session.tracked[u] # "none" => session'.tracked[u] # "none"
      /\ session'.live \/ session'.end # "none"
      /\ session'.live => timer' /\ session'.end = "none"
      /\ orphans # 0 /\ timer => timer'
  <2>1. CASE Tick
    <3> DEFINE tracked == [u \in URLs |-> IF u \in Flips THEN "settled"
                                          ELSE IF session.tracked[u] = "pending" /\ record[u] = "gone"
                                          THEN "expired" ELSE session.tracked[u]]
               empty == <<>>
               s == [session EXCEPT !.tracked = tracked, !.queue = empty]
    <3>1. PICK flips \in Orderings({Result(u) : u \in Flips}) : Settles(s, wire \o session.queue \o flips)
      BY <2>1 DEF Tick
    <3>2. tracked \in Tracked /\ \A u \in URLs : session.tracked[u] # "none" => tracked[u] # "none"
      BY <1>0 DEF SessionType, Tracked
    <3>3. flips \in Seq(Frame)
      <4>1. Flips \in SUBSET URLs
        BY DEF Flips
      <4> QED
        BY <4>1, ResultsAreSequences DEF VInv
    <3>4. wire \o session.queue \o flips \in Seq(Frame)
      BY <1>0, <3>3
    <3>5. empty \in Seq(Frame)
      OBVIOUS
    <3> HIDE DEF tracked, empty
    <3>6. s \in SessionType /\ s.live /\ s.end = "none" /\ s.tracked = tracked
      BY <1>0, <3>2, <3>5 DEF SessionType
    <3> HIDE DEF s
    <3> QED
      BY <3>1, <3>2, <3>4, <3>6, SettlesLeaves DEF VInv
  <2>2. CASE MaxDuration
    <3>1. /\ session' = [session EXCEPT !.live = FALSE, !.end = "closed", !.queue = <<>>]
          /\ wire' = wire \o session.queue /\ timer' = ~(orphans = 0)
      BY <2>2 DEF MaxDuration, Flushed, StopsTimer
    <3>2. wire' \in Seq(Frame)
      BY <1>0, <3>1
    <3>3. <<>> \in Seq(Frame)
      OBVIOUS
    <3>4. session' = [live |-> FALSE, end |-> "closed", tracked |-> session.tracked, queue |-> <<>>]
      BY <1>0, <3>1 DEF SessionType
    <3> QED
      <4>1. session' \in SessionType /\ session'.live = FALSE /\ session'.end # "none"
            /\ session'.tracked = session.tracked
        BY <1>0, <3>3, <3>4 DEF SessionType
      <4>2. timer' \in BOOLEAN /\ (orphans # 0 => timer')
        BY <3>1
      <4> QED
        BY <3>2, <4>1, <4>2
  <2> QED
    BY <2>1, <2>2
<1>2. TypeOK'
  BY <1>0, <1>1 DEF VInv, TypeOK, SessionType
<1>3. Sessions' <= MaxSessions /\ TimerRuns'
  BY <1>0, <1>1, VerifyBatchAssumption DEF Sessions, VInv, TypeOK, TimerRuns
<1>4. PendingIsWatched'
  BY <1>0, <1>1 DEF VInv, TypeOK, PendingIsWatched
<1>5. Linked'
  BY <1>0, <1>1 DEF VInv, Linked
<1> QED
  BY <1>2, <1>3, <1>4, <1>5 DEF VInv

LEMMA CloseKeeps ==
  ASSUME VInv, OrphanCloses \/ Restart
  PROVE  VInv'
<1>1. CASE OrphanCloses
  <2>1. /\ orphans > 0 /\ orphans' = orphans - 1 /\ timer' = (timer /\ ~(Sessions - 1 = 0))
        /\ UNCHANGED <<record, pending, told, lapsed, unsent, retry, stopped, stream, heard, updates, session, wire>>
    BY <1>1 DEF OrphanCloses, StopsTimer, watcher, client
  <2>2. orphans \in Nat /\ orphans' \in 0..MaxSessions /\ Sessions \in Nat /\ Sessions' = Sessions - 1
    BY <2>1, VerifyBatchAssumption DEF VInv, TypeOK, Sessions
  <2>3. timer' \in BOOLEAN
    BY <2>1 DEF VInv, TypeOK
  <2>4. TypeOK'
    BY <2>1, <2>2, <2>3 DEF VInv, TypeOK
  <2>5. Sessions' <= MaxSessions /\ TimerRuns'
    <3>1. Sessions' <= MaxSessions /\ (Sessions' > 0 => Sessions > 0 /\ Sessions - 1 # 0)
      BY <2>2, VerifyBatchAssumption DEF VInv
    <3>2. TimerRuns'
      BY <2>1, <3>1 DEF VInv, TimerRuns
    <3> QED
      BY <3>1, <3>2
  <2> QED
    BY <2>1, <2>4, <2>5 DEF VInv, PendingIsWatched, Linked
<1>2. CASE Restart
  <2>1. /\ session' = IF session.live
                      THEN [session EXCEPT !.live = FALSE, !.end = "cut", !.queue = <<>>] ELSE session
        /\ orphans' = 0 /\ timer' = FALSE
        /\ UNCHANGED <<record, pending, told, lapsed, unsent, retry, stopped, stream, heard, updates, wire>>
    BY <1>2 DEF Restart, watcher, client
  <2>2. <<>> \in Seq(Frame)
    OBVIOUS
  <2>3. session' \in SessionType /\ session'.live = FALSE /\ (session.live => session'.end # "none")
        /\ (~session.live => session' = session)
    <3>1. CASE session.live
      <4>1. session' = [live |-> FALSE, end |-> "cut", tracked |-> session.tracked, queue |-> <<>>]
        BY <2>1, <3>1 DEF VInv, TypeOK
      <4> QED
        BY <2>2, <3>1, <4>1 DEF VInv, TypeOK, SessionType
    <3>2. CASE ~session.live
      BY <2>1, <3>2 DEF VInv, TypeOK, SessionType
    <3> QED
      BY <3>1, <3>2
  <2>4. TypeOK'
    <3>1. orphans' \in 0..MaxSessions /\ timer' \in BOOLEAN
      <4>1. orphans' = 0 /\ timer' = FALSE
        BY <2>1
      <4>2. 0 \in 0..MaxSessions
        BY VerifyBatchAssumption
      <4> QED
        BY <4>1, <4>2
    <3> QED
      BY <2>1, <2>3, <3>1 DEF VInv, TypeOK, SessionType
  <2>5. Sessions' = 0
    BY <2>1, <2>3 DEF Sessions
  <2>6. Sessions' <= MaxSessions /\ TimerRuns'
    BY <2>5, VerifyBatchAssumption DEF TimerRuns
  <2> QED
    BY <2>1, <2>3, <2>4, <2>6 DEF VInv, PendingIsWatched, Linked
<1> QED
  BY <1>1, <1>2

(* The client's end of a stream: its session is left to the server.        *)
LEMMA DropLeaves ==
  ASSUME VInv, Drop
  PROVE  /\ stream' = NoStream /\ session' = NoSession /\ session'.live = FALSE
         /\ wire' = <<>> /\ updates' = {} /\ heard' = [u \in URLs |-> "none"]
         /\ orphans' \in 0..MaxSessions /\ timer' \in BOOLEAN
         /\ Sessions' <= MaxSessions /\ TimerRuns'
<1>1. /\ stream' = NoStream /\ session' = NoSession /\ session'.live = FALSE
      /\ wire' = <<>> /\ updates' = {} /\ heard' = [u \in URLs |-> "none"]
  BY DEF Drop, NoSession
<1>2. Sessions \in 0..MaxSessions
  <2>1. orphans \in Nat /\ Sessions <= MaxSessions
    BY VerifyBatchAssumption DEF VInv, TypeOK
  <2>2. Sessions = orphans \/ Sessions = orphans + 1
    BY <2>1 DEF Sessions
  <2> QED
    BY <2>1, <2>2, VerifyBatchAssumption
<1>3. ASSUME orphans' \in 0..MaxSessions PROVE Sessions' = orphans'
  <2>1. orphans' \in Int /\ (IF session'.live THEN 1 ELSE 0) = 0
    BY <1>1, <1>3, VerifyBatchAssumption
  <2>2. \A n \in Int : n + 0 = n
    OBVIOUS
  <2>3. Sessions' = orphans' + (IF session'.live THEN 1 ELSE 0)
    BY DEF Sessions
  <2> QED
    BY <2>1, <2>2, <2>3, Zenon
<1>4. CASE orphans' = Sessions /\ UNCHANGED timer
  <2>1. Sessions' = Sessions /\ orphans' \in 0..MaxSessions
    BY <1>2, <1>3, <1>4
  <2>2. timer' \in BOOLEAN /\ TimerRuns'
    <3>1. timer' = timer /\ timer \in BOOLEAN
      BY <1>4 DEF VInv, TypeOK
    <3>2. Sessions' > 0 => Sessions > 0
      BY <2>1
    <3> QED
      BY <3>1, <3>2 DEF VInv, TimerRuns
  <2>3. Sessions' <= MaxSessions
    BY <1>2, <2>1, VerifyBatchAssumption
  <2> QED
    BY <1>1, <2>1, <2>2, <2>3
<1>5. CASE Room /\ orphans' = Sessions + 1 /\ timer' = TRUE
  <2>1. orphans' \in 0..MaxSessions
    BY <1>2, <1>5, VerifyBatchAssumption DEF Room
  <2> QED
    <3>1. Sessions' <= MaxSessions
      BY <1>3, <2>1, VerifyBatchAssumption
    <3>2. timer' \in BOOLEAN /\ TimerRuns'
      BY <1>5 DEF TimerRuns
    <3> QED
      BY <1>1, <2>1, <3>1, <3>2
<1> QED
  BY <1>4, <1>5 DEF Drop

LEMMA EndKeeps ==
  ASSUME VInv, Ends \/ Stop
  PROVE  VInv'
<1>1. /\ stream' = NoStream /\ session' = NoSession /\ session'.live = FALSE
      /\ wire' = <<>> /\ updates' = {} /\ heard' = [u \in URLs |-> "none"]
      /\ orphans' \in 0..MaxSessions /\ timer' \in BOOLEAN
      /\ Sessions' <= MaxSessions /\ TimerRuns'
  BY DropLeaves DEF Ends, Stop
<1>2. /\ pending' \subseteq pending /\ lapsed' = {} /\ unsent' = {} /\ record' = record
      /\ retry' = (pending' # {}) /\ stopped' \in BOOLEAN /\ (stopped' => pending' = {})
      /\ told' \in [URLs -> {"nothing", "settled", "gaveUp"}]
      /\ \A u \in pending' : told'[u] = "nothing"
  <2>1. CASE Ends
    <3>1. /\ told' = [u \in URLs |-> IF u \in pending \cap lapsed THEN "gaveUp" ELSE told[u]]
          /\ pending' = pending \ lapsed /\ lapsed' = {} /\ unsent' = {}
          /\ retry' = (pending \ lapsed # {}) /\ record' = record /\ stopped' = stopped
      BY <2>1 DEF Ends, Reopen
    <3> QED
      <4>1. pending \ lapsed \subseteq pending /\ pending \subseteq URLs
        BY DEF VInv, TypeOK
      <4>2. told' \in [URLs -> {"nothing", "settled", "gaveUp"}]
        BY <3>1 DEF VInv, TypeOK
      <4>3. \A u \in pending' : told'[u] = "nothing"
        BY <3>1, <4>1 DEF VInv, Linked
      <4>4. stopped' \in BOOLEAN /\ (stopped' => pending' = {})
        BY <3>1 DEF VInv, TypeOK, Linked
      <4> QED
        BY <3>1, <4>1, <4>2, <4>3, <4>4
  <2>2. CASE Stop
    <3>1. /\ pending' = {} /\ lapsed' = {} /\ unsent' = {} /\ retry' = FALSE
          /\ stopped' = TRUE /\ record' = record /\ told' = told
      BY <2>2 DEF Stop
    <3> QED
      BY <3>1 DEF VInv, TypeOK
  <2> QED
    BY <2>1, <2>2
<1>3. TypeOK'
  <2>1. wire' \in Seq(Frame)
    BY <1>1
  <2>2. session' \in SessionType
    BY <1>1, NoSessionTyped
  <2> QED
    BY <1>1, <1>2, <2>1, <2>2 DEF VInv, TypeOK, SessionType, NoStream
<1>4. PendingIsWatched' /\ Linked'
  <2>1. stream'.phase = "off" /\ stream'.known = FALSE
    BY <1>1 DEF NoStream
  <2>2. (pending' # {} => retry') /\ (retry' => pending' # {})
    BY <1>2
  <2>3. PendingIsWatched'
    BY <1>1, <2>1, <2>2 DEF PendingIsWatched
  <2>4. Linked'
    BY <1>1, <1>2, <2>1 DEF Linked
  <2> QED
    BY <2>3, <2>4
<1> QED
  BY <1>1, <1>3, <1>4 DEF VInv

LEMMA ReadKeeps ==
  ASSUME VInv, ReadSession \/ ReadRemoved
  PROVE  VInv'
<1>1. /\ wire # <<>> /\ wire' = Tail(wire) /\ stream.phase = "open"
      /\ UNCHANGED <<record, pending, told, lapsed, unsent, retry, stopped, updates, session, orphans, timer>>
  BY DEF ReadSession, ReadRemoved, Reads, watcher, server
<1>2. wire \in Seq(Frame) /\ Head(wire) \in Frame /\ wire' \in Seq(Frame)
  BY <1>1 DEF VInv, TypeOK
<1>3. /\ stream' \in [phase : {"off", "opening", "open"}, known : BOOLEAN, urls : SUBSET URLs]
      /\ stream'.phase = stream.phase
      /\ heard' \in [URLs -> Says \cup {"none"}]
  <2>1. CASE ReadSession
    BY <2>1 DEF ReadSession, VInv, TypeOK
  <2>2. CASE ReadRemoved
    BY <2>2 DEF ReadRemoved, VInv, TypeOK, Says
  <2> QED
    BY <2>1, <2>2
<1>4. TypeOK'
  BY <1>1, <1>2, <1>3 DEF VInv, TypeOK
<1>5. Sessions' <= MaxSessions /\ TimerRuns'
  BY <1>1 DEF VInv, TimerRuns, Sessions
<1>6. PendingIsWatched' /\ Linked'
  BY <1>1, <1>3 DEF VInv, PendingIsWatched, Linked
<1> QED
  BY <1>4, <1>5, <1>6 DEF VInv

LEMMA ResultKeeps ==
  ASSUME VInv, NEW u \in URLs, ReadResult(u)
  PROVE  VInv'
<1> DEFINE settled == Head(wire).says = "settled" /\ u \in pending
           left    == IF settled THEN pending \ {u} ELSE pending
           adds    == IF unsent # {} THEN {[add |-> unsent, remove |-> {}]} ELSE {}
           removes == IF settled /\ left # {} THEN {[add |-> {}, remove |-> {u}]} ELSE {}
<1>1. /\ wire # <<>> /\ wire' = Tail(wire) /\ stream.phase = "open"
      /\ heard' = [heard EXCEPT ![u] = Head(wire).says] /\ Head(wire).says \in {"pending", "settled"}
      /\ updates' = updates \cup adds \cup removes
      /\ unsent' = {} /\ pending' = left /\ lapsed' = lapsed \cap left
      /\ told' = IF settled THEN [told EXCEPT ![u] = "settled"] ELSE told
      /\ UNCHANGED <<record, retry, stopped, stream, session, orphans, timer>>
  BY DEF ReadResult, Reads, server
<1>2. wire' \in Seq(Frame)
  BY <1>1 DEF VInv, TypeOK
<1>3. heard' \in [URLs -> Says \cup {"none"}]
  BY <1>1 DEF VInv, TypeOK, Says
<1>4. left \subseteq pending /\ (\A w \in left : w # u \/ ~settled)
  OBVIOUS
<1>5. adds \subseteq Update /\ removes \subseteq Update
  BY DEF VInv, TypeOK, Update
<1>6. /\ \A m \in adds : m.remove = {}
      /\ \A m \in removes : settled /\ m.remove = {u}
      /\ \A w \in unsent : \E m \in adds : w \in m.add
  <2>1. \A m \in adds : m.remove = {}
    OBVIOUS
  <2>2. \A m \in removes : m = [add |-> {}, remove |-> {u}] /\ settled
    OBVIOUS
  <2>3. \A w \in unsent : [add |-> unsent, remove |-> {}] \in adds
    OBVIOUS
  <2> HIDE DEF settled, adds, removes
  <2> QED
    BY <2>1, <2>2, <2>3
<1>7. /\ told' \in [URLs -> {"nothing", "settled", "gaveUp"}] /\ (settled => told'[u] = "settled")
      /\ \A w \in URLs : w # u \/ ~settled => told'[w] = told[w]
  BY <1>1 DEF VInv, TypeOK
<1> HIDE DEF settled, left, adds, removes
<1>8. TypeOK'
  BY <1>1, <1>2, <1>3, <1>4, <1>5, <1>7 DEF VInv, TypeOK
<1>9. Sessions' <= MaxSessions /\ TimerRuns'
  BY <1>1 DEF VInv, TimerRuns, Sessions
<1>10. PendingIsWatched'
  <2>1. \A w \in left : session.live => session.tracked[w] # "none" \/ \E m \in updates' : w \in m.add
    BY <1>1, <1>4, <1>6 DEF VInv, PendingIsWatched
  <2> QED
    BY <1>1, <1>4, <2>1 DEF VInv, PendingIsWatched
<1>11. Linked'
  <2>1. \A m \in updates' : \A w \in m.remove : told'[w] = "settled"
    <3>1. \A m \in updates : \A w \in m.remove : w \in URLs /\ told[w] = "settled"
      BY DEF VInv, TypeOK, Linked, Update
    <3> QED
      BY <1>1, <1>6, <1>7, <3>1
  <2>2. \A w \in pending' : told'[w] = "nothing"
    BY <1>1, <1>4, <1>7 DEF VInv, TypeOK, Linked
  <2> QED
    BY <1>1, <1>4, <2>1, <2>2 DEF VInv, Linked
<1> QED
  BY <1>8, <1>9, <1>10, <1>11 DEF VInv

LEMMA AddKeeps ==
  ASSUME VInv, NEW u \in URLs, Add(u)
  PROVE  VInv'
<1>1. /\ ~stopped /\ u \notin pending /\ told[u] = "nothing" /\ pending' = pending \cup {u}
      /\ UNCHANGED <<record, told, lapsed, stopped, heard, session, orphans, timer, wire>>
  BY DEF Add, server
<1>2. Sessions' <= MaxSessions /\ TimerRuns'
  BY <1>1 DEF VInv, TimerRuns, Sessions
<1>3. CASE stream.phase # "off" /\ stream.known /\ updates' = updates \cup {[add |-> {u}, remove |-> {}]}
           /\ UNCHANGED <<stream, retry, unsent>>
  <2> DEFINE m == [add |-> {u}, remove |-> {}]
  <2>1. m \in Update /\ m.remove = {} /\ u \in m.add /\ m \in updates'
    BY <1>3 DEF Update
  <2>2. TypeOK'
    BY <1>1, <1>3, <2>1 DEF VInv, TypeOK
  <2>3. PendingIsWatched'
    BY <1>1, <1>3, <2>1 DEF VInv, PendingIsWatched, Linked
  <2>4. Linked'
    BY <1>1, <1>3, <2>1 DEF VInv, Linked
  <2> QED
    BY <1>2, <2>2, <2>3, <2>4 DEF VInv
<1>4. CASE stream.phase # "off" /\ ~stream.known /\ unsent' = unsent \cup Held(u)
           /\ UNCHANGED <<stream, retry, updates>>
  BY <1>1, <1>2, <1>4 DEF VInv, TypeOK, PendingIsWatched, Linked, Held
<1>5. CASE stream.phase = "off" /\ ~retry /\ Connect(pending \cup {u}) /\ UNCHANGED updates
  BY <1>1, <1>2, <1>5 DEF VInv, TypeOK, PendingIsWatched, Linked, Connect
<1>6. CASE stream.phase = "off" /\ retry /\ UNCHANGED <<stream, retry, unsent, updates>>
  BY <1>1, <1>2, <1>6 DEF VInv, TypeOK, PendingIsWatched, Linked
<1> QED
  BY <1>3, <1>4, <1>5, <1>6 DEF Add

LEMMA WatcherKeeps ==
  ASSUME VInv, RetryFires \/ (\E u \in URLs : Lapse(u) \/ RecordMoves(u))
  PROVE  VInv'
<1>1. CASE RetryFires
  <2>1. /\ retry /\ stream.phase = "off"
        /\ stream' = [phase |-> "opening", known |-> FALSE, urls |-> pending] /\ retry' = FALSE /\ unsent' = {}
        /\ UNCHANGED <<record, pending, told, lapsed, stopped, heard, updates, session, orphans, timer, wire>>
    BY <1>1 DEF RetryFires, Connect, server, VInv, Linked
  <2>2. Sessions' <= MaxSessions /\ TimerRuns'
    BY <2>1 DEF VInv, TimerRuns, Sessions
  <2> QED
    BY <2>1, <2>2 DEF VInv, TypeOK, PendingIsWatched, Linked
<1>2. ASSUME NEW u \in URLs, Lapse(u)
      PROVE  VInv'
  <2>1. /\ u \in pending /\ lapsed' = lapsed \cup {u}
        /\ UNCHANGED <<record, pending, told, unsent, retry, stopped, stream, heard, updates, session, orphans, timer, wire>>
    BY <1>2 DEF Lapse, client, server
  <2>2. Sessions' <= MaxSessions /\ TimerRuns'
    BY <2>1 DEF VInv, TimerRuns, Sessions
  <2> QED
    BY <2>1, <2>2 DEF VInv, TypeOK, PendingIsWatched, Linked
<1>3. ASSUME NEW u \in URLs, RecordMoves(u)
      PROVE  VInv'
  <2>1. record' \in [URLs -> Records]
    BY <1>3 DEF VInv, TypeOK, RecordMoves, Records
  <2>2. UNCHANGED <<pending, told, lapsed, unsent, retry, stopped, stream, heard, updates, session, orphans, timer, wire>>
    BY <1>3 DEF RecordMoves, watcher, client, server
  <2>3. Sessions' <= MaxSessions /\ TimerRuns'
    BY <2>2 DEF VInv, TimerRuns, Sessions
  <2> QED
    BY <2>1, <2>2, <2>3 DEF VInv, TypeOK, PendingIsWatched, Linked
<1> QED
  BY <1>1, <1>2, <1>3

LEMMA VInvStep == VInv /\ [Next]_vars => VInv'
<1> SUFFICES ASSUME VInv, [Next]_vars PROVE VInv'
  OBVIOUS
<1>1. CASE ServerStep
  BY <1>1, OpenKeeps, UpdateKeeps, TickKeeps, CloseKeeps DEF ServerStep
<1>2. CASE StreamStep
  BY <1>2, EndKeeps, ReadKeeps, ResultKeeps
     DEF StreamStep, OpenFails, ReadEnd, UpdateRefused, StreamBreaks, ReadBad
<1>3. CASE WatcherStep \/ \E u \in URLs : RecordMoves(u)
  BY <1>3, EndKeeps, AddKeeps, WatcherKeeps DEF WatcherStep
<1>4. CASE UNCHANGED vars
  <2>1. Sessions' = Sessions
    BY <1>4 DEF vars, server, Sessions
  <2> QED
    BY <1>4, <2>1 DEF VInv, TypeOK, TimerRuns, PendingIsWatched, Linked, vars, watcher, client, server
<1> QED
  BY <1>1, <1>2, <1>3, <1>4 DEF Next

LEMMA VerifyBatchInductive == Spec => []VInv
BY VInvInit, VInvStep, PTL DEF Spec

(* Watcher, stream and session keep their types, and the server never      *)
(* holds more streams than it may.                                         *)
THEOREM VerifyBatchTypeCorrect == Spec => []TypeOK
<1>1. VInv => TypeOK
  BY DEF VInv
<1> QED
  BY <1>1, VerifyBatchInductive, PTL

(* As long as any stream is open, the server polls for it.                 *)
THEOREM OpenStreamsArePolled == Spec => []TimerRuns
<1>1. VInv => TimerRuns
  BY DEF VInv
<1> QED
  BY <1>1, VerifyBatchInductive, PTL

(* Whatever the wallet waits for is watched, on its way there, or to be    *)
(* asked about by a reconnect that is due.                                 *)
THEOREM NothingPendingIsForgotten == Spec => []PendingIsWatched
<1>1. VInv => PendingIsWatched
  BY DEF VInv
<1> QED
  BY <1>1, VerifyBatchInductive, PTL
-----------------------------------------------------------------------------
(* What the client is told. A session that writes frames about a URL is    *)
(* the last to speak of it; one that writes none has changed nothing of    *)
(* it; and reading moves the first frame from the wire to what was heard.  *)

(* What the argument needs of a stream that is not open yet.               *)
Fresh == stream.phase # "open" => wire = <<>> /\ heard = [u \in URLs |-> "none"]

TInv == VInv /\ Fresh /\ ToldWhatIsTracked

Mentions(q, u) == \E i \in DOMAIN q : q[i].url = u

LEMMA Regrouped ==
  \A a, b, c \in Seq(Frame) : a \o (b \o c) = (a \o b) \o c
OBVIOUS

LEMMA SilentFrames ==
  ASSUME NEW a \in Seq(Frame), NEW b \in Seq(Frame), NEW u, ~Mentions(b, u),
         NEW read, NEW these, LastSays(a, read, u, these)
  PROVE  LastSays(a \o b, read, u, these)
<1> DEFINE q == a \o b
<1>1. /\ DOMAIN a = 1..Len(a) /\ DOMAIN b = 1..Len(b) /\ DOMAIN q = 1..(Len(a) + Len(b))
      /\ Len(a) \in Nat /\ Len(b) \in Nat
      /\ \A i \in 1..Len(a) : q[i] = a[i]
      /\ \A i \in (Len(a) + 1)..(Len(a) + Len(b)) : q[i] = b[i - Len(a)] /\ i - Len(a) \in 1..Len(b)
  OBVIOUS
<1> HIDE DEF q
<1>2. \A i \in DOMAIN q : q[i].url = u => i \in DOMAIN a
  BY <1>1 DEF Mentions
<1>3. \A i \in DOMAIN a : i \in DOMAIN q /\ q[i] = a[i]
  BY <1>1
<1>4. LastSays(q, read, u, these)
  BY <1>2, <1>3 DEF LastSays
<1> QED
  BY <1>4 DEF q

LEMMA SpokenLast ==
  ASSUME NEW a \in Seq(Frame), NEW b \in Seq(Frame), NEW u, Mentions(b, u),
         NEW read, NEW these, \A i \in DOMAIN b : b[i].url = u => b[i].says \in these
  PROVE  LastSays(a \o b, read, u, these)
<1> DEFINE q == a \o b
<1>1. /\ DOMAIN a = 1..Len(a) /\ DOMAIN b = 1..Len(b) /\ DOMAIN q = 1..(Len(a) + Len(b))
      /\ Len(a) \in Nat /\ Len(b) \in Nat
      /\ \A i \in 1..Len(b) : Len(a) + i \in DOMAIN q /\ q[Len(a) + i] = b[i]
      /\ \A i \in (Len(a) + 1)..(Len(a) + Len(b)) : q[i] = b[i - Len(a)] /\ i - Len(a) \in 1..Len(b)
  OBVIOUS
<1> HIDE DEF q
<1>2. PICK k \in DOMAIN b : b[k].url = u
  BY DEF Mentions
<1>3. Len(a) + k \in DOMAIN q /\ q[Len(a) + k].url = u
  BY <1>1, <1>2
<1>4. ASSUME NEW i \in DOMAIN q, q[i].url = u, \A j \in DOMAIN q : j > i => q[j].url # u
      PROVE  q[i].says \in these
  <2>1. i >= Len(a) + k
    BY <1>1, <1>3, <1>4
  <2>2. i - Len(a) \in DOMAIN b /\ q[i] = b[i - Len(a)]
    BY <1>1, <1>2, <2>1
  <2> QED
    BY <1>4, <2>2
<1>5. LastSays(q, read, u, these)
  BY <1>3, <1>4 DEF LastSays
<1> QED
  BY <1>5 DEF q

LEMMA FrameRead ==
  ASSUME NEW q \in Seq(Frame), q # <<>>, NEW u, NEW read, NEW these, LastSays(q, read, u, these)
  PROVE  LastSays(Tail(q), IF Head(q).url = u THEN Head(q).says ELSE read, u, these)
<1> DEFINE r == Tail(q)
           now == IF Head(q).url = u THEN Head(q).says ELSE read
<1>1. /\ DOMAIN q = 1..Len(q) /\ DOMAIN r = 1..(Len(q) - 1) /\ Len(q) \in Nat /\ Len(q) >= 1
      /\ Head(q) = q[1] /\ \A i \in DOMAIN r : r[i] = q[i + 1] /\ i + 1 \in DOMAIN q
      /\ \A i \in DOMAIN q : i # 1 => i - 1 \in DOMAIN r /\ q[i] = r[i - 1]
  OBVIOUS
<1> HIDE DEF r
<1>2. ASSUME \A i \in DOMAIN r : r[i].url # u
      PROVE  now \in these
  <2>1. \A j \in DOMAIN q : j > 1 => q[j].url # u
    BY <1>1, <1>2
  <2>2. 1 \in DOMAIN q
    BY <1>1
  <2>3. CASE q[1].url = u
    BY <1>1, <2>1, <2>2, <2>3 DEF LastSays
  <2>4. CASE q[1].url # u
    <3>1. \A j \in DOMAIN q : q[j].url # u
      BY <1>1, <2>1, <2>4
    <3> QED
      BY <1>1, <2>4, <3>1 DEF LastSays
  <2> QED
    BY <2>3, <2>4
<1>3. ASSUME NEW i \in DOMAIN r, r[i].url = u, \A j \in DOMAIN r : j > i => r[j].url # u
      PROVE  r[i].says \in these
  <2>1. i + 1 \in DOMAIN q /\ q[i + 1] = r[i] /\ i \in Nat
    BY <1>1
  <2>2. \A j \in DOMAIN q : j > i + 1 => q[j].url # u
    BY <1>1, <1>3, <2>1
  <2> QED
    BY <1>3, <2>1, <2>2 DEF LastSays
<1>4. LastSays(r, now, u, these)
  BY <1>2, <1>3 DEF LastSays
<1> QED
  BY <1>4 DEF r

(* One write of a set of frames holds each of them and nothing else.       *)
LEMMA OrderingHolds ==
  ASSUME NEW F, IsFiniteSet(F), NEW q \in Orderings(F)
  PROVE  /\ \A i \in DOMAIN q : q[i] \in F
         /\ \A f \in F : \E i \in DOMAIN q : q[i] = f
<1> DEFINE n == Cardinality(F)
<1>1. n \in Nat
  BY FS_CardinalityType
<1>2. q \in [1..n -> F] /\ DOMAIN q = 1..n /\ \A i, j \in 1..n : i # j => q[i] # q[j]
  BY DEF Orderings
<1>3. IsFiniteSet(1..n) /\ Cardinality(1..n) = n
  <2>1. n = 0 \/ n > 0
    BY <1>1
  <2> HIDE DEF n
  <2> QED
    BY <1>1, <2>1, FS_Interval
<1>4. q \in Injection(1..n, F)
  <2> HIDE DEF n
  <2> QED
    BY <1>2 DEF Injection, IsInjective
<1>5. q \in Surjection(1..n, F)
  BY <1>3, <1>4, FS_Injection
<1> QED
  BY <1>2, <1>5 DEF Surjection

LEMMA ResultTells ==
  ASSUME TypeOK, NEW u \in URLs
  PROVE  Result(u).url = u /\ Result(u).says \in Telling(Seen(u))
<1>1. record[u] \in {"pending", "withheld", "settled", "gone"}
  BY DEF TypeOK, Records
<1> QED
  BY <1>1 DEF Result, Seen, Telling

LEMMA ResultsTell ==
  ASSUME TypeOK, NEW U \in SUBSET URLs, NEW q \in Orderings({Result(u) : u \in U}), NEW u \in URLs
  PROVE  /\ Mentions(q, u) <=> u \in U
         /\ \A i \in DOMAIN q : q[i].url = u => q[i] = Result(u)
<1>1. IsFiniteSet({Result(w) : w \in U})
  BY ResultsAreFinite
<1>2. /\ \A i \in DOMAIN q : \E w \in U : q[i] = Result(w)
      /\ \A w \in U : \E i \in DOMAIN q : q[i] = Result(w)
  <2> DEFINE F == {Result(w) : w \in U}
  <2>1. q \in Orderings(F) /\ IsFiniteSet(F)
    BY <1>1
  <2>2. (\A i \in DOMAIN q : q[i] \in F) /\ (\A f \in F : \E i \in DOMAIN q : q[i] = f)
    <3> HIDE DEF F
    <3> QED
      BY <2>1, OrderingHolds
  <2> QED
    BY <2>2
<1>3. \A w \in U : Result(w).url = w
  BY ResultTells
<1> QED
  BY <1>2, <1>3 DEF Mentions

LEMMA RemovalsTell ==
  ASSUME NEW U \in SUBSET URLs, NEW q \in Orderings({[url |-> u, says |-> "removed"] : u \in U}),
         NEW u \in URLs
  PROVE  /\ Mentions(q, u) <=> u \in U
         /\ \A i \in DOMAIN q : q[i].url = u => q[i].says = "removed"
<1>1. IsFiniteSet({[url |-> w, says |-> "removed"] : w \in U})
  BY RemovalsAreFinite
<1>2. /\ \A i \in DOMAIN q : \E w \in U : q[i] = [url |-> w, says |-> "removed"]
      /\ \A w \in U : \E i \in DOMAIN q : q[i] = [url |-> w, says |-> "removed"]
  <2> DEFINE F == {[url |-> w, says |-> "removed"] : w \in U}
  <2>1. q \in Orderings(F) /\ IsFiniteSet(F)
    BY <1>1
  <2>2. (\A i \in DOMAIN q : q[i] \in F) /\ (\A f \in F : \E i \in DOMAIN q : q[i] = f)
    <3> HIDE DEF F
    <3> QED
      BY <2>1, OrderingHolds
  <2> QED
    BY <2>2
<1> QED
  BY <1>2 DEF Mentions

(* A step that leaves stream, frames and what was seen as they were.       *)
LEMMA NothingTold ==
  ASSUME TInv, UNCHANGED <<session, wire, heard>>, stream.phase = "open" <=> stream'.phase = "open"
  PROVE  Fresh' /\ ToldWhatIsTracked'
BY DEF TInv, Fresh, ToldWhatIsTracked

LEMMA OpenTells ==
  ASSUME TInv, OpenArrives
  PROVE  Fresh' /\ ToldWhatIsTracked'
<1> DEFINE seen == [u \in URLs |-> IF u \in stream.urls THEN Seen(u) ELSE "none"]
           empty == <<>>
           s == [live |-> TRUE, end |-> "none", tracked |-> seen, queue |-> empty]
           first == <<[url |-> None, says |-> "session"]>>
<1>1. PICK burst \in Orderings({Result(u) : u \in stream.urls}) : Settles(s, first \o burst)
  BY DEF OpenArrives
<1>2. TypeOK /\ stream.urls \in SUBSET URLs /\ seen \in Tracked
  BY SeenTyped DEF TInv, VInv, TypeOK, Tracked
<1>3. burst \in Seq(Frame) /\ first \in Seq(Frame)
  BY <1>1, <1>2, ResultsAreSequences DEF Frame
<1>4. /\ stream'.phase = "open" /\ heard' = heard /\ stream.phase = "opening"
      /\ \A u \in URLs : heard[u] = "none"
  BY DEF OpenArrives, TInv, VInv, TypeOK, Fresh
<1>5. s \in SessionType /\ s.live /\ s.end = "none" /\ s.tracked = seen /\ s.queue = empty
  <2>1. empty \in Seq(Frame)
    OBVIOUS
  <2> HIDE DEF seen, empty
  <2> QED
    BY <1>2, <2>1 DEF SessionType
<1> HIDE DEF s, first
<1>6. /\ session'.tracked = seen
      /\ wire' \o session'.queue = (first \o burst) \o s.queue
  <2>1. first \o burst \in Seq(Frame)
    BY <1>3
  <2> QED
    BY <1>1, <1>2, <1>5, <2>1, SettlesLeaves
<1>7. wire' \o session'.queue = first \o burst
  BY <1>3, <1>5, <1>6
<1>8. ASSUME NEW u \in URLs
      PROVE  LastSays(first \o burst, heard[u], u, Telling(seen[u]))
  <2>1. CASE u \in stream.urls
    <3>1. Result(u).says \in Telling(seen[u])
      BY <1>2, <2>1, ResultTells
    <3>2. Mentions(burst, u) /\ \A i \in DOMAIN burst : burst[i].url = u => burst[i] = Result(u)
      BY <1>2, <2>1, ResultsTell
    <3> QED
      BY <1>3, <3>1, <3>2, SpokenLast
  <2>2. CASE u \notin stream.urls
    <3>1. ~Mentions(burst, u) /\ seen[u] = "none"
      BY <1>2, <2>2, ResultsTell
    <3>2. LastSays(first, heard[u], u, Telling(seen[u]))
      <4>1. "none" \in Telling("none")
        BY DEF Telling
      <4>2. \A i \in DOMAIN first : first[i].url # u
        BY VerifyBatchAssumption DEF first
      <4> QED
        BY <1>4, <3>1, <4>1, <4>2 DEF LastSays
    <3> QED
      BY <1>3, <3>1, <3>2, SilentFrames
  <2> QED
    BY <2>1, <2>2
<1> QED
  BY <1>4, <1>6, <1>7, <1>8 DEF Fresh, ToldWhatIsTracked

LEMMA UpdateTells ==
  ASSUME TInv, NEW m \in updates, UpdateArrives(m)
  PROVE  Fresh' /\ ToldWhatIsTracked'
<1> DEFINE gone == {u \in m.remove : session.tracked[u] # "none"}
           new == {u \in m.add : session.tracked[u] = "none" \/ u \in gone}
           tracked == [u \in URLs |-> IF u \in new THEN Seen(u)
                                      ELSE IF u \in gone THEN "none" ELSE session.tracked[u]]
<1>1. TypeOK /\ m \in Update /\ gone \in SUBSET URLs /\ new \in SUBSET URLs
  BY DEF TInv, VInv, TypeOK, Update
<1>2. PICK removed \in Orderings({[url |-> u, says |-> "removed"] : u \in gone}),
           added \in Orderings({Result(u) : u \in new}) :
        Settles([session EXCEPT !.tracked = tracked, !.queue = session.queue \o removed \o added], wire)
  BY DEF UpdateArrives
<1>3. tracked \in Tracked
  BY <1>1, SeenTyped DEF TypeOK, Tracked
<1>4. removed \in Seq(Frame) /\ added \in Seq(Frame) /\ session.queue \in Seq(Frame) /\ wire \in Seq(Frame)
  BY <1>1, RemovalsAreSequences, ResultsAreSequences DEF TypeOK
<1> DEFINE queue == session.queue \o removed \o added
           s == [session EXCEPT !.tracked = tracked, !.queue = queue]
<1>5. queue \in Seq(Frame)
  BY <1>4
<1>6. /\ session.live /\ session.end = "none" /\ session \in SessionType
      /\ stream.phase = "open" /\ stream' = stream /\ heard' = heard
  BY DEF UpdateArrives, TInv, VInv, TypeOK, SessionType, Linked
<1> HIDE DEF gone, new, tracked, queue
<1>7. s \in SessionType /\ s.live /\ s.end = "none" /\ s.tracked = tracked /\ s.queue = queue
  BY <1>3, <1>5, <1>6 DEF SessionType
<1>8. Settles(s, wire)
  BY <1>2 DEF queue
<1> HIDE DEF s
<1>9. session'.tracked = tracked /\ wire' \o session'.queue = wire \o queue
  BY <1>1, <1>4, <1>7, <1>8, SettlesLeaves
<1> DEFINE owed == wire \o session.queue
<1>10. owed \in Seq(Frame) /\ owed \o removed \in Seq(Frame) /\ wire \o queue = (owed \o removed) \o added
  <2> DEFINE first == session.queue \o removed
  <2>1. first \in Seq(Frame) /\ owed \in Seq(Frame)
    BY <1>4
  <2>2. wire \o first = owed \o removed
    BY <1>4, Regrouped
  <2>3. queue = first \o added
    BY DEF queue
  <2> HIDE DEF first
  <2>4. wire \o (first \o added) = (wire \o first) \o added
    BY <1>4, <2>1, Regrouped
  <2>5. owed \o removed \in Seq(Frame)
    BY <1>4, <2>1
  <2> QED
    BY <2>1, <2>2, <2>3, <2>4, <2>5
<1>11. ASSUME NEW u \in URLs
       PROVE  LastSays((owed \o removed) \o added, heard[u], u, Telling(tracked[u]))
  <2>1. CASE u \in new
    <3>1. tracked[u] = Seen(u)
      BY <2>1 DEF tracked
    <3>2. Mentions(added, u) /\ \A i \in DOMAIN added : added[i].url = u => added[i].says \in Telling(tracked[u])
      BY <1>1, <2>1, <3>1, ResultsTell, ResultTells
    <3> QED
      BY <1>4, <1>10, <3>2, SpokenLast
  <2>2. CASE u \notin new /\ u \in gone
    <3>1. "removed" \in Telling(tracked[u])
      BY <2>2 DEF tracked, Telling
    <3>2. Mentions(removed, u) /\ \A i \in DOMAIN removed : removed[i].url = u => removed[i].says = "removed"
      BY <1>1, <2>2, RemovalsTell
    <3>3. ~Mentions(added, u)
      BY <1>1, <2>2, ResultsTell
    <3>4. LastSays(owed \o removed, heard[u], u, Telling(tracked[u]))
      BY <1>4, <1>10, <3>1, <3>2, SpokenLast
    <3> QED
      BY <1>4, <1>10, <3>3, <3>4, SilentFrames
  <2>3. CASE u \notin new /\ u \notin gone
    <3>1. tracked[u] = session.tracked[u]
      BY <2>3 DEF tracked
    <3>2. ~Mentions(removed, u) /\ ~Mentions(added, u)
      BY <1>1, <2>3, RemovalsTell, ResultsTell
    <3>3. LastSays(owed, heard[u], u, Telling(tracked[u]))
      BY <1>6, <3>1 DEF TInv, ToldWhatIsTracked
    <3>4. LastSays(owed \o removed, heard[u], u, Telling(tracked[u]))
      BY <1>4, <1>10, <3>2, <3>3, SilentFrames
    <3> QED
      BY <1>4, <1>10, <3>2, <3>4, SilentFrames
  <2> QED
    BY <2>1, <2>2, <2>3
<1> QED
  BY <1>6, <1>9, <1>10, <1>11 DEF Fresh, ToldWhatIsTracked

LEMMA TickTells ==
  ASSUME TInv, Tick \/ MaxDuration
  PROVE  Fresh' /\ ToldWhatIsTracked'
<1>1. /\ TypeOK /\ session.live /\ session \in SessionType /\ session.end = "none" /\ stream.phase = "open"
      /\ session.queue \in Seq(Frame) /\ wire \in Seq(Frame) /\ UNCHANGED <<stream, heard>>
  BY DEF Tick, MaxDuration, TInv, VInv, TypeOK, SessionType, Linked, watcher, client
<1> DEFINE owed == wire \o session.queue
<1>a. owed \in Seq(Frame)
  BY <1>1
<1>2. \A u \in URLs : LastSays(owed, heard[u], u, Telling(session.tracked[u]))
  BY <1>1 DEF TInv, ToldWhatIsTracked
<1>3. CASE Tick
  <2> DEFINE tracked == [u \in URLs |-> IF u \in Flips THEN "settled"
                                        ELSE IF session.tracked[u] = "pending" /\ record[u] = "gone"
                                        THEN "expired" ELSE session.tracked[u]]
             empty == <<>>
             s == [session EXCEPT !.tracked = tracked, !.queue = empty]
  <2>1. PICK flips \in Orderings({Result(u) : u \in Flips}) : Settles(s, wire \o session.queue \o flips)
    BY <1>3 DEF Tick
  <2>2. tracked \in Tracked
    BY <1>1 DEF SessionType, Tracked
  <2>3. flips \in Seq(Frame) /\ Flips \in SUBSET URLs
    <3>1. Flips \in SUBSET URLs
      BY DEF Flips
    <3> QED
      BY <1>1, <2>1, <3>1, ResultsAreSequences
  <2>4. owed \o flips \in Seq(Frame)
    BY <1>a, <2>3
  <2>5. s \in SessionType /\ s.live /\ s.end = "none" /\ s.tracked = tracked /\ s.queue = empty
    <3>1. empty \in Seq(Frame)
      OBVIOUS
    <3> HIDE DEF tracked, empty
    <3> QED
      BY <1>1, <2>2, <3>1 DEF SessionType
  <2> HIDE DEF s
  <2>6. session'.tracked = tracked /\ wire' \o session'.queue = (owed \o flips) \o s.queue
    BY <1>1, <2>1, <2>4, <2>5, SettlesLeaves
  <2>7. wire' \o session'.queue = owed \o flips
    BY <2>4, <2>5, <2>6
  <2>9. TypeOK /\ Flips \in SUBSET URLs /\ flips \in Orderings({Result(w) : w \in Flips})
    BY <1>1, <2>1, <2>3
  <2>8. ASSUME NEW u \in URLs
        PROVE  LastSays(owed \o flips, heard[u], u, Telling(tracked[u]))
    <3>1. CASE u \in Flips
      <4>1. Result(u).says \in Telling(tracked[u])
        BY <3>1 DEF Flips, Result, Telling
      <4>2. Mentions(flips, u) /\ \A i \in DOMAIN flips : flips[i].url = u => flips[i] = Result(u)
        BY <2>9, <3>1, ResultsTell
      <4> QED
        BY <1>a, <2>3, <4>1, <4>2, SpokenLast
    <3>2. CASE u \notin Flips
      <4>1. ~Mentions(flips, u)
        BY <2>9, <3>2, ResultsTell
      <4>2. Telling(tracked[u]) = Telling(session.tracked[u])
        BY <3>2 DEF Telling
      <4> QED
        BY <1>a, <1>2, <2>3, <4>1, <4>2, SilentFrames
    <3> QED
      BY <3>1, <3>2
  <2> QED
    BY <1>1, <2>6, <2>7, <2>8 DEF Fresh, ToldWhatIsTracked
<1>4. CASE MaxDuration
  <2>1. /\ session' = [session EXCEPT !.live = FALSE, !.end = "closed", !.queue = <<>>]
        /\ wire' = owed
    BY <1>4 DEF MaxDuration, Flushed
  <2>2. session'.tracked = session.tracked /\ session'.queue = <<>>
    BY <1>1, <2>1 DEF SessionType
  <2>3. wire' \o session'.queue = owed
    BY <1>1, <2>1, <2>2
  <2> QED
    BY <1>1, <1>2, <2>2, <2>3 DEF Fresh, ToldWhatIsTracked
<1> QED
  BY <1>3, <1>4

LEMMA CloseTells ==
  ASSUME TInv, OrphanCloses \/ Restart
  PROVE  Fresh' /\ ToldWhatIsTracked'
<1>1. UNCHANGED <<stream, heard, wire>>
  BY DEF OrphanCloses, Restart, client
<1>2. CASE session' = session
  BY <1>1, <1>2, NothingTold
<1>3. CASE session' # session
  <2>1. session' = [session EXCEPT !.live = FALSE, !.end = "cut", !.queue = <<>>]
    BY <1>3 DEF OrphanCloses, Restart
  <2>2. session'.end = "cut"
    BY <2>1 DEF TInv, VInv, TypeOK
  <2> QED
    BY <1>1, <2>2 DEF TInv, Fresh, ToldWhatIsTracked
<1> QED
  BY <1>2, <1>3

LEMMA ReadTells ==
  ASSUME TInv, ReadSession \/ ReadRemoved \/ \E u \in URLs : ReadResult(u)
  PROVE  Fresh' /\ ToldWhatIsTracked'
<1>1. /\ wire # <<>> /\ wire' = Tail(wire) /\ stream.phase = "open" /\ session' = session
      /\ wire \in Seq(Frame) /\ Head(wire) \in Frame /\ session.queue \in Seq(Frame)
  BY DEF ReadSession, ReadRemoved, ReadResult, Reads, server, TInv, VInv, TypeOK
<1>2. stream'.phase = "open"
  BY <1>1 DEF ReadSession, ReadRemoved, ReadResult, TInv, VInv, TypeOK
<1>3. \A u \in URLs : heard'[u] = IF Head(wire).url = u THEN Head(wire).says ELSE heard[u]
  <2>1. heard \in [URLs -> Says \cup {"none"}]
    BY DEF TInv, VInv, TypeOK
  <2>2. CASE ReadSession
    <3>1. Head(wire).url = None
      BY <1>1, <2>2 DEF ReadSession, Frame, Says
    <3> QED
      BY <2>2, <3>1, VerifyBatchAssumption DEF ReadSession
  <2>3. CASE ReadRemoved
    BY <2>1, <2>3 DEF ReadRemoved
  <2>4. CASE \E u \in URLs : ReadResult(u)
    BY <2>1, <2>4 DEF ReadResult
  <2> QED
    BY <2>2, <2>3, <2>4
<1> DEFINE owed == wire \o session.queue
<1>4. owed \in Seq(Frame) /\ owed # <<>> /\ Head(owed) = Head(wire) /\ Tail(owed) = wire' \o session'.queue
  <2>1. owed \in Seq(Frame) /\ owed # <<>> /\ Head(owed) = Head(wire)
    BY <1>1
  <2>2. Tail(owed) = Tail(wire) \o session.queue
    BY <1>1
  <2> QED
    BY <1>1, <2>1, <2>2
<1>5. ASSUME NEW u \in URLs, session.end # "cut"
      PROVE  LastSays(Tail(owed), heard'[u], u, Telling(session.tracked[u]))
  <2>1. LastSays(owed, heard[u], u, Telling(session.tracked[u]))
    BY <1>1, <1>5 DEF TInv, ToldWhatIsTracked
  <2> HIDE DEF owed
  <2> QED
    BY <1>3, <1>4, <2>1, FrameRead
<1> QED
  BY <1>1, <1>2, <1>4, <1>5 DEF Fresh, ToldWhatIsTracked

LEMMA TInvStep == TInv /\ [Next]_vars => TInv'
<1> SUFFICES ASSUME TInv, [Next]_vars PROVE Fresh' /\ ToldWhatIsTracked'
  BY VInvStep DEF TInv
<1>1. ASSUME Ends \/ Stop
      PROVE  Fresh' /\ ToldWhatIsTracked'
  <2>1. stream' = NoStream /\ wire' = <<>> /\ heard' = [u \in URLs |-> "none"]
    BY <1>1 DEF Ends, Stop, Drop
  <2> QED
    BY <2>1 DEF Fresh, ToldWhatIsTracked, NoStream
<1>2. CASE ServerStep
  BY <1>2, OpenTells, UpdateTells, TickTells, CloseTells DEF ServerStep
<1>3. CASE StreamStep
  BY <1>1, <1>3, ReadTells DEF StreamStep, OpenFails, ReadEnd, UpdateRefused, StreamBreaks, ReadBad
<1>4. ASSUME NEW u \in URLs, Add(u)
      PROVE  Fresh' /\ ToldWhatIsTracked'
  <2>1. UNCHANGED <<session, wire, heard>>
    BY <1>4 DEF Add, server
  <2>2. stream.phase = "open" <=> stream'.phase = "open"
    BY <1>4 DEF Add, Connect
  <2> QED
    BY <2>1, <2>2, NothingTold
<1>5. CASE RetryFires
  <2>1. UNCHANGED <<session, wire, heard>> /\ stream.phase = "off" /\ stream'.phase = "opening"
    BY <1>5 DEF RetryFires, Connect, server, TInv, VInv, Linked
  <2> QED
    BY <2>1, NothingTold
<1>6. ASSUME NEW u \in URLs, Lapse(u) \/ RecordMoves(u)
      PROVE  Fresh' /\ ToldWhatIsTracked'
  BY <1>6, NothingTold DEF Lapse, RecordMoves, client, server
<1>7. CASE UNCHANGED vars
  BY <1>7, NothingTold DEF vars, client, server
<1> QED
  BY <1>1, <1>2, <1>3, <1>4, <1>5, <1>6, <1>7 DEF Next, WatcherStep

(* Whatever overtakes what, the last thing a client is told of an invoice, *)
(* of all it has read and all that is on its way, is what its session saw  *)
(* last: no flip is lost to an update, a removal or a close.               *)
THEOREM LastWordIsTracked == Spec => []ToldWhatIsTracked
<1>1. Init => TInv
  <2> SUFFICES ASSUME Init PROVE Fresh /\ ToldWhatIsTracked
    BY VInvInit DEF TInv
  <2> QED
    BY DEF Init, Fresh, ToldWhatIsTracked, NoStream
<1>2. TInv => ToldWhatIsTracked
  BY DEF TInv
<1> QED
  BY <1>1, <1>2, TInvStep, PTL DEF Spec

=============================================================================
