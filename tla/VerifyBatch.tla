---------------------------- MODULE VerifyBatch ----------------------------
(***************************************************************************)
(* Many pending invoices on one verifyBatch stream: the server's stream    *)
(* sessions, the client's stream, and the settlement watcher that keeps    *)
(* one stream open over whatever it still waits for.                       *)
(*                                                                         *)
(* A session tracks verify URLs, tells of each once and again when it      *)
(* settles, and closes when none can change any more. The watcher adds and *)
(* removes URLs with requests of their own, which overtake one another and *)
(* race the server's close; whatever ends the stream makes it reopen.      *)
(***************************************************************************)
EXTENDS Integers, Sequences, FiniteSets

CONSTANTS
  URLs,          (* one for each invoice the wallet requests               *)
  MaxSessions,   (* concurrent streams of the server                       *)
  None

ASSUME VerifyBatchAssumption ==
  /\ IsFiniteSet(URLs) /\ None \notin URLs
  /\ MaxSessions \in Nat \ {0}

VARIABLES
  record,        (* the settlement behind each URL, as the server reads it *)
  pending,       (* the watcher's map: URLs not known to have settled      *)
  told,          (* what its handlers were told                            *)
  lapsed,        (* URLs past their watch window                           *)
  unsent,        (* added before the stream announced its session          *)
  retry,         (* a reconnect is scheduled                               *)
  stopped,
  stream,        (* the client's stream, and whether it has a sessionId    *)
  heard,         (* the last frame it read about each URL                  *)
  updates,       (* its update requests under way                          *)
  session,       (* the server's session of that stream                    *)
  wire,          (* frames written to it and not yet read                  *)
  orphans,       (* sessions whose client is gone, not yet closed          *)
  timer          (* the server's poll timer runs                           *)

watcher == <<pending, told, lapsed, unsent, retry, stopped>>
client  == <<stream, heard, updates>>
server  == <<session, orphans, timer>>
vars    == <<record, watcher, client, server, wire>>

(* settled means proof is out; withheld, that the payout is not on record; *)
(* gone, that the record is past its lifetime.                             *)
Records == {"pending", "withheld", "settled", "gone"}

(* session.tracked: lastSeen of each, or none when it is not tracked.      *)
Tracked == [URLs -> {"none", "pending", "settled", "unknown", "expired"}]

(* bad is a result that proves nothing: an unknown URL, or settled with    *)
(* the preimage withheld.                                                  *)
Says  == {"pending", "settled", "bad", "removed"}
Frame == [url : URLs, says : Says] \cup {[url |-> None, says |-> "session"]}

Update == [add : SUBSET URLs, remove : SUBSET URLs]

NoSession == [live |-> FALSE, end |-> "none", tracked |-> [u \in URLs |-> "none"], queue |-> <<>>]
NoStream  == [phase |-> "off", known |-> FALSE, urls |-> {}]

TypeOK ==
  /\ record \in [URLs -> Records]
  /\ pending \subseteq URLs /\ lapsed \subseteq pending /\ unsent \subseteq pending
  /\ told \in [URLs -> {"nothing", "settled", "gaveUp"}]
  /\ retry \in BOOLEAN /\ stopped \in BOOLEAN
  /\ stream \in [phase : {"off", "opening", "open"}, known : BOOLEAN, urls : SUBSET URLs]
  /\ heard \in [URLs -> Says \cup {"none"}]
  /\ updates \subseteq Update
  /\ session \in [live : BOOLEAN, end : {"none", "closed", "cut"}, tracked : Tracked, queue : Seq(Frame)]
  /\ wire \in Seq(Frame)
  /\ orphans \in 0..MaxSessions
  /\ timer \in BOOLEAN

(* One write of several frames; which comes first does not matter.         *)
Orderings(fs) == {q \in [1..Cardinality(fs) -> fs] : \A i, j \in DOMAIN q : i # j => q[i] # q[j]}

-----------------------------------------------------------------------------
(* The server.                                                             *)

Sessions == orphans + (IF session.live THEN 1 ELSE 0)

(* track: what is seen of a URL, and the frame that says it.               *)
Seen(u) ==
  CASE record[u] = "pending" -> "pending"
    [] record[u] \in {"settled", "withheld"} -> "settled"
    [] record[u] = "gone" -> "unknown"

Result(u) == [url |-> u, says |-> IF record[u] \in {"withheld", "gone"} THEN "bad" ELSE record[u]]

(* Mutant of Flushed: the frames it still owes are dropped.                *)
FlushedNever(s, w) == w

(* closeSession's flushQueue.                                              *)
Flushed(s, w) == w \o s.queue

Terminal(tracked) == \A u \in URLs : tracked[u] # "pending"

(* Mutant of StopsTimer: any close stops it.                               *)
StopsTimerAny(left) == TRUE

StopsTimer(left) == left = 0

(* Mutant of Room: one too many.                                           *)
RoomForOneMore == Sessions <= MaxSessions

(* canOpenStream.                                                          *)
Room == Sessions < MaxSessions

(* closeIfSettled, after the session became s and wrote w.                 *)
Settles(s, w) ==
  IF Terminal(s.tracked)
  THEN /\ session' = [s EXCEPT !.live = FALSE, !.end = "closed", !.queue = <<>>]
       /\ wire' = Flushed(s, w)
       /\ timer' = (timer /\ ~StopsTimer(orphans))
  ELSE session' = s /\ wire' = w /\ timer' = TRUE

(* openStream: the session frame, the burst, and the timer.                *)
OpenArrives ==
  LET seen == [u \in URLs |-> IF u \in stream.urls THEN Seen(u) ELSE "none"] IN
  /\ stream.phase = "opening" /\ Room
  /\ stream' = [stream EXCEPT !.phase = "open"]
  /\ \E burst \in Orderings({Result(u) : u \in stream.urls}) :
       Settles([live |-> TRUE, end |-> "none", tracked |-> seen, queue |-> <<>>],
               <<[url |-> None, says |-> "session"]>> \o burst)
  /\ UNCHANGED <<record, watcher, heard, updates, orphans>>

(* update, of a session that is there.                                     *)
UpdateArrives(m) ==
  LET gone    == {u \in m.remove : session.tracked[u] # "none"}
      new     == {u \in m.add : session.tracked[u] = "none" \/ u \in gone}
      tracked == [u \in URLs |-> IF u \in new THEN Seen(u)
                                 ELSE IF u \in gone THEN "none" ELSE session.tracked[u]] IN
  /\ session.live
  /\ updates' = updates \ {m}
  /\ \E removed \in Orderings({[url |-> u, says |-> "removed"] : u \in gone}),
        added \in Orderings({Result(u) : u \in new}) :
       Settles([session EXCEPT !.tracked = tracked, !.queue = @ \o removed \o added], wire)
  /\ UNCHANGED <<record, watcher, stream, heard, orphans>>

Flips == {u \in URLs : session.tracked[u] = "pending" /\ record[u] \in {"settled", "withheld"}}

(* tick, of this session: owed frames first, then one for each flip. A     *)
(* record that vanished is not streamed.                                   *)
Tick ==
  LET tracked == [u \in URLs |-> IF u \in Flips THEN "settled"
                                 ELSE IF session.tracked[u] = "pending" /\ record[u] = "gone"
                                 THEN "expired" ELSE session.tracked[u]] IN
  /\ timer /\ session.live
  /\ \E flips \in Orderings({Result(u) : u \in Flips}) :
       Settles([session EXCEPT !.tracked = tracked, !.queue = <<>>], wire \o session.queue \o flips)
  /\ UNCHANGED <<record, watcher, client, orphans>>

(* tick again: the session is past its longest duration.                   *)
MaxDuration ==
  /\ timer /\ session.live
  /\ session' = [session EXCEPT !.live = FALSE, !.end = "closed", !.queue = <<>>]
  /\ wire' = Flushed(session, wire)
  /\ timer' = ~StopsTimer(orphans)
  /\ UNCHANGED <<record, watcher, client, orphans>>

(* The response's close event, or a close of the session's own.            *)
OrphanCloses ==
  /\ orphans > 0
  /\ orphans' = orphans - 1
  /\ timer' = (timer /\ ~StopsTimer(Sessions - 1))
  /\ UNCHANGED <<record, watcher, client, session, wire>>

(* stop(): every stream ends, whatever it owes; then a new process.        *)
Restart ==
  /\ Sessions > 0
  /\ session' = IF session.live
                THEN [session EXCEPT !.live = FALSE, !.end = "cut", !.queue = <<>>] ELSE session
  /\ orphans' = 0 /\ timer' = FALSE
  /\ UNCHANGED <<record, watcher, client, wire>>

-----------------------------------------------------------------------------
(* The stream and its watcher.                                             *)

(* connect, over whatever is pending now.                                  *)
Connect(urls) ==
  /\ stream' = [phase |-> "opening", known |-> FALSE, urls |-> urls]
  /\ retry' = FALSE /\ unsent' = {}

(* The stream ends: its session, if there is one, is the server's to close.*)
(* A request to open may reach the server all the same.                    *)
Drop ==
  /\ stream' = NoStream /\ session' = NoSession
  /\ wire' = <<>> /\ updates' = {} /\ heard' = [u \in URLs |-> "none"]
  /\ \/ orphans' = Sessions /\ UNCHANGED timer
     \/ stream.phase = "opening" /\ Room /\ orphans' = Sessions + 1 /\ timer' = TRUE

(* Mutant of Reopen: only a stream that ended well is opened again.        *)
ReopenIfSettled(left) == left # {} /\ session.end = "closed"

Reopen(left) == left # {}

(* finish or fail, and the watcher's onClose: entries whose window is over *)
(* are given up, and a reconnect scheduled for the rest.                   *)
Ends ==
  LET left == pending \ lapsed IN
  /\ Drop
  /\ told' = [u \in URLs |-> IF u \in pending \cap lapsed THEN "gaveUp" ELSE told[u]]
  /\ pending' = left /\ lapsed' = {}
  /\ unsent' = {}
  /\ retry' = Reopen(left)
  /\ UNCHANGED <<record, stopped>>

(* Mutant of Held: a URL added too early is forgotten.                     *)
HeldNever(u) == {}

(* send throws until the session is known; the URL is kept for later.      *)
Held(u) == {u}

(* add.                                                                    *)
Add(u) ==
  /\ ~stopped /\ u \notin pending /\ told[u] = "nothing"
  /\ pending' = pending \cup {u}
  /\ \/ /\ stream.phase # "off" /\ stream.known
        /\ updates' = updates \cup {[add |-> {u}, remove |-> {}]}
        /\ UNCHANGED <<stream, retry, unsent>>
     \/ /\ stream.phase # "off" /\ ~stream.known
        /\ unsent' = unsent \cup Held(u)
        /\ UNCHANGED <<stream, retry, updates>>
     \/ /\ stream.phase = "off" /\ ~retry
        /\ Connect(pending \cup {u})
        /\ UNCHANGED updates
     \/ /\ stream.phase = "off" /\ retry
        /\ UNCHANGED <<stream, retry, unsent, updates>>
  /\ UNCHANGED <<record, told, lapsed, stopped, heard, server, wire>>

RetryFires ==
  /\ retry /\ ~stopped
  /\ Connect(pending)
  /\ UNCHANGED <<record, pending, told, lapsed, stopped, heard, updates, server, wire>>

(* The request to open is refused, for lack of room or by the rate limit,  *)
(* or never answered.                                                      *)
OpenFails == stream.phase = "opening" /\ Ends

Reads == stream.phase = "open" /\ wire # <<>>

ReadSession ==
  /\ Reads /\ Head(wire).says = "session"
  /\ wire' = Tail(wire)
  /\ stream' = [stream EXCEPT !.known = TRUE]
  /\ UNCHANGED <<record, watcher, heard, updates, server>>

(* The watcher has no use for removals.                                    *)
ReadRemoved ==
  /\ Reads /\ Head(wire).says = "removed"
  /\ wire' = Tail(wire)
  /\ heard' = [heard EXCEPT ![Head(wire).url] = "removed"]
  /\ UNCHANGED <<record, watcher, stream, updates, server>>

(* onUpdate: what was held back is sent; a settled URL leaves, and is      *)
(* removed from the stream unless it was the last one pending.             *)
ReadResult(u) ==
  LET settled == Head(wire).says = "settled" /\ u \in pending
      left    == IF settled THEN pending \ {u} ELSE pending
      adds    == IF unsent # {} THEN {[add |-> unsent, remove |-> {}]} ELSE {}
      removes == IF settled /\ left # {} THEN {[add |-> {}, remove |-> {u}]} ELSE {} IN
  /\ Reads /\ Head(wire).url = u /\ Head(wire).says \in {"pending", "settled"}
  /\ wire' = Tail(wire)
  /\ heard' = [heard EXCEPT ![u] = Head(wire).says]
  /\ updates' = updates \cup adds \cup removes
  /\ unsent' = {}
  /\ pending' = left /\ lapsed' = lapsed \cap left
  /\ told' = IF settled THEN [told EXCEPT ![u] = "settled"] ELSE told
  /\ UNCHANGED <<record, retry, stopped, stream, server>>

(* A frame that does not parse as a status ends the stream.                *)
ReadBad(u) == Reads /\ Head(wire).url = u /\ Head(wire).says = "bad" /\ Ends

ReadEnd == stream.phase = "open" /\ wire = <<>> /\ session.end # "none" /\ Ends

(* An update the server knows no session for ends the stream.              *)
UpdateRefused == updates # {} /\ ~session.live /\ Ends

(* So does one that is lost, and so does a connection that breaks.         *)
StreamBreaks == stream.phase = "open" /\ Ends

(* Bound: the window of an entry is over only while it waits for one.      *)
Lapse(u) ==
  /\ u \in pending \ lapsed
  /\ lapsed' = lapsed \cup {u}
  /\ UNCHANGED <<record, pending, told, unsent, retry, stopped, client, server, wire>>

(* stop: the tab is left.                                                  *)
Stop ==
  /\ ~stopped /\ stopped' = TRUE
  /\ Drop
  /\ pending' = {} /\ lapsed' = {} /\ unsent' = {} /\ retry' = FALSE
  /\ UNCHANGED <<record, told>>

-----------------------------------------------------------------------------
(* The records, kept by the rest of the server.                            *)

(* This build records the payout before it settles: withheld is only what  *)
(* an older one left behind.                                               *)
RecordMoves(u) ==
  /\ \/ record[u] \in {"pending", "withheld"} /\ record' = [record EXCEPT ![u] = "settled"]
     \/ record[u] # "gone" /\ record' = [record EXCEPT ![u] = "gone"]
  /\ UNCHANGED <<watcher, client, server, wire>>

Init ==
  /\ record \in [URLs -> {"pending", "withheld"}]
  /\ pending = {} /\ told = [u \in URLs |-> "nothing"] /\ lapsed = {}
  /\ unsent = {} /\ retry = FALSE /\ stopped = FALSE
  /\ stream = NoStream /\ heard = [u \in URLs |-> "none"] /\ updates = {}
  /\ session = NoSession /\ wire = <<>> /\ orphans = 0 /\ timer = FALSE

ServerStep == OpenArrives \/ Tick \/ MaxDuration \/ OrphanCloses \/ Restart \/ \E m \in updates : UpdateArrives(m)

StreamStep ==
  \/ OpenFails \/ ReadSession \/ ReadRemoved \/ ReadEnd \/ UpdateRefused \/ StreamBreaks
  \/ \E u \in URLs : ReadResult(u) \/ ReadBad(u)

WatcherStep == RetryFires \/ Stop \/ \E u \in URLs : Add(u) \/ Lapse(u)

Next == ServerStep \/ StreamStep \/ WatcherStep \/ \E u \in URLs : RecordMoves(u)

(* The server's timer and its close events run, the client reads what is   *)
(* there, requests arrive, and no connection breaks for ever at the same   *)
(* frame. The window of an entry that can prove nothing comes to its end;  *)
(* no other window has to.                                                 *)
Fairness ==
  /\ WF_vars(Tick) /\ WF_vars(OrphanCloses) /\ WF_vars(RetryFires) /\ WF_vars(ReadEnd)
  /\ WF_vars(\E m \in updates : UpdateArrives(m)) /\ WF_vars(UpdateRefused)
  /\ SF_vars(OpenArrives) /\ SF_vars(ReadSession) /\ WF_vars(ReadRemoved)
  /\ \A u \in URLs :
       /\ SF_vars(ReadResult(u)) /\ SF_vars(ReadBad(u))
       /\ WF_vars(record[u] \in {"withheld", "gone"} /\ Lapse(u))

Spec == Init /\ [][Next]_vars
FairSpec == Spec /\ Fairness

-----------------------------------------------------------------------------

(* Whatever is open is polled: no close of one stream stops the timer of   *)
(* another.                                                                *)
TimerRuns == Sessions > 0 => timer

(* What the watcher waits for is being watched, or about to be: while a    *)
(* stream is open each pending URL is tracked, or on its way there; while  *)
(* none is, a reconnect is due; and a session that is over says so.        *)
PendingIsWatched ==
  /\ pending # {} => stream.phase # "off" \/ retry
  /\ stream.phase = "opening" => pending \subseteq stream.urls \cup unsent
  /\ stream.phase = "open" => session.live \/ session.end # "none"
  /\ session.live => \A u \in pending \ unsent :
                       session.tracked[u] # "none" \/ \E m \in updates : u \in m.add

(* Of the frames about u, those of q after the one that was read, the last *)
(* says one of these.                                                      *)
LastSays(q, read, u, these) ==
  /\ (\A i \in DOMAIN q : q[i].url # u) => read \in these
  /\ \A i \in DOMAIN q :
       q[i].url = u /\ (\A j \in DOMAIN q : j > i => q[j].url # u) => q[i].says \in these

(* What can be told of a URL whose lastSeen is this.                       *)
Telling(lastSeen) ==
  CASE lastSeen = "none"    -> {"none", "removed"}
    [] lastSeen = "pending" -> {"pending"}
    [] lastSeen = "expired" -> {"pending"}
    [] lastSeen = "unknown" -> {"bad"}
    [] lastSeen = "settled" -> {"settled", "bad"}

(* "Frames the client was owed must still land": what a stream is told of  *)
(* a URL last is what the session last saw of it, however updates, flips   *)
(* and the close overtake one another; expiry alone is not told. stop()    *)
(* cuts the stream short and is excepted.                                  *)
ToldWhatIsTracked ==
  stream.phase = "open" /\ session.end # "cut" =>
    \A u \in URLs : LastSays(wire \o session.queue, heard[u], u, Telling(session.tracked[u]))

(* An invoice that settles, and whose proof is out, is reported to the     *)
(* wallet that waits for it, whatever becomes of streams, sessions and     *)
(* updates, and though another entry breaks every stream until its window  *)
(* is over. Excepted are a watcher that is stopped, a record past its      *)
(* lifetime, and an invoice whose own window is over: the next stream's    *)
(* end may give that one up unreported, but it is not left waiting.        *)
SettledIsTold ==
  \A u \in URLs :
    /\ u \in pending /\ record[u] = "settled" ~>
         told[u] = "settled" \/ u \in lapsed \/ record[u] = "gone" \/ stopped
    /\ u \in lapsed /\ record[u] = "settled" ~> u \notin lapsed \/ record[u] = "gone"
=============================================================================
