# Verification of lnurl-server

TLA+ models, model-checking runs and machine-checked proofs for lnurl-server, the
LNURL-pay server of Arkade wallets. The server turns a Lightning address or an LNURL
into an invoice or a destination on one of several rails, watches for the payment and
reports it to the payer through a verify URL. All paths below are relative to the
repository (`src/` there is the server, `packages/client` the wallets' library).

Contents: [inventory](#inventory), [modules](#modules-and-how-they-follow-the-code),
[runs](#runs), [fairness](#fairness), [proofs](#proofs),
[disagreements found](#disagreements-found), [not modelled](#what-is-not-modelled),
[plan](#plan).

## Inventory

One Node process serves HTTP, holds the wallets' event streams, and runs background
workers over one SQLite database. JavaScript runs to the next `await` without
interruption, so every hazard sits at an `await`, a timer, an event or a restart.

### Receiving while offline: the hold-invoice swap

| Component | State | Operations | What makes it correct |
|---|---|---|---|
| Offline swaps (`services/offline-swaps.ts`, `offline-swap-store.ts`, `covenant/self-claim.ts`, `workers/offline-poller.ts`) | `settlements` (settled, created_at, payout_reference) and `offline_swaps` rows; the poller's `expired`, `closed`, `asked` caches | offer; per swap: claim, read the solver's status, observe the payout, record it, settle; look up payouts missed by older builds | the preimage is published only for money on the chain; paid is eventually published; no claim for less than the quote; a crash between two writes loses nothing |
| Settlement queue (same worker) | queue, running map, retry set, slots | `trigger`, `drain`, `runOne`, pass, `stop` | one task per swap; no lost trigger, leaked slot or missed wakeup |
| Catch-up loop (`workers/catch-up-loop.ts`) | in flight, queued, stopped, timer | trigger, timer, pass ends, stop | an event during a pass is not lost; an error does not end the loop |
| Lockup watcher (`workers/lockup-watcher.ts`) | the scripts it subscribes to, delayed rechecks | sync, script events | only ever triggers the queue |

The solver funds the lockup and can take it back after a deadline; covclaimd, an
optional service that also knows the secret, may claim it; the emulator and the
operator may take a claim after they have been given up on. The row's window may end
at any time. The poller reads all of this through an indexer that may fail.

### Receiving while online: interactive sessions

| Component | State | Operations | What makes it correct |
|---|---|---|---|
| Sessions (`services/sessions.ts`, `http/routes/lnurl-session.ts`, `http/routes/lnurl-pay.ts`) | the session map, each session's stream, pending invoice and timer | open (or reopen with a token), stream closes, payer asks, wallet answers or rejects, timeout, admin disconnect, shutdown | no payer is forgotten or told two things; limits hold; a session lives as long as its stream; an answer reaches the payer it is for |
| Client (`packages/client`) | its stream, responder, back-off, payment-sync cursor | connect, respond, reconnect, sync | one answer per request; every payment is seen by sync |

### Receiving on Arkade

| Component | State | Operations | What makes it correct |
|---|---|---|---|
| Settlement store (`settlement-store.ts`, memory and database) | one record per payment hash: rail, window, settled, txid, covenant outpoint | create, get, settle, observe, mark paid out, move the outpoint, list | the two stores agree; a settled record stays settled; a window means the same everywhere |
| Destination watcher (`workers/arkade-watcher.ts`) | records per script, contract subscriptions | register, event, resync, settle | each arrival is credited once, to the oldest record it can pay; nothing paid during a resync is missed |
| Covenant destinations (`covenant/*`, `workers/covenant-*.ts`, `services/reconcile.ts`) | covenant contracts, outpoints, the forwarding rows, the late-sweep cursor | watch, sweep, renew, forward, late sweep, retire, reconcile at boot | each output is swept to its owner or renewed before it expires, once; a payment after the window is still swept |

### Receiving through an exchange

| Component | State | Operations | What makes it correct |
|---|---|---|---|
| FixedFloat orders (`ff-order-store.ts`, `workers/ff-order-poller.ts`, `rails/fixedfloat/client.ts`) | orders, references, the sliding window of request weights | create, poll, record status, fill reference; take, give back and re-date weight | the deposit and the settlement make one reference in any order; the window's budget is not exceeded |

### Around them

| Component | State | Operations | What makes it correct |
|---|---|---|---|
| Batch verification (`services/verify-batch.ts`, `packages/client/src/verify-batch.ts`, `packages/demo-wallet/src/batch-verify.ts`) | per stream: tracked hashes, frame queue, timers; the wallet's pending invoices and its reconnect | open, update, tick, close, stop; add, remove, reopen | a pending invoice is tracked or about to be; a settlement reaches the wallet; the poll timer runs while anyone is served |
| Addresses and claim codes (`services/addresses.ts`, `db/repositories/*`) | addresses with a status, a wallet and a rail policy; claim codes with a use | register, claim, upgrade, revoke, reserve, mint, set status and policy, delete, issue and reissue codes | a handle leads to one wallet; a code buys once; the operator's policy is not shed |
| LUD-16 callback and rails (`http/routes/well-known.ts`, `rails.ts`, `services/pay-flow.ts`) | none of its own | choose a rail, bound the amount | what is advertised is accepted |
| Solver discovery (`services/solver-discovery.ts`) | the snapshot of candidates, the refresh in flight | refresh, select, status, save | a quote uses a live snapshot and the saved cards |
| Price feed and quotes (`price-feed.ts`, `rates.ts`, `quote-provider.ts`) | cached rates with their age | fetch, read | a rate is no older than allowed |
| Runtime and health (`cli.ts`, `runtime.ts`, `health.ts`) | the workers started | boot, shutdown | nothing writes after the database closes |
| Rate limits (`rate-limit.ts`) | a window per address | hit | the limit |
| Configuration, codecs, admin API, schema, UI, demo wallet | none that changes by itself | parsing, formatting, presentation | |

The hazards of each, at the line where they bite, are listed in `PROJECT.json`
("hazards") with the properties that cover them.

## Modules and how they follow the code

| Module | Models | Role |
|---|---|---|
| `Receive` | what the server promises about an offline payment | abstract specification |
| `OfflineSwap` | `workers/offline-poller.ts` (settleOne, recordMissedPayouts), `covenant/self-claim.ts`, `offline-swap-store.ts`, the settlement row | detailed specification |
| `OfflineSwapProofs` | | theorems |
| `CatchUpLoop` | `workers/catch-up-loop.ts` | component, instantiated |
| `PollerQueue` | the queue of `workers/offline-poller.ts` composed with `CatchUpLoop` | detailed specification |
| `PollerQueueProofs` | | theorems |
| `Session` | `services/sessions.ts` with its routes | detailed specification |
| `SessionProofs` | | theorems |
| `ArkadeWatcher` | `workers/arkade-watcher.ts` (settleDestinationPayments, settleAtScript) with the rows of static Arkade destinations, on `CatchUpLoop` | detailed specification |
| `ArkadeWatcherProofs` | | theorems |
| `Covenant` | `workers/covenant-watcher.ts`, `covenant-sweeper.ts`, `covenant-late-sweep.ts`, `covenant-forwarding.ts`, `covenant-renewal.ts` with the rows of covenant destinations | detailed specification |
| `CovenantProofs` | | theorems |
| `FixedFloat` | `rails/fixedfloat/client.ts` (FfBudget, Strikes), `createFixedFloatDestination` of `services/pay-flow.ts`, `ff-order-store.ts`, `workers/ff-order-poller.ts` | detailed specification |
| `FixedFloatProofs` | | theorems |
| `VerifyBatch` | `services/verify-batch.ts` with its routes, the client library's stream and the demo wallet's watcher over it | detailed specification, both ends of the wire |
| `VerifyBatchProofs` | | theorems |
| `Addresses` | `services/addresses.ts` over `db/repositories/addresses.ts` and `claim-codes.ts`, with the owner's and the operator's routes | detailed specification |
| `AddressesProofs` | | theorems |
| `MC...` | | instances for TLC |

**OfflineSwap.** A task of the poller is cut at its awaits: `task[s]` names the
await it is at and each action is the code from there to the next one. `ReadSpendable`
is the answer to the spendable query and the comparison with `expectedAmount`;
`Submit` hands the claim over, with which the preimage becomes public; a reply
(`SubmitReplies`) or a failure (`SubmitFails`, then `ReadResolve`) follows, and
whatever the poller was told the claim may land later (`ClaimLands`) or never
(`ClaimLost`). `ReadStatus` takes the solver's word as any word; `ReadObserve` asks the
chain before it is believed. `ClaimDone` records the payout, and `MarkSettled` is the
separate statement that settles, so a `Restart` may fall between them. A restart keeps
the rows and the claims on their way, drops tasks and caches, and may change
`OFFLINE_SELF_CLAIM`. `Init` allows settled rows without a payout, which an older
build could write.
A coin is one output at a lockup and a transaction is named by the coins it spends.
Scripts, signatures, amounts other than coin values and the encoding of the claim are
left out. `observedPayout` is `PayoutSeen`: every coin that ever reached the lockup was
spent by the same transaction and paid to the receiver.

**PollerQueue.** What one task does is `OfflineSwap`'s business; here it starts, ends
or throws. `drain` is a loop without an await, so it is taken a round per step
(`DrainRetries` puts a swap that is running into the retry set, `DrainSkips` drops one
that is no longer pending, `DrainStarts` takes a slot) while `draining` keeps everything
else out until `DrainReturns`. The slot of an ended task is given back one turn of the
event loop later (`ending`); events and timers wait for that turn and for the drain
(`Settled`), as the microtask queue empties before them.

**Session.** A Session object is named by the stream it was created for, so an old
stream's late `close` is told from the new one's. `prompts` are the requests the
wallet has seen and not answered: its answer names only the session id, as the POST
does. What the payer was told is `request` and, for an invoice, `answer`.

**ArkadeWatcher.** A pass is cut at the indexer's answer: `PassLists` reads the open
records, `Ask` picks the next chunk of their scripts, `Answer` is the indexer's, and
`Use` runs settleAtScript on every script of the chunk and marks what it assigned, or
`AskFails` skips the chunk. Between them records are accepted, lapse and are paid.
`Assigns` says which arrival each record gets, the soonest that covers it and that no
older record took, in place of the two sorts and the loop. The order in which the store
lists records of the same age is any order (`Listings`), as the query has no ORDER BY.
`reference` is what the code stores, a transaction; `credit`, the output it was stored
for, is history that the code does not keep and the properties are about.
A pass leaves nothing behind but rows, so a crash in the middle of one is a pass whose
remaining reads fail: there is no Restart action, and `Init` starts with records an
earlier process accepted. Settlement reports (`Trigger`) may come at any time, as the
contract manager repeats them when a script is watched again, or not at all.

**Covenant.** A payment makes an output, and a renewal replaces it by the next: `<<p, g>>`
is the g-th renewal of payment p, `state`, `gen` and `age` (young, near its expiry,
expired) are those of the latest. `pass` holds where the main and the late sweep are,
with what each saw of the outputs when it looked (`saw`): both run the same code at the
same time, so an output may have been swept, renewed or taken since. `Resolve` is the
indexer's answer and `Reconcile` what is concluded from it (the record's outpoint moved
to its renewal, or the payout recorded); `Submit` hands a sweep to the emulator, which
may land it (`SweepLands`) after the pass was told it failed. A renewal goes into the
next batch (`Register`), and the batch commits or the intent lapses. A clock is not
kept: a record is open, lapsed or past the tail of the late sweep (`phase`). A pass may
begin whenever the last has ended, so triggers and timers are not modelled, and a crash
is a pass whose remaining reads fail. Outputs are of version 3, whose forwarding can be
recognised and which can be renewed.

**FixedFloat.** A callback is cut at the price, the corridor swap and the order's
creation (`quote`); its share of the request budget is reserved first, dated anew when
create is sent and given back when it is not. Ages in ticks stand for the timestamps of
`FfBudget`; the client's own view (`spent`, `Ours`) and FixedFloat's count of the
requests it got (`sent`, `calls`) are kept apart, since the properties compare them. The
poller asks about one listed order at a time and only its answer is delayed; callbacks,
poller and the settlement hook meet in `status`, `txid`, `settled` and `referenced`, the
rows. A restart loses the client's budget and pause, as the code keeps both in memory,
and FixedFloat's count goes on over it: `uptime` is how far back this process can know
what was sent. A boot takes a tick, which is no bound: the length of a tick is free, and
the code's clock counts milliseconds. The errors that open
the breaker are counted there and abstracted here: any failed call may open it.

**VerifyBatch.** One wallet and one live stream, with the sessions of streams the wallet
has left counted (`orphans`) until the server hears of their close. `wire` is what the
server has written and the wallet not read. `Tick` is the poll timer's run over the
session; `UpdateArrives` takes any of the update requests under way, so that they
overtake one another, and closes a session with nothing left to tell (`Settles`). On the
wallet's side `pending`, `unsent` and `retry` are the watcher's own; every end of a
stream (`Ends`) drops what was in flight and schedules a reconnect if anything is
pending. A settlement is pending at first, or withheld: settled by an older build that
put no payout on record, so that its preimage is not out (this build records the payout
before it settles). From either it becomes settled, or is gone with its row.

**Addresses.** Every call of the service runs to its end without an await, so a step is
a call and the hazard is the order of legal calls. A wallet is its session id, and a
nameless receiver's row has that id for a name, so `Handles` are `Names` and `Wallets`
together and `row` is the table under UNIQUE(domain_id, username). `granted`, `void` and
`ever` are history: what each code has bought, the codes that were replaced or
withdrawn, and the wallets a handle has led to since its row was made. `LeadsTo` is what
`/.well-known/lnurlp/:user` and `/lnurl/:id` answer from.

## Runs

| Run | Configuration | Shows |
|---|---|---|
| `offline` | `MCOfflineSwap.cfg` | safety, liveness and the refinement of `Receive` for a swap whose lockup is funded by one coin or piecemeal |
| `offline_short` | `MCOfflineSwapShort.cfg` | disagreement: a short lockup reveals the preimage |
| `offline_extra_coin` | `MCOfflineSwapExtraCoin.cfg` | disagreement: a late second coin hides the payout |
| `queue` | `MCPollerQueue.cfg` | one task per swap, slots, wakeups, remembered triggers, and that a hung task starves nobody while a slot is left |
| `session` | `MCSession.cfg` | no forgotten payer, no ghost session, limits, final outcomes |
| `session_reconnect` | `MCSessionConnectedIsActive.cfg` | disagreement: a late close ends the new session |
| `session_stale_answer` | `MCSessionAnswersItsRequest.cfg` | disagreement: an answer reaches another payer |
| `watcher` | `MCArkadeWatcher.cfg` | each arrival pays one record, the oldest that it can; ties waste no payment; a payment that could settle an open record is credited or the record lapses |
| `covenant` | `MCCovenant.cfg` | a record is closed only over its own receipt's sweep; money at a covenant is moved on and a settled record paid out, through renewals, expiry and lapse, with two sweeps acting on stale views |
| `fixedfloat` | `MCFixedFloat.cfg` | FixedFloat never counts more weight than the window allows, a predecessor's inside the same window excepted; deposit txid and settlement become one reference in either order; a late deposit is noticed |
| `verify_batch` | `MCVerifyBatch.cfg` | no pending invoice is forgotten by both ends, the wallet is told of every settlement unless the invoice's own watch window is over, a session's frames reach the wire before it closes, the timer runs while it is needed |
| `addresses` | `MCAddresses.cfg` | a code buys one handle once, a handle leads to one wallet, and the operator's rail policy survives every sequence of calls |

**Bounds.** `offline`: swaps do not share any state (a lockup script, a row and a task
each), so one swap is enough; three coins give full, piecemeal, short and mixed
lockups; the clock runs past the refund deadline (1) and the end of the window (3), so
that every order of the two with the task's steps occurs; one restart puts a crash
between any two steps, and the claims it leaves behind still land. A coin that reaches
a full or spent lockup (`Overfunds`) is let in only in `offline_extra_coin`, because it
breaks `GivesUpOnlyUnpaid` and nothing else; the safety theorems hold with it.
`queue`: two swaps for one slot give every contention (a queue behind a busy slot, a
retry, a task shared by pass and queue); one fault is enough to lose a trigger or
cut a pass short; one swap may hang.
`session`: four streams of three wallets, one of which reconnects from another
address; room for two sessions and for one per address, so that either limit, alone or
net of the session replaced, is the one that decides; two payers, so that one can
overtake the other's stale answer. Streams and requests are used once, and four and
two of them give close events and answers one later connection or payer to disturb.
`watcher`: two records of one address ask for different amounts, so that the order in
which they and the arrivals are taken decides who is paid; a third, at another address,
was accepted before the start. One transaction pays both addresses (the second must not
be taken for used) and another, which sorts first by id, pays twice the smaller amount.
One script per chunk puts an await between two scripts of a pass. The clock runs to the
end of the window (2) and the skew (1) admits an arrival one tick older than its record;
`Lag`, the indexer showing an arrival late, is 0 here and arbitrary in the proofs.

`covenant`: one address paid by one transaction with two outputs, the receipt, which may
be renewed once, and a stray one below the amount: enough for the sweep of one to pass
for the other's, for a sweep and a renewal to hold the same output, and for a view to be
older than a renewal. `MaxRenewals` is the bound; the late sweep reads one row a page.
Two addresses multiply the two passes' positions beyond a run of minutes, and the
cursor over several rows is left to the proof's arbitrary `Scripts`.
`fixedfloat`: one order against a budget of one create and one call (`Limit` 3, window
of 2 ticks), so that any entry kept too long or dropped too early shows; every second
pass is a wide one. Two callbacks at once are what `OpenOrdersAreCapped` is proved for.
`verify_batch`: two invoices, so that one settles while the other is added or removed,
and a server with room for two streams, one of them left behind by a reconnect.
`addresses`: two names, two wallets, two codes (one to be reissued as the other), one
rail and a cap of one, with modes that allow self-registration or random names; codes,
names and wallets are only compared, so the run uses their symmetry.

**Deadlock** is checked in `watcher` and `fixedfloat`, whose loops and clock never end,
and not in the others: the system may really stop in each of them, with the clock at
its bound and every row settled or lapsed, a poller stopped, or a server shut down
with every stream closed, every output gone, a wallet's watcher stopped, every code
used. That it does not stop earlier is what the liveness
properties say.

## Fairness

*OfflineSwap* (`FairSpec`): the catch-up pass visits every pending row, and every
settled one not yet asked about (weak fairness of `StartSettle`, `StartMissed`); a
promise settles, since each network call of a task has a timeout or fails (weak
fairness of `TaskStep`); the indexer does not fail for ever, so the reads that decide a
swap succeed in the end when tried again and again (strong fairness of the four reads).
Nothing is owed by the solver, covclaimd, the emulator or the clock.
`PaidIsRevealed` further assumes that the operator does not leave self-claiming
switched off: without it the code relies on the solver's word to look at all.

*PollerQueue*: tasks outside `Hung` come back, the drain goes on, the pass's reads and
the loop's own steps happen, timers fire. Weak fairness for the drain; strong fairness
for the steps that wait for it to return (`TaskEnds`, `SlotFrees`, `PassReads`,
`PassTakes`, `PassEnds`, `TimerFires`), since triggers can put them off again and again,
each for a turn of the event loop. Nobody owes a trigger, a row or a stop.
`EventsServed` says what a hanging task does not prevent; `CatchUpCovers` supposes
that no task hangs for ever, because the pass awaits its tasks one by one.

*ArkadeWatcher*: the pass moves on, since the read has a timeout and anything else is
straight-line code (weak fairness of `PassStep`); timers fire; the indexer does not fail
for ever on any one script (strong fairness of its answer). Nobody owes a payment, a
report of one or a tick, so the loop alone must find every payment.

*Covenant*: both passes go on, since every call has a timeout (weak fairness of the
sweeps' steps and of the watcher's `Settle`); the indexer and the emulator do not fail
for ever when asked again and again (strong fairness of the lookups, of recording, and of
registering a renewal of each payment); and of a payment that keeps being submitted or
registered, a sweep lands or a batch commits in the end (strong fairness of their
disjunction). The last is owed by the operator and the emulator: without it nothing this
server does moves a coin.

*FixedFloat*: the clock and the timers of poller and hook go on; a call tried again and
again succeeds in the end, outside a pause that ends (strong fairness of `Resume`,
`PollAnswered`, and the poller's question and record of each order). Nobody owes a
deposit, and `Refresh`, other calls on the same budget, comes only before an order is
stored, so that it cannot starve the poller for ever.

*VerifyBatch*: server timers fire and closes arrive; the wallet's back-off ends and its
requests are not refused for ever (strong fairness of `OpenArrives`, and of reading what
is on the wire to its end). An entry of which the server can never prove anything lapses
in the end, as the watcher's deadline says. Nobody owes a settlement.

*Session* and *Addresses*: their properties are safety properties and need none.

## Proofs

All theorems are of the specification for every value of its constants, from the
assumptions named in the module (`ConstantsAssumption`, `SessionAssumption`,
`CovenantAssumption` and so on): typed functions, natural numbers, null values outside
their sets, and finitely many of what is counted (streams, orders, URLs).

*OfflineSwapProofs.* None of the properties is inductive alone. `IInv` adds to
`TypeOK`: where a task is implies what is true there (`TaskInv`: a claim in `prepare` or
`submit` is a set of coins of that lockup, worth the quote; a task about to settle has
recorded a payout); a recorded reference names a transaction that landed
(`ReferenceInv`); a claim on its way is of one lockup and worth the quote
(`InflightInv`); coins spent by one transaction were spent together (`ChainInv`);
money and claims exist only for offered swaps (`OfferInv`); and a settled row has a
payout (`SettledHasPayout`). The key lemma is that a landed transaction stays landed
whatever the chain does (`LandedStays`), so that a reference once recorded is good for
ever. From `IInv`:

| Theorem | Property |
|---|---|
| `TypeCorrect` | `TypeOK` |
| `RevealSafe` | `RevealedOnlyIfPaid` |
| `SettledSafe` | `SettledHasPayout` |
| `ClaimSafe` | `ClaimsPayQuote` |
| `ReceiveKept` | `ImplementsReceive`: each step is a step of `Receive` or a stutter |
| `GivesUpSafe` | `GivesUpOnlyUnpaid`, if `~Overfunds` |
| `QuoteIsPaidWithoutCovclaimd` | `RevealPaysQuote`, if `~ExternalClaimer` |

The last two state under which condition on the world a claim holds that a run refutes
without it. `GivesUpSafe` rests on `Whole`: of a lockup that a solver does not fund beyond
the quote, a coin was refunded, or one transaction took all there ever was, or everything
is still there and every claim made or prepared is of all of it. A `Fund` cannot disturb
the last, since a claim is worth the quote (`TaskInv`, `InflightInv`) and a lockup worth
it is not funded again; so what was paid in full was paid at once, which `observedPayout`
recognises. `LegacyInv` keeps rows of an older build, of which `Whole` is not true, out of
the job that gives up. `QuoteIsPaidWithoutCovclaimd` rests on `WorthInv`: what is paid was
paid by a claim of the poller's.

*SessionProofs.* `SInv` adds to `TypeOK`, `WaitingIsPending` and `LiveHasStream` that
the map files a session under its own id, that a pending request knows its session and
that a prompt was made of one. Lemmas about `Fail` and `Destroy` are shared by the
actions that call them.

| Theorem | Property |
|---|---|
| `SessionTypeCorrect` | `TypeOK` |
| `NobodyForgotten` | `WaitingIsPending` |
| `NoGhostSessions` | `LiveHasStream` |
| `OutcomesAreFinal` | `OutcomeIsFinal` |
| `LimitsRespected` | `LimitsHold`: opening a session adds one to the others that `canAccept` counted |
| `ConnectedUnlessOvertaken` | `ConnectedIsActive`, of behaviours with `ReconnectsAfterClose` |
| `AnsweredInTurn` | `AnswersItsRequest`, of behaviours with `AsksInTurn` |

The last two are of claims that TLC refutes (see [disagreements](#disagreements-found)) and
say that one race is all that breaks each: a wallet that reconnects before its old stream
has closed, and a payer let in while the wallet still has a prompt to deal with. With
`OneAttached`, the `close` listener can only destroy the session it was left for; with
`PromptIsPending`, an answer finds its own request or none.

*ArkadeWatcherProofs.* `WInv` adds to `TypeOK` and `CreditsAreJust` that a settled
record's reference is the transaction of its credit, by which a later pass knows the
arrival for used (`CreditIsReferred`), and that what the indexer showed has arrived
(`SeenArrived`). The step that matters is `Use`: within a pass two records get different
arrivals because one of them is older, or was listed first, and across passes because an
arrival that was used is not free. No bound on how late or how often the indexer shows
an arrival is assumed.

| Theorem | Property |
|---|---|
| `WatcherTypeCorrect` | `TypeOK` |
| `EachArrivalPaysOnce` | `CreditsAreJust` |
| `OldestIsServedFirst` | `OldestFirst` |
| `BestFitIsBest` | `TiesWasteNothing` |

`OldestFirst` needs `ListedInv`: what a pass has still to do is closed under age, because
records are dated by the clock that lists them and only lapse or settle in between.
`TiesWasteNothing` compares `Use` with every assignment there is, by one threshold: the
least amount from which on every arrival is given (`LeastOf`). Records of a lesser amount
that were served have arrivals below it, and whatever covers the others is given, so that no assignment
has more to give them. The threshold comes from the well-foundedness of
the naturals (`WFMin`), the comparison from an injection between what each assignment
serves. It needs finitely many records, which `WatcherAssumption`
says.

*PollerQueueProofs.* `QInv` adds to `TypeOK` that the map holds exactly the swaps with a
task, one each (`MapIsTrue`), that a slot in use is held by a running or an ending task
(`SlotsAreCounted`), that a stopped poller has an empty queue, that outside a drain a
queue means full slots, that only accepted swaps are owed a look, and
`TriggerRemembered`. Each holds only with the others: a retry is safe because the map is
true, and the drain starts a task because the slots are.

| Theorem | Property |
|---|---|
| `QueueTypeCorrect` | `TypeOK` |
| `NeverTwoTasks` | `OnePerSwap` |
| `NoSlotLeaks` | `SlotsCounted` |
| `NoMissedWakeup` | `NoIdleSlot` |
| `TriggersAreKept` | `TriggerRemembered` |

*CovenantProofs.* `PaidOutIsReceipt` needs what each record points to. `CInv` adds to
`TypeOK`: sweeps and renewals under way are of live outputs, and payments of one
transaction arrive together (`ChainInv`); what a pass saw is the chain as it is now or
as it once was (`SawInv`, by `Behind`); the outpoint of a record is of the receipt its
row settled on (`OutpointIsReceipts`). A payout recorded from an old view is then still
the sweep of the receipt.

| Theorem | Property |
|---|---|
| `CovenantTypeCorrect` | `TypeOK` |
| `ClosedOnItsReceipt` | `PaidOutIsReceipt` |

*FixedFloatProofs.* `FInv` adds to `TypeOK` where a callback stands against what it has
stored (`Sound`) and that the database is never ahead of FixedFloat (`NotAhead`); the
caps then need that a callback between its check and its row counts among those in
flight (`OpenIsCapped`), so that two that overlap cannot both take the last place.

| Theorem | Property |
|---|---|
| `FixedFloatTypeCorrect` | `TypeOK` |
| `OpenOrdersAreCapped` | `CapsHold`, with no run: its instance needs several orders at once |
| `BudgetHolds` | `WindowHolds` |

`WindowHolds` is about what FixedFloat counts, while `take` compares what the client has on
its books. `Booked` says that those never exceed the limit, `SameAge` that a create that
was sent since the restart is on them with the age FixedFloat gives it, so that both leave the
window in the same tick. After a restart the books are empty while FixedFloat's count is
not; what the process before sent is older than `uptime` and stays so until it leaves the
window, when `WindowHolds` speaks of FixedFloat's whole count again. The weight of calls of several ages is the cardinality of a set of pairs
(`Made`), which the lemmas of finite sets can compare as the window moves.

*VerifyBatchProofs.* `VInv` joins `TypeOK`, the cap on sessions, `TimerRuns`,
`PendingIsWatched` and `Linked`: a live session belongs to an open stream that has not
ended, requests are under way only on an open one, and a reconnect is due only with
none; a pending invoice has been told nothing, removals name settled invoices, and a
wallet that stopped has none pending.

| Theorem | Property |
|---|---|
| `VerifyBatchTypeCorrect` | `TypeOK` |
| `OpenStreamsArePolled` | `TimerRuns` |
| `NothingPendingIsForgotten` | `PendingIsWatched` |
| `LastWordIsTracked` | `ToldWhatIsTracked` |

`ToldWhatIsTracked` reads the wire and the session's queue as one sequence after what was
heard (`LastSays`). A step that tracks something else of an invoice writes a frame of it at
the end of that sequence, in whatever order it writes several; one that writes none of it
has changed nothing of it; and a frame that is sent or read only moves along. `Fresh` is
what the argument needs of a stream not yet open.

*AddressesProofs.* `AInv` carries three things beside the types: `Shape` (a row under a
session id is that session's; a reservation has no wallet and a code), `Heirs` (a name
has led to the wallet of its row only) and `Ledger` (a code that can still buy has bought
nothing, is not void, and is wanted in one place). The lemmas `OneRowStep`,
`NothingBought`, `FreeCodeBuys`, `ReservationOpens` and `FreshIsReserved` are shared by
the calls.

| Theorem | Property |
|---|---|
| `AddressesTypeCorrect` | `TypeOK`, with the index on session LNURLs |
| `HandlesKeepTheirWallet` | `OneWalletPerHandle` |
| `CodesBuyOnce` | `CodesGrantOnce` |
| `WalletsKeepThePolicy` | `PolicyIsKept` |

**Only model-checked.** Liveness under fairness, which the prover does not do:
`PaidIsRevealed`, `EventsServed`, `CatchUpCovers`, `PaymentsAreCredited`, `MoneyIsMoved`,
`SettledIsPaidOut`, `SettledIsReferenced`, `DepositIsNoticed`, `SettledIsTold`. Every
invariant, action property and refinement that a passing run checks has a theorem. What
`Total` sums to is nowhere used: the proofs only compare totals with the quote as the code
does, since a fold over a set would need an induction over data.

## Disagreements found

Each is a run that TLC refutes, quoted with its lines in `PROJECT.json` ("findings").

1. `RevealPaysQuote`: the amount of a lockup is compared with the quote only when the
   poller itself claims. A short lockup that covclaimd claims settles the swap and
   publishes the preimage, which the changelog and a test rule out.
2. `GivesUpOnlyUnpaid`: a coin that arrives at a claimed lockup, and is claimed by a
   transaction of its own, makes the history unreadable to `observedPayout`; past the
   deadline the swap counts as expired although every coin was paid.
3. `ConnectedIsActive`: the `close` listener destroys by session id. A wallet that
   reconnects before its old stream closes loses its new session when it does.
4. `AnswersItsRequest`: an answer carries no request id and goes to whichever payer is
   pending, although the client library speaks of answering "this specific request".

Met while modelling, and not given a run of their own; the models except or leave out
each of them by name:

- *FixedFloat.* If the order poller has recorded DONE and the txid before the row
  settles, and the process dies between `markSettled` (`workers/offline-poller.ts:76`)
  and the hook after it, the row never gets its reference: `listOpen`
  (`ff-order-store.ts:107`) keeps a DONE order only while its own deposit txid is missing
  (`Stranded`). A reservation that outlives the window is re-dated in vain and its create
  goes uncounted (`overheld`, `rails/fixedfloat/client.ts:106-120`). `FfBudget.spent` is in
  memory only (`client.ts:109`): a process that replaces one inside the minute starts with
  an empty window, and FixedFloat may count up to another limit's worth in that minute
  (`uptime`). A call in flight when
  the breaker opens closes it again by succeeding, where README.md:287 has every call
  pause. With more than 225 expired orders, passes in the order of creation may not reach
  the newest.
- *Covenant.* settlement-store.ts:123 says "money that arrived must always be swept"; a
  stray or second output at an address whose payout is recorded is not (`Owed` excepts
  it). Two outputs of one transaction that each cover the amount make every pass over
  that address throw. For versions 1 and 2 any spent output of the paying transaction is
  taken for the receipt.
- *VerifyBatch.* `stop()` ends streams without flushing, where the comment at
  services/verify-batch.ts:179 says "Frames the client was owed must still land". A frame
  that one entry cannot parse ends the stream of all of them, and as every end gives up the
  entries whose window is over (`batch-verify.ts:44-51`), a settled entry whose own window
  ends in the meantime is given up unreported: `SettledIsTold` excepts `lapsed`. A settled
  entry whose preimage follows later is not told again on the same stream.
- *Addresses.* A nameless row the operator revoked is active again when its wallet
  registers again (`services/addresses.ts:77-79`). A wallet sheds the rail policy on its
  session LNURL by upgrading, revoking the name and registering nameless anew. `granted` is
  a set of handles, so `CodesGrantOnce` would not see a code buy the same handle twice.

## What is not modelled

In `OfflineSwap`: the negotiation with the solver and the checks of its quote, the
release of what an aborted offer pinned, and the crypto of the claim. The lockup
watcher appears only as triggers at any time. In `ArkadeWatcher`: the registration of
scripts with the contract manager, on which only latency depends, and addresses that do
not decode. In `Session`: the wallet's report of a
settled invoice, and the client's side. In `Covenant`: scripts and their compilation,
versions 1 and 2, fee sponsors, the watcher's subscriptions and `covenant-retirement.ts`,
which reads the active scripts before an await and may retire a contract that was just
made; only latency depends on it. In `FixedFloat`: rates and rails advertised, the
receiver's breaker after a 304, the parsing of answers. In `VerifyBatch`: the one-shot
snapshot, the cap on tracked URLs, keepalives and the rate limiter (a refused open). In
`Addresses`: the receive identity and payment methods, the domain's name rules and
blacklist (folded into `Names`), API keys, several domains, and rows of builds that
allowed names like a session id. The cap per wallet is modelled and not stated as an
invariant: the operator and codes are exempt from it.
Configuration, codecs, logging, the outbound
fetch guard, the price feed, the rest of the admin API and the user interfaces keep no
state that changes by itself; migrations run once, in a line. Scripts and signatures are
beyond TLC. Everything else that is missing is in the plan.

## Plan

What is left, in this order:

1. `PaymentSync` and the client's half of `Session`: the cursor of `packages/client/src/sync.ts`
   over rows that settle behind it, and one answer per request.
2. `SettlementRecord`: one specification of a record's life, with the memory and the
   database store as instances of it, and the windows on every rail.
3. `ScriptWatch`: the registration of scripts with the contract manager against the
   resync and the retirement, on top of `ArkadeWatcher` and `Covenant`.
4. The offer of `OfflineSwap` in steps: solver after solver, the pinned transports and
   the concurrent quotes.
5. `SolverDiscovery`; `Rails` as operators against a reference over bounded amounts.
6. `Runtime`: the order of shutdown over the workers that are still running.
