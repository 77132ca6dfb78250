# A TLA+ verification of 0dteTrader

0dteTrader places zero-days-to-expiry option orders through three brokers. What
can hurt its user is an order sent twice, an order the application lost sight
of, or a protective bracket that closes a position twice or not at all. The
modules here model the code that decides these things, in `apps/api`, check it
with TLC on small instances and prove the central facts with TLAPS for all
instances. File names below are relative to `src/`.

## The system

| Component | State | Operations | Interacts with |
| --- | --- | --- | --- |
| Order placement, `apps/api/src/trading/trading.service.ts` | `OrderAudit` rows, unique on user and idempotency key | preview, place, cancel; claim, recover, release a key | gateways (await), order records, chart orders |
| Chart orders, `chart-orders/chart-orders.service.ts` | `ChartOrder`, `BracketGroup` rows | create, update, cancel, fire, recover, sweeps | placement (keyed by the line's id), event transport |
| Chart-order watcher, `chart-orders/chart-order-watcher.service.ts` | a lease row, last prices in memory | tick: crossings, reconcile, sweeps | chart orders, quotes |
| Order records, `trading/orders.service.ts` | `TradeOrder`, `TradeOrderExecution` rows | record, merge identities, record the underlying price, replay fills | order-events bus |
| Order-events bus, `broker/order-events.service.ts` | a queue per user, ingestors | emit, ingest, retry | gateways, webhook processor, records, notifications |
| Event transport and bridge, `events/` | `UserEvent` rows, a global ordinal, the poller's last ordinal | publish, replay, poll | every client stream |
| SnapTrade webhook inbox, `broker/snaptrade/` | `WebhookInbox` rows with leases | receive, drain, retry | order-events bus |
| Notifications, `notifications/` | `PushDelivery`, device tokens | create, drain, deliver, prune | APNs, Discord |
| Broker gateways, `broker/*` | sessions, poll loops | place, cancel, positions, recover | vendors |
| Webull session, `broker/webull/webull-client.ts` | cached token, latch, backoff | ensure, acquire, verify, reauthenticate | every Webull call |
| Quote stream, order book, `market-data/` | subscriptions, sockets, a distributed rate slot | subscribe, tick, fan out, replay | event transport, vendors |
| Analytics and IV alerts, `options-analytics/` | captures, detector state | capture, detect, configure | transport |
| Auth and users, `auth/`, `users/` | refresh tokens, kill switch | login, refresh, logout | all handlers |
| Desktop and iOS clients | sockets, durable cursor, stores | connect, resume, trade | the API |

`PROJECT.json` lists every component with its files and what is left out of the
models and why.

What is hard, and hardly reached by the unit tests, which run on an in-memory
fake of the database: two API instances on the same rows between awaits; a
process that dies between a broker call and the write that records it; requests
that time out and are accepted later; leases that lapse under a live holder;
recovery that repeats what was already done; events that arrive twice or out of
order. `PROJECT.json` lists these hazards by line, each with the properties that
guard it or the module planned for it. The properties that make the components
correct:

- placement: at most one order per key; the key of a live order stays claimed; no
  definite failure for an order that is live (the code breaks this one, see the
  findings); a success names the caller's own order; every request is answered;
- brackets: at most one close per position; the reservation stays while the close
  may be at work; no line shown dead with a live order; no bracket abandoned;
- lines: no level stepped over, no fire left pending, no line that misreports its order;
- records: status and fills never go backwards, converge whatever the order of
  reports, and replay to the broker's average price and the account's cash;
- inbox, bus and outbox: what is called processed is persisted, every webhook and
  delivery settles, alerts go only to their owner and repeat only for cause;
- transport and stream: no event lost, reordered or passed over between the log and
  a device's consumers, across polls, reconnects and restarts;
- session, limiter, refresh tokens: one acquisition at a time, one slot at a time,
  one live successor per rotated token (not modelled).

## Modules

| Module | What it is | Code |
| --- | --- | --- |
| `OrderPlacement` | keyed placement: claim, recovery, send, release | `trading.service.ts` 114-522, the gateways' send and recovery |
| `KeyedSubmission` | what placement promises: a key buys at most one order, answers are truthful | (abstract) |
| `BracketFire` | brackets: arm, cancel, sweep, fire, recover | `chart-orders.service.ts`: create, cancel, fire, recovery and sweeps of groups |
| `ChartLines` | the watcher, and lines without a bracket: trigger, move, fire, recover | `chart-order-watcher.service.ts`, `chart-orders.service.ts`: update, triggerNow, fire, `recoverPendingUngrouped` |
| `OrderRecord` | the recorders of one order: identity, merges, status, fills | `orders.service.ts` 606-1290 |
| `FillReplay` | several orders of one contract: recorded fills, the execution replay, the position book | `orders.service.ts` 88-490, 1062-1214, 1420-1444 |
| `OrderEventBus` | webhooks through the inbox, observations through the bus to its ingestors | `snaptrade-webhook-inbox.service.ts`, `-controller.ts`, `order-events.service.ts`, `event-bridge.service.ts` |
| `PushDelivery` | the push outbox and the device registry | `order-notifications.service.ts`, `devices.service.ts` |
| `EventTransport` | the durable log and the pollers of each instance | `event-transport.service.ts` |
| `EventStream` | `EventTransport` composed with the stream gateway and the desktop's socket and cursor | `stream.gateway.ts` 426-545, `QuoteSocket.ts`, `DurableEventCursor.ts` |
| `DurableDelivery` | what that pipeline promises a device | (abstract) |
| `OrderPlacement_proofs`, `BracketFire_proofs`, `ChartLines_proofs`, `OrderRecord_proofs`, `OrderEventBus_proofs`, `PushDelivery_proofs`, `EventStream_proofs`, `FillReplay_proofs` | the theorems of each, machine-checked | |

Each `MC...` module holds the instances of its component. The refinement mapping to
`KeyedSubmission` is in `OrderPlacement`, the one to `DurableDelivery` in `EventStream`.
The inductive invariant of a module stands at its end, its proof in the module's
`_proofs`.

How the components of the code meet in the modules: `BracketFire` and `ChartLines`
use of placement what `OrderPlacement` shows of it (per key a claim row, at most one
order, a recovery that finds it, and the answers *placed*, *refused*, *cannot
tell*). `OrderEventBus` uses of the order record, the outbox and the log that each is
idempotent per observed status, which `OrderRecord`, `PushDelivery` and
`EventTransport` look at from inside. `EventStream` contains `EventTransport`'s
actions unchanged and adds to each what happens to the connection.

### OrderPlacement

A *request* is one call of `place`. Requests with the same key are the client's
retries or the watcher's and the client's fire of one line; they run
concurrently on any instances and any of them may crash. `audit` is the
`OrderAudit` row of each key; it records who inserted it (`owner` stands for the
row id, which every later statement uses in its `where`), whether the prepared
order has been saved, whether it is younger than `PENDING_CLAIM_TTL_MS`, and the
order it was completed with. `pc` is the place between two awaits where a
request is; every action is one database statement or one broker step, so what
a request read earlier (`prior`, `result`) may be stale when it is used.

The phases follow the code: `claiming` (insert), `conflict` (the read after a
unique violation), `recovering`, `adopting`, `ingesting` (`recoverStalePlacement`
and the completion of the stale row), `reclaiming` and `reinserting` (delete, then
insert), `validating` (contract, price, cap, save of the prepared order),
`sending`, `awaiting`, `acked`, `releasing` (the catch's delete). A broker order
is `inflight` after the send until the broker accepts or refuses it or the
request is lost; the answer may fail to arrive in any of these cases.

Five constants describe the gateway: whether the broker deduplicates client order ids,
whether the gateway can query one order by that id (`recoverOrder`), whether its client
sends an order again within one placement (`Resends`), which failures it types as definite
errors (`Definite`), and which keys' requests name no contract before they are prepared
(AUTO). The repository's gateways are:

| Gateway | Dedupes, exact query | Sends again | Typed as definite |
| --- | --- | --- | --- |
| Webull | both (`webull-broker.gateway.ts` 712-761) | after 429 and 5xx (`webull-client.ts` 204-221) | refusals, timeouts (271-272) and 5xx (585-591); only transport loss is not |
| Alpaca | a client order id, no query | no | 4xx, and any error whose message has "closed" in it (`alpaca-broker.gateway.ts` 641-648) |
| SnapTrade | neither | no | its own checks before the send only |

Recovery without an exact query matches on what orders look like (`LooksLike`), within
the claim's age and the 5 s of slack the code grants. `Slow` are the requests whose claim
may pass its TTL of two minutes while they are still validating or sending; in the code
that is any request.

The code cannot keep its promise to a key in two cases: the claim passes its TTL under its
owner (`Age`), or a failure is typed as a refusal while the order behind it is on its way
or accepted (`Fails`). Both are steps of the model. `exposed` remembers the requests they
happened to, and the safety properties are about keys none of whose requests is exposed
(`Covered`). So they say exactly which of the code's many races are harmless, and that
these two are the only ones that are not.

### BracketFire

Legs (target, stop) belong to groups; all groups protect one position at one
account, the case `hasUnresolvedCloseReservation` is for. A worker is a client's
fire or a watcher tick, in one of `Instances`, whose `fireOwnerId` it writes into leases.
A transaction under the bracket's advisory lock is one action; the
steps of `fire` and of `recoverPendingBrackets` between awaits are the phases.
`TradingService.place` is what `OrderPlacement` establishes, per leg: a claim
row that is fresh, stale or completed, at most one order, recovery that finds the
order if there is one, and the answers *refused*, *placed* and *cannot tell*, with a
refusal that may hide a live order and a database error that ends as a refusal.
Leases and the key's TTL lapse at any time, and the kill switch is thrown at any time.

The code unwinds a claim "when broker placement provably did not happen"
(`chart-orders.service.ts` 944) and lets only its holder use it. Four steps break that
rule; the model takes each of them and records its kind in `slips`:

| Slip | The step | Line |
| --- | --- | --- |
| `mistyped` | a live order's failure is typed as a refusal: a Webull timeout or 5xx is no uncertain fire error | 715-725, 928-938, `webull-client.ts` 272 |
| `unproven` | the claim is given back although another call used its key: the kill switch, legal acceptance, the scope or a failing database refuses without looking at the key's row, or the first worker comes to its gates after a recovery has bought | 1144, 582-643 |
| `unheld` | a worker prepares a claim, or buys under its key, that is over: the lease runs from the tick's start and is not checked before the send, its owner is a process | 877, 1012, 1048-1063 |
| `outlived` | the claim of the order's key passes its TTL while the order is being sent | `trading.service.ts` 327 |

The properties speak of behaviours up to their first slip. Each slip alone breaks each of
the four (TLC finds it when the property does not excuse that one), which is why no
weaker condition would do. Quantities and moves are left out; lines without a group are
`ChartLines`'s; the catch's delete of the key's row, which the code ignores if it fails,
succeeds here.

### OrderRecord

A *recorder* is one call of `record` or (a *stamper*) of `recordUnderlyingPrice`,
for one order, on any instance: the in-memory chain per order is, as its comment
says, no part of the correctness, and calls that know the order under different
ids do not share one. A report names the order by the client's id, the broker's,
or both, and carries a status and a cumulative quantity. `rows` are the order's
rows with their observations (`seen`), named after the recorder that created
them; every statement is an action and the merge is one transaction, so a row
read by one recorder may be gone when it is written (`found` and `row` hold what
was read). The phases are the two rounds of `convergedIdentityRow` (`look`,
`match`, `join`, `attach`), `create`, and the writes `status`, `watermark`,
`observe` and `stamp`. Any statement may fail; `recordWithRetry` then starts over,
without a bound here, or gives up. A one-sided report is matched with the row of the other
side only as `snapTradeReconciliationCandidate` does: once the audit proves that the
placement's answer carried no broker id, and if both reports have the placement's form and
lie within 30 s of it and of each other (`near`). `place` may know no price of the
underlying and then never calls the stamper (`Skip`). Prices, other times and quarantined
quantities are left out, and so are the rows of other orders that look like this one's;
which of two rows a merge keeps is left open.

### FillReplay

Here the row of each order exists, and the market executes the orders of one
contract bit by bit (`fills`, the ground truth). A *report* is one call of
`record` with a cumulative quantity and its average, arriving late, twice, in any
order or not at all, with an average the code must reject or a quantity above the
order. Recording is the code's statements: status and earliest fill time, then the
watermark, then the observation; a reporter may stop in between, and its retry is
the same report arriving again. The replay is a function of the rows, as in
`fillEventsFor`: the curve of observed cumulatives, the price of each increment,
the moment by which each is vouched for, the remainder up to the watermark; and the
book is `applyExecution` folded over it in time order, through closes and flips.
The properties compare it with the market at every state. Prices are multiplied by
`Scale`, which the sizes divide, so that averages are exact. Left out: the underlying's price, rows in the two older
shapes; a partial always names its quantity.

### ChartLines

An instance's tick takes or renews the watcher's lease, reads the armed lines,
gets a quote, compares each line's reference with it (the last observation if
newer than the line, the line's arm price otherwise), records the observation and
fires what crossed, one awaited fire after the other. The client may trigger a line
itself, move it (the quote for its new arm price is awaited between the read and the
write), resize or cancel it, and switch the trading mode. An actor's `job` is the line it
is `at` and the due ones `todo`, taken in the order of `Lines`. `updatedAt` is modelled by what
it is compared with (`newer`, `touched`), `triggeredAt`, both lease and token of
the recovery, by who knows its value (`knows`). `LostClaims` says whether a claim
may fail while its line stays working.

The claim leaves the account it was made for in `lastError` (`marked`) until the audit row
has it; a recovery that finds neither is paused and the line stays pending
(`chart-orders.service.ts` 1203-1212). A pending audit of which the broker never shows what
became (`unclear`) keeps its line pending too. `slips` are as in brackets: a refusal that
hides a live order (`mistyped`), and a claim that ages under its worker (`outlived`), after
which both the recovery and the worker, by the line's id alone, settle the line.

### OrderEventBus

One order of one user. A webhook row goes from `pending` over `leased` to `processed`,
`retry` or `dead`; a worker claims it with a lease, dispatches it into its process's
queue, awaits the ingestors and completes it if it still holds the row. The heartbeat
keeps a lease alive unless the worker stalls or dies. A gateway's own observation goes
into the queue of its process and nobody waits for it. The queue's head is handed to
the record, the outbox and the log in their order; a failure repeats the whole chain,
up to `IngestAttempts`, and the last failure fails the webhook's attempt.

### PushDelivery

An enqueue lists the user's devices, checks each under its token's advisory lock
and inserts a row per device. A worker's delivery is a transaction from `Authorize`
(owner checked under the lock) over `Send` to `Commit`; `Lose` is a transaction that
dies, before or after APNs took the alert. Registering a token takes the lock, may
move the token to another user, buries the live rows of the former owner and removes
the user's oldest devices above `MaxDevices`. `LongSends` allows a send to outlast
its transaction.

### EventTransport and EventStream

A publication takes the allocator's row lock and an ordinal, looks its key up, appends
the row and commits, possibly without its caller learning so. An instance's poll is
a query, evaluated by the database before the process sees the answer, and the
emission of what it has not emitted since its boot; polls requested meanwhile run
another round. A device's connection is caught up from its cursor page by page, or,
without a cursor, from a baseline read before a forced poll; live events are buffered
meanwhile, then flushed, then the handshake is sent. The device queues events, drains
them in sequence into the consumers installed so far, stores its cursor after each, and
tears the connection down on a gap, a failing consumer or a full backlog. It calls the
stream ready when the handshake's cursor is not ahead of its queue, or when no handshake
came within five seconds (`LegacyReady`), which is meant for servers without one but which
a slow replay meets as well. Network drop,
instance restart, application restart, failed polls, lost replies and aborted
publications are bounded together by `MaxFaults`.

## Runs

| Run | Instance | Shows |
| --- | --- | --- |
| `placement` | 3 requests: a placement, its retry, a look-alike under another key; AUTO first key; no deduplication, no exact query, a client that sends again, timeouts and 5xx typed as refusals | one order per key, a live order's key stays claimed and completed claims are final unless a live order was typed as a refusal; everyone is answered |
| `placement_webull` | the same requests through the Webull gateway, claims that may go stale at any time | finding: a definite failure for a live order |
| `bracket_fire` | target and stop, a second bracket, two workers of one process; leases, TTL and kill switch at any time | up to the first slip: one close, reservation, truthful lines, nothing abandoned |
| `chart_lines` | one line, three prices, two instances and the client; one move, one fault | truthful lines up to the first slip; no level stepped over; no fire pending for ever unless its account or outcome cannot be known |
| `lines_lost_claim` | the same, with claims that may be lost | finding: the level is stepped over |
| `order_record` | two recorders and a stamper; an order of two, five kinds of report, one of them outside the placement's window, the placement known by the client's id alone (SnapTrade); any statement fails | returned fills stay on the books, the split repairs itself where it can be matched, nothing falls back |
| `fill_replay` | an entry of two at two prices, its close of one, two reporters at once, any report | the replay books what the watermark says at what it cost, in its place among the other orders; profit is cash plus cost; a settled history stays as it is |
| `order_bus` | two webhooks and a poll's own observation, two instances, two attempts of each kind, two faults | processed and fanned out means persisted; finished is final; every webhook settles |
| `push` | one alert, two devices, two users, two instances, three moves of tokens, two faults | only the owner is alerted, repeats and dead rows are deserved, every delivery settles |
| `event_stream` | three events, an IV alert among them, one instance, one device, one fault | the poller passes nothing; ready by the handshake means caught up; the pipeline implements `DurableDelivery` |
| `event_live` | an order and a chart event | every event is observed in the end |
| `stream_iv_alert` | an IV alert and an order event | finding: after an alert no event is observed any more |

The bounds. A request is used once, so three requests give two contenders for a
key and a bystander; every claim, recovery and crash race in the code is between
a row's owner and one other request, and a third party only matters as the
look-alike. Two workers and two groups are the smallest that let a recovery race
the fire it recovers while another bracket waits for the position; legs can be
re-armed, fired and recovered again without bound, only an order is bought once
per leg, because the idempotency key is the leg's id. One instance holds both workers,
so that every check of the lease's owner passes; of two, a guarded statement may match
nothing, after which the worker is done, as it is after a crash before the statement. An order has at most two
rows, one per id, so two recorders that know one each and a third party that
merges them are enough; the recorders `a` and `b` are alike, which the symmetry
sets use. The replay has late partials, redelivery and a close between two parts of an
entry already with two orders and three contracts. Lines are independent of each other but for
their place in a tick, so one line with three prices (below, at, above its level) and two
instances shows the races for it. Two attempts are enough to tell the first, the last
and a retry. One event before and one after a fault show what a fault loses; the third
event of `event_stream` is the alert between them, `PollBatch = ReplayPage = 2` makes
full pages happen and `QueueLimit = 1` the full backlog. Faults are bounded by
`MaxFaults`, the user's interventions by `MaxMoves`. One state constraint is used: the
successors of a bracket's first slip are checked but not explored further, since the
properties say nothing of them.

The runs take two minutes at most, so some instances were left to runs by hand that also
passed: `placement` without liveness and with every request slow (4.1 million states);
`ReplyIsOwnOrder` and the refinement of `KeyedSubmission` in the instance of
`placement_webull` (3.6 million), both of which are theorems as well; `LinesInv` in one
instance with three faults (0.3 million), where a crash after a recovery has deleted the
key's audit row leaves a line without its account, pending for ever.

Deadlock is checked for brackets and the stream. Elsewhere every call ends, or
every event, webhook, move and fault has been spent.

### What the passing runs assume, and why it matters

| Constant or excuse | Says | Without it |
| --- | --- | --- |
| `Covered` (`placement`) | no claim passed its TTL under a request still placing (`trading.service.ts` 327), no live order's failure was typed as a refusal (57) | the key can buy twice on a broker that does not deduplicate; the claim of a live order is deleted |
| `Slow = {}` (`placement`) | the run leaves the first of these to the theorems, which cover any `Slow` | a larger run with the same result |
| `slips = {}` (`bracket_fire`, `chart_lines`) | the tables and lines above | each slip alone breaks each property it excuses |
| `ScopeKnown`, `unclear` (`PendingSettles`) | the account is known and the broker shows what became of the order | the recovery is paused, or keeps asking: the code prefers a line that stays pending to one that misreports |
| `LongSends = FALSE` | APNs answers within the transaction's timeout | `OnlyToItsOwner` fails: the lock is gone when the send is taken |
| `LostClaims = FALSE` | a claim only fails because another actor took the line | `lines_lost_claim` |
| `done` of all, `near` (`OneRowInTheEnd`) | every recorder gets through, `place` knew a price, and no report's form or time is off | the split stays: the comment at `orders.service.ts` 1092-1095 promises the repair without these conditions |

Recovery by looks may adopt another order: in the instance of `placement`
`ReplyIsOwnOrder` fails, since an AUTO order that was never prepared is recovered by its
underlying alone (`trading.service.ts` 448). With an exact query it is a theorem.

Readiness: `ReadyMeansCaughtUp` is about streams that the handshake made ready. The comment
at `QuoteSocket.ts` 410-413 has the stream "stay connecting until the server's eventCursor
proves auth + replay catch-up", with a fallback for "a pre-cursor API", and
`docs/API-SPEC.md` 203-209 limits it to "an older server"; but the timer
(696-711) cannot tell such a server from one whose replay takes more than five seconds,
and makes the stream ready before it is caught up. No event is lost by it (`KeepsPromise`,
`EveryEventArrives` hold with the timer).

### Fairness

Every fairness condition is on one actor's next step, for which the code has a timer, a
timeout or an awaited call that returns; faults are bounded and never owed.

- `OrderPlacement`: each request's next step, the broker settling what it was sent, the
  clock. A broker request is abandoned after `REQUEST_TIMEOUT_MS` in the Webull client;
  the SnapTrade SDK is called without a timeout, so `EveryRequestAnswered` is a
  claim about gateways that have one. Nothing forces one particular answer.
- `ChartLines`: the watcher's interval and the steps of a tick; strong fairness of its
  read and of its recovery, the two halves every tick runs; claims age; a dead
  instance's lease lapses. The market is under no obligation.
- `OrderEventBus`: the provider redelivers until it is answered, the workers poll, leases
  that nobody renews and backoffs pass, ingestion goes on.
- `PushDelivery`: the same for the outbox; APNs is asked and answers.
- `EventStream`: publishers commit, pollers tick, a closed connection is opened again
  after its backoff, the application installs its consumers.

## Findings

Three runs reproduce a disagreement of the code with its own words; `PROJECT.json`
quotes the lines.

- `placement_webull`: a Webull timeout or 5xx is an ordinary `BrokerError`, which
  `placementOutcomeUncertain` takes for a refusal although the comment before it says that
  a timeout is not definitive. The claim is released and the caller told that the order
  failed while it may be live. The deterministic client id keeps a retry under the same key
  from buying again; what suffers is who believes the answer: a bracket re-arms the sibling,
  whose own key may then buy a second close, and a line is shown failed (slip `mistyped`).
- `stream_iv_alert`: IV alerts and configurations take sequences of the user's log but
  are sent without one. The device sees the next order or chart event as a gap,
  reconnects, is replayed the same gap, and observes nothing more.
- `lines_lost_claim`: the watcher records its observation before it fires. When the claim
  is lost and the line stays working, the next tick tests from a price past the level.

Beside the slips and the table above, modelling met three more: a cancel whose row is merged away under
it is lost without a retry (`orders.service.ts` 1116; a fill is not, because its
observation refers to the row and fails); the underlying-price stamp may create the row
with fill state its watermark does not cover (1269); and a line moved between the
watcher's read and the claim is fired for its old level, since the claim checks only
that it is working (`chart-orders.service.ts` 486).

## Proofs

Every theorem holds for all values of the constants that satisfy the module's named
assumptions (any number of requests, recorders, instances, lines, events; sets need not
be finite unless an assumption says so); where it assumes more, it says so in its
`ASSUME`. The argument is the same throughout: the property is a consequence of an
invariant that every step preserves, which TLC checked first, and which is proved with
one step per action.

| Module | Theorems | Invariant |
| --- | --- | --- |
| `OrderPlacement_proofs` | `TypeCorrect`, `PlacementInvariant`; `OneOrderUnlessExposed`, `ClaimCoversUnlessExposed`, `ClaimFinalUnlessExposed`; `ExactReplyIsOwnOrder`, `ExactImplementsKeyedSubmission` | `PlacementInv` with `RecoveriesTrue`; `ReplyInv` |
| `BracketFire_proofs` | `TypeCorrect`, `BracketSendsOnce`, `ReservedWhileExposed`, `LegsAreTruthful`, `NoneAbandoned` | `BracketInv` |
| `ChartLines_proofs` | `TypeCorrect`, `LinesAreTruthful` | `LinesInv` |
| `OrderRecord_proofs` | `TypeCorrect`, `FillsRecorded`, `NeverBack`, `OneRow` | `RecordInv`; `OneRowInv` |
| `OrderEventBus_proofs` | `TypeCorrect`, `ProcessedWasPersisted`, `DeadWasSpent`, `FinishedStaysFinal` | `BusInv` |
| `PushDelivery_proofs` | `TypeCorrect`, `RepeatsExcused`, `DeadDeserved`, `OwnersOnly` | `PushInv` |
| `FillReplay_proofs` | `TypeCorrect`, `BooksInFull`, `BooksInPlace`, `SettledStands`, `BookBalances` | `ReplayInv` |
| `EventStream_proofs` | `TypeCorrect`, `TransportTypeCorrect`, `NothingPassed`, `ReadyIsCaughtUp`, `StreamKeepsPromise`, `StreamSkipsNothing` | `TransportInv`; `StreamInv` |

### What the theorems assume

- Placement: the safety theorems nothing, whatever the gateway and however slow requests
  are; what they leave out is in the properties (`Covered`). `ExactReplyIsOwnOrder` assumes
  an exact query, `ExactImplementsKeyedSubmission` that and deduplication, which is the
  Webull gateway with its own typing of failures: it keeps one order per key and its
  successes true, which is all `KeyedSubmission` promises, since there a rejection leaves the
  outcome open.
- Brackets and lines: nothing; the properties hold up to the first slip. `TypeCorrect` holds
  through every slip.
- `LongSends = FALSE` (`OwnersOnly`); the other theorems of the outbox hold with it too.
- The replay: orders of any size, at any prices, whose averages come out exact, which is
  what `Scale % d = 0` says in integers; the code divides floating-point numbers, and what
  it rounds there is not modelled. `BookBalances` averages averages, once for each
  execution, and assumes `FineEnough`: `Scale` can be divided that often by any number of
  contracts, as any power `(1 * 2 * ... * n)^n` for `n` contracts can (`216 = 6^3` for the
  instance, whose module states it as an assumption TLC evaluates). The other theorems of
  the replay do not need it.
- `OneRow`: one-sided reports are reconciled (`Reconciles`, the SnapTrade gateway), the
  placement's answer carried the client's id alone (else nothing is matched), and there is a
  call after the audit write (`Stampers # {}`). The other theorems of records need none of it.
- Bus, transport and stream assume nothing beyond the types of the constants.

### Why the invariants are what they are

*Placement.* One order per key needs that whoever can still send holds the claim
(`ClaimHeld`); that a row belongs to its key and to a request beyond the claim
(`RowsNameTheirKey`); and, for recovery, that a stale row's owner is settled, with nothing
left to send (`StaleOwnersSettled`), and stays so until the recovering request deletes the
row (`RecoveriesSound`): a recovery that found nothing has then seen the truth. `OneSend`
and `RefusalsTrue` tie the phases to the order. Each part is stated of covered keys and
proved for every step: a step that exposes a request takes its key out, and no request of
one key disturbs the row of another. That a completed claim is final needs
`RecoveriesTrue` as well: what a recovery adopts is the owner's order if there is one. With
an exact query all of this is replaced by `ReplyInv`, which names orders by their key and so
survives any staleness and any typing. The refinement maps a key's `bought` to the accepted
order of the key and a request's answer to what it was told; every action maps to a
purchase, a reply or a stutter, and `Deduplicated`, one accepted order per key, is what
deduplication gives.

*Brackets.* At most one close is not a matter of one lease but of agreements that hold
between slips: who sends does so under the group's reservation and the key's fresh row
(`KeyHeld`), the key's row covers the order (`AuditCovers`), and the group's row and the
leg's agree (`LegAgrees`, `GroupAgrees`). From them follow one sender per leg
(`OneSender`), one open claim over all groups of the position (`OneOpenClaim`, what
`hasUnresolvedCloseReservation` is for) and so one active order (`OneActive`). Each is
needed for another's step: a claim opens only where nothing is open, and what is open
stays so until its order is final. A worker whose claim is gone may still hold a phase, and
nothing is said of it but that it does no harm before it prepares, buys or gives back,
where the step is a slip or finds the guard against it.

*Lines.* Until the first slip a settled line has no age, because nobody
but the holder of `triggeredAt` settles it (`ClaimHeld`), and what the holder reports became
of the order (`OutcomeTrue`, `AuditTrue`), also where recovery is paused or cannot tell.

*Records.* A row read by one recorder may be merged away by another before it is written.
`Known` says why nothing is lost: from the moment an order has a row under one of its names
it always has one there, so that a write that finds its row gone is repeated on another.
`Written` says what of a report is already on its row at each statement, as long as the row
is there. `TableStep` reduces every action to three table operations (create, merge, forward
update), so that `RowsLiveOn` is proved once for all of them. That one row is left in the end
is about what a recorder does not see: it may read no row under the other name and then
create a second one beside a row that came meanwhile. `OneRowInv` says that this is always
somebody's to repair: rows share no name (`Apart`); what a recorder saw of a row is still
there, or the order is already whole (`TrueGlimpse`); and of two rows of an audited
placement, all of it near, somebody has still to come past both (`Due`), the creator of the second because it
converges once more after its write, or a stamper that has not begun. A bystander's own
view is never spoilt by another's step (`BystanderConverges`); the actor's is rebuilt
statement by statement (`ActorConverges`).

*Replay.* What the recorder keeps can be said of each order alone: a row tells of as many
contracts as its watermark has (`RowSound`), an observation lies below the watermark and is
later than what it observes (`SeenSound`), and a reporter under way carries a true report
and, once past the watermark statement, one the watermark covers (`CallSound`), which is why
observing after advancing is the right order. From this the replay is computed: the
watermark is the authority (`AuthorityIs`), an increment costs what the contracts since the
point before it cost (`IncrementIs`), the increments up to any point add up to that point
(`UptoIs`, by induction), and the remainder brings the sum to the watermark at the broker's
average (`ReplayOfOrder`). The sums are folds over sets, so the section before proves of
them that any element may be the last one added (`SumPlus`). A settled order has no
remainder and its authority is what executed (`SettledIs`), so that nothing the book is
made of can still change.

*Book.* `BookAddsUp` needs no invariant beyond `ReplayInv`, but an induction along the
replay. `InOrder` gives every execution its place (`InOrderIs`: of two executions one is
earlier and has more below it, so the ranks are all numbers up to how many there are), and
the book after the first `n` balances (`Balanced`, `BookSound`): adding blends an average
that costs what both parts cost (`AddedBalances`), reducing, closing and flipping realize the
difference (`ReducedBalances`). The averages stay whole because there are never more
executions, nor is the position ever larger, than contracts recorded so far. What all
executions add up to is the sum over orders of what `ReplayOfOrder` says of each
(`OverOrders`, `AllAre`), whatever their order.

*Bus.* A webhook is processed by a worker whose dispatch resolved, which must mean that the
chain ran for it (`HeadPersisted`, `DonePersisted`), although the queue is shared with
observations nobody waits for: a process dispatches one webhook at a time, and it is in the
queue once (`OneDispatched`). `AttemptsCounted` compares what a worker remembers with the
claims the row really had, since both outlive a lapsed lease.

*Outbox.* Repeats are counted: acceptances are at most the excused ones and the one that is,
or is being, recorded (`Accounted`), which needs that who sends holds claim and lock
(`Authorized`) and counts what the row counts (`AttemptsAgree`). Ownership needs `Departed`:
a row whose token has gone to another user is settled, because the registration buried it
under the token's lock, or an enqueue under the same lock never wrote it (`Reserved`).

*Transport.* The poller passes nothing because whoever has an ordinal still to commit holds
the allocator alone (`OneHolder`), above everything committed or seen (`OrdinalsInOrder`),
and a fetched batch leaves out no row below its own (`BatchClosed`), even if it was
fetched long before it is emitted. `StreamStep` shows that the connection and the device do
not disturb the log they share a state with.

*Stream.* `Owed` are the durable events a device is still to hear. `StreamInv` follows them
from the log to the consumers: whatever is on the wire or has been sent comes after every
owed event before it, or these are in the device's queue (`Wire`, over the positions of the
messages, which is what an in-order connection gives); a checkpoint stands below everything
owed, and a deferred cursor has what it passes in the queue (`DeviceSound`); whatever an
instance has emitted since the device connected is sent or buffered there
(`EmittedReached`), which with the pollers' order (`EmittedInOrder`) makes a buffer or a
live batch closed below its own last event. A fresh connection has no cursor to start from:
that its baseline skips nothing owed is `PollCovers`, the poll it forces sees every row up
to the baseline before it resolves. A replay's last page reaches what was committed when
the device connected (`Reaches`), so that what the handshake carries covers it.

The data of the stream is recursive (what a sequence of sends puts on the wire, what a
drain leaves of a queue), and so are the proofs about it, as those of the replay: `Induction` is the induction
principle for a set of numbers, from the least element of a set that is not empty
(`Least`); with it `SendAllWire` says what any number of sends does to a wire, and
`DrainSound` that a drain of any queue hears in order, passes nothing unheard, and keeps
what it does not pass, unless it breaks and the connection is torn down. The refinement maps
rows to the log and the cursor to the checkpoint: a commit that adds a row is
`AppendEvent`, a first connection `Connect`, each of the three drains `Deliver`
(`DrainDelivers`), everything else a stutter.

### Only model-checked

- All liveness and everything with `ENABLED`: out of the prover's reach.
- `NothingSteppedOver` and `PendingSettles`: liveness of the watcher.

## Not modelled

- Pure computation: pricing and contract resolution, options analytics, indicators,
  formatting; numeric and sequential, covered by unit tests, and over reals.
- Request and response with one row or none: authentication, credentials, legal
  acceptance, market-data adapters, account selection, Discord.
- The quantities of brackets: a resize and a claim are one transaction each under the
  bracket's lock, so they cannot interleave.
- State machines that could follow: the Webull session (shared acquisition, latch,
  reauthentication), the distributed order-book limiter, refresh-token rotation, the IV
  detector's compare-and-set, subscriptions and shared polling of the stream gateway,
  the Apple Intelligence supervisor.
- The iOS client, which speaks the desktop's protocols.

## Plan

Next: the machines listed above as not modelled, the Webull session first.
