# TLA+ verification of bat-markets

bat-markets is a Rust client library for linear futures on Binance, Bybit and
MEXC: market data and private streams are normalised into one local engine
state, and write commands go out over a command websocket or signed REST. This
directory holds TLA+ models of its concurrent core, TLC configurations that
check them on small instances, and TLAPS proofs.

`RT` stands for `crates/bat-markets/src/runtime.rs`, `SUB` for
`.../subscriptions.rs`, `TR` for `.../transport.rs`. `PROJECT.json` maps every
definition that models code to its source lines.

## 1. Inventory

| Component | State it keeps | Operations | Hard behaviour |
|---|---|---|---|
| Command websocket transport (TR) | current session behind an async mutex; per session a socket, a command channel, a map of waiting requests | `request_text`, `session`, `connect_session`, `request`, `invalidate_session`, `run_command_ws_session` | shared connection, timeouts against late replies, a retry on a second session, dropped futures, five ways for a session task to end |
| Single command submission (RT 784-4058) | none of its own | `create_order`, `amend_order`, `cancel_order`, `close_position`, `cancel_all_orders`, `set_leverage`, `set_margin_mode`, `set_position_mode` | fall back from websocket to REST without sending twice; what a receipt proves; commands made of several calls |
| Health report (core `health.rs`) | status, reason, connection flags, divergence | `observe_*`, `mark_*` | one status slot shared by all lanes |
| Command recovery (RT 4964-5180, 7683-8156) | pending unknown commands, engine state, health | `cache_pending_unknown`, `apply_command_receipt`, `reconcile_private`, `resolve_pending_unknown_commands`, `PendingCommandHandle::resolved` | several reconcile tasks read, await and rewrite the same list |
| Public subscription hub (SUB) | active leases, per-route plan, per-route stream | `acquire`, lease drop, `switch_public_stream`, hub end | acquires and releases of overlapping wishes, cancelled acquires, aborted tasks |
| Public stream runners (RT 5213-5837) | reconnect attempts, sequence tracker | connect, subscribe, frames, gaps, idle timeout, reconnect | when a stream ends for good and who notices |
| Private hub and streams (SUB 265-305, RT 5257-6074) | leases, one stream, listen key, age of the last frame | `acquire`, lease drop, `run_private_stream`, keepalive, maintenance tick, reconcile inside the task | sessions that go silent, repair after a gap, aborts in the middle of a reconcile |
| Batch commands (RT 1141-3034) | none of its own | `create_orders`, `amend_orders`, `cancel_orders` | one item failing, dropped sibling futures |
| Engine state (core `state.rs`), private half | orders, positions, balances, executions | `apply_private_event`, `replace_open_orders`, `replace_positions`, `merge_executions` | answers written later than given, duplicates, capacities |
| Engine state, public half, and the two catalogs | instruments, latest values, recent trades | `apply_public_event(s)`, `replace_instruments`, `refresh_metadata` | decoding with one catalog, applying with another |
| Shared state and event buses (`client.rs`, `stream.rs`) | engine behind an RwLock, broadcast lanes | `read`, `write`, `emit_*`, `recv`, `watch_*` | publication after unlock, lagging receivers |
| Command handles and facade (`entry.rs`, `facade.rs`) | a command-lane receiver per handle | `receipt`, `next_lifecycle`, `resolved` | several methods consume one receiver, events matched by ack |
| Rate limiter, sequence tracker (RT 187-265) | tokens, watermarks | `acquire`, `observe` | competing sleepers, boundaries |
| Repair windows, OHLCV paging, REST retries (RT, `facade.rs`) | none | | boundaries |
| Venue adapters, domain types, diagnostics, testing crate | parsing and formatting | | none that is stateful |

How they interact. A facade call runs in the caller's task. A write command
goes to the transport hub or to REST; its receipt is applied to the shared
state; an `UnknownExecution` receipt is cached as pending, degrades the health
and spawns a recovery task. Recovery tasks, the private stream's periodic
reconcile, its reconnects and manual calls all run `reconcile_private` against
the same runtime state. Watch handles hold leases of a hub task, which owns
the stream tasks; stream tasks write into the shared state and its health.

What makes each part correct:

* transport: a request is written at most once; `Unavailable` means it was not
  written; a waiting call is answered; a session is evicted only by a call that
  saw it fail; calls return if connects do;
* submission: a command is carried out at most once; a receipt other than
  `UnknownExecution` is proof; websocket-only commands never use REST;
* recovery: a command leaves the pending list only with evidence; `Accepted`
  after recovery stands for a write that happened; uncertainty stays visible in
  the health report; a waiting handle is answered;
* batches: each item gets its own receipt, which is proof; an error of one item
  or chunk does not hide what was sent for the others;
* hubs: the streams carry every topic of every granted lease, no stream is
  leaked, left on an old plan or aborted under a holder, unused streams stop;
* account stream: a session that went silent is replaced, and the first
  reconcile after a gap reads the executions;
* account state: executions are recorded once, a refresh removes nothing that
  stayed open, orders and positions converge to the venue's (within a page and
  in one-way mode; beyond that the code fails to, section 3);
* market data: nothing without a specification is cached, a frame is applied as
  a whole, a gap inside a session is noticed, the catalogs converge;
* lanes: the rate bound holds and starves nobody; each lifecycle event reaches
  the command's handle or is reported to it as lost; a public watcher misses
  nothing that was published after it subscribed, unless it fell behind; a
  private one should miss nothing at all.

The hazards behind these, each at the line where it bites, are listed in
`PROJECT.json`.

## 2. Modules

| Module | Models | Uses |
|---|---|---|
| `CommandTransport` | TR: hub, sessions, callers, the socket to the venue | |
| `CommandSubmission` | the eight single-write operations of RT on top of the transport | extends `CommandTransport` |
| `Health` | `health.rs`, one operator per method | |
| `CommandRecovery` | RT's recovery and `PendingCommandHandle::resolved` | extends `Health` |
| `BatchCommands` | RT's three batch writes | |
| `LeaseContract` | abstract: what a hub promises its watchers | |
| `PublicHub` | SUB's public hub and RT's public stream runners | extends `Health`, implements `LeaseContract` |
| `PrivateHub` | SUB's private hub, RT's account streams and the reconcile inside them | extends `Health`, implements `LeaseContract` |
| `AccountState` | the private half of `EngineState` and its writers | |
| `MarketData` | a public session, sequence tracker, both catalogs, the public half of `EngineState` | |
| `EventLanes` | rate limiter, command lane with its handles, public and private lane with a typed watcher | |
| `MC*` | instances for TLC: symmetry sets, constant functions | |
| `CommandSubmissionProofs` | the theorems about transport (part 1) and submission (part 2) | extends `CommandSubmission` |
| `BatchCommandsProofs`, `CommandRecoveryProofs`, `PublicHubProofs`, `PrivateHubProofs`, `AccountStateProofs`, `MarketDataProofs`, `EventLanesProofs` | the theorems about one component each | extend their component |

Operators commented "Fault:" are plausible wrong versions of the operator after
them. No specification uses them; each shows that some property notices the
mistake when it takes the place of the operator it varies.

### CommandTransport

A request is identified with its caller, because `next_request_id` never
repeats an id. One action stands for one stretch of `request_text` between two
awaits. The async mutex is `lock`; it is held over an await only while a call
connects, so all other uses of it are one step that needs `lock = NoRequest`.
`task`, `queue` and `pending` are a session's task, its unbounded channel and
its map of oneshot senders; `slot` is the receiving end of a call's oneshot.
A connect has no timeout, so nothing says that it ends; `ConnectsEnd` names that
hypothesis. `wire` and `replies` are the two directions of a socket. A frame may be carried
out by the venue after its socket has failed, a frame never handled was lost,
and a reply may come twice, late or never. `WriteFails` leaves open whether the
bytes left. `DropCall` is the caller dropping its future at any await.

### CommandSubmission

Each operation chooses its route by the code's conditions (validation, venue
capability, algo orders, `CommandTransportMode`); which of the conditions holds
for a request is an input and therefore a choice. `KeepsUncertainty`
separates the operations that test `is_uncertain_command_error` from those
that return the error with `?`. `RestCalls` says how many signed calls one
command consists of; `MergeReceipts` is how their results become one receipt.
Request bodies are not modelled, a reply is accept, reject or garbled.

### BatchCommands

Items are indices. `todo` is the list of chunks as the venue's branch cuts it:
in order, or for Binance REST cancels by kind of id and instrument
(`GroupedChunks`, whose groups keep the batch's order, `InOrder`); MEXC cancels with mixed ids and all Binance batches on the
websocket are chunks of joined single commands (`Joined`). A chunk that is one
call gets one answer with a code per item, or is refused, undecodable or
uncertain as a whole; `CacheAndEmit` then applies receipt after receipt. The
join is the three actions `JoinSend`, `JoinAnswered` and `JoinFails` per item;
`JoinFails` ends the batch and with it the futures of the others. Of the
websocket the module uses what `UnavailableNeverWritten` says, that a chunk may
be repeated over REST after `Unavailable`; that its calls return is the
hypothesis `WebSocketCallsReturn`. A Bybit answer without codes counts as
success (`BatchDefaulted`). `executed` and `flying` are the
venue's side and may change after the batch has returned.

### CommandRecovery

`step` is where a task stands in `reconcile_private`; an await lies between two
steps. `known` stands for the orders and executions in the engine state that
match a command. What REST returns is a choice among what the venue has on
record at that moment (`OnRecord`), because history pages are bounded and
venues lag. A lookup the venue rejects is taken for a missing order
(`QueryMisses`); on Bybit an empty list, on MEXC a lookup without an order id is
an error that ends the reconcile (`QueryErrs`). `flying` says that the venue may still carry the command out. Which
commands and background tasks take part (`cast`), the venue and the best id
each command carries (`ids`) are chosen initially.

### PublicHub

`inbox` is the hub's command channel, `plan` and `current` are
`current_subscriptions` and `current_streams`, `streams` keeps every stream task
ever spawned with its state. `Abort` distinguishes a task that waits (it stops)
from one that is being polled (it finishes its poll, `FinishPoll`). Topics are
instruments times kinds; payloads are left out, a frame is what it does to
stream and health.

### PrivateHub

Hub and callers as in `PublicHub`, with one stream instead of a plan. A stream
has a state, an age of its last frame (`fresh`, `stale` for
`snapshot_stale_after_ms`, `idle` for `ws_idle_ms`), and a flag `deaf` for a
session on which the venue sends no account event: an expired listen key on
Binance, a refused login elsewhere. The reconcile runs inside the task, so no
frame is read during `job`. `repair` is a history variable: `due` from a gap to
the report of a reconcile that read executions, `failed` when the REST calls or
an abort ended the attempt. No command is pending here; what reconcile does to
pending commands is `CommandRecovery`'s subject.

### AccountState

The venue has its own book, trades and positions and sends a frame for each
change. The stream applies frames; a REST call is two or three steps: the venue
answers (`Ask*`, twice for Binance's plain and algo orders), anything happens,
`Apply` writes in one critical section. `reconcile_private` is a `plan` of such
calls. `mode` is the account's position mode; in hedge mode the venue holds a
long and a short position per instrument (`held`) while the cache has one entry,
so that of two rows the one listed last remains (`Collected`). Bybit and MEXC
answer with one page (`Pages`): which rows it lists is the venue's choice.
`ParseBinancePrivate`, `ParseBybitPrivate` and `ParseMexcPrivate` say
which events a frame becomes: Binance repeats an execution in two topics, Bybit
skips positions of size 0. The events are a set, because a frame has at most one
event for each entry of the state (`Slot`) and their order makes no difference.
`Merged` is the loop of `merge_executions`, a recursive function over the
answer, in which `Record` is one turn.

### MarketData

Three kinds of event stand for all: "Price" (latest value, needs the
specification), "Trade" (bounded list, needs it too), "Rate" (latest value,
needs none). Frames are decoded with `adapter`, applied with `state.catalog`;
`refresh_metadata` is three steps (ask, replace one, replace the other) and two
tasks may run it. As in `AccountState` a frame is a set of events. `watermark` is the tracker's entry of the one numbered topic.

### EventLanes

Channels are kept whole; a receiver that is more than `Capacity` behind has lost
what lies before `Oldest`. A handle is `next` (its receiver), `at` (which
reading of the clock its ack holds), the call under way and what `resolved()`
last returned; `read` and `lost` remember which events of the command's
lifecycle its calls took and which ones a reported lag stands for. The rate limiter counts tokens; a tick of time is worth one
token, so a refill faster than the sleep is more ticks. Command, public and
private lane share nothing and a behaviour exercises one of them (`using`).

## 3. Runs

Passing runs:

| Run | Instance | Shows |
|---|---|---|
| `CommandTransport` | 2 calls, 2 sessions, accept and reject | the transport's safety properties; every call returns if every connect ends (`CallsReturn`), evicted sessions end |
| `CommandSubmission` | 2 commands of any of the nine kinds, 2 sessions, Binance (where cancel-all is a pair of calls) | nothing is carried out twice, websocket-only commands stay off REST, and the receipt of an order or a setting is proof (`ReceiptIsProof`) |
| `CommandRecovery` | 1 create command beside a manual or a periodic task, or 2 create commands, all venues and kinds of id, failing REST, moving public stream | with one command uncertain, recovery claims only what happened; reports are right although the list is rewritten concurrently; handles are answered unless their task failed |
| `PublicHub` | all venues, 2 overlapping leases, one with an interval no stream accepts, 1 reconnect, cancelled acquires | one stream per route, held leases are covered, the hub implements `LeaseContract`, unused streams stop |
| `BatchCommands` | all venues and modes, 4 items in chunks of 2, two instruments, both kinds of id | an item's receipt is its own and is proof, no ack is missing, batch calls that end in an error keep track of the chunks sent before, batches return if their websocket calls do |
| `PrivateHub` | all venues, 2 leases, 1 reconnect, 1 failing reconcile, periodic reconciles | a stream is never aborted under a holder and none is left after the last release; the hub implements `LeaseContract`; on Binance a session whose key ran out is replaced; the first reconcile after a gap reads executions |
| `AccountState` | all venues, one-way mode, pages of 1 row, 2 orders on 2 instruments (one an algo order, one partially filled before), 2 trades, 1 application call, 1 failure, 1 disconnect, room for 2 executions | no execution twice, no refresh drops an order that stayed open in its scope if that scope fits a page, open orders and positions converge whenever they come to fit one |
| `MarketData` | all venues, 2 instruments, 3 trades and room for 2, 2 sessions, 1 change of the list, 2 refreshers, 1 REST write | no value without a specification, no unnoticed gap in a Binance session, both catalogs follow the venue |
| `EventLanes` | 2 commands with burst 0, a channel of 2, 1 receipt published by `classify_command_json`, a public lane of 5 events | the rate bound, progress of every command, a handle's lifecycle events are read, ahead or reported, a public watcher loses only what was overwritten, `resolved()` answers when its completion is still ahead |

Every module states the shape of its state as `TypeOK` (`SubmissionTypeOK`).
Section 4 proves it for all of them. The `CommandTransport` run checks it as
well; the other runs spend their time on the properties that relate several
actors, and check it when its name is added to the `INVARIANTS` of the `.cfg`.

Runs in which the code disagrees with what the repository says (each is a
finding in `PROJECT.json` with the line quoted):

| Run | What TLC finds |
|---|---|
| `CommandRecoveryLostUpdate` | a command cached while another task reconciles is dropped from the list, its own recovery finds nothing pending, and `resolved()` returns `Accepted` for a write that never happened |
| `BatchDropped` | one failing item of a joined batch leaves items already sent without receipt |
| `EventLanesResolved` | the handle of a setting or a cancel-all has a second time stamp in its ack; when it differs, `resolved()` passes over its own `RecoveryCompleted` and waits for ever |

Four more formulas state what the repository says and the code does not keep.
They are not among the runs of `PROJECT.json`; each has a configuration of its
own with which TLC shows the counterexample, and the property that the passing
run checks instead names the condition under which the code does keep it:

| Configuration | Module | Formula | What TLC finds | What says otherwise |
|---|---|---|---|---|
| `CommandTransportSilentPeer` | `CommandTransport` | `EveryCallReturns` | a connect (TR 157) that never ends keeps the hub's mutex, and neither it nor a call behind it returns | `config.rs:39` "Request and socket timeout policy." with a `ws_handshake_ms` that no code reads; only Bybit's login has a deadline (TR 358) |
| `AccountStatePaged` | `MCAccountState` | `RefreshKeepsEveryOpenOrder` | two orders are open, RT 546-577 reads one page, which lists one, and `state.rs:198` drops the other from the cache | `README.md:150` "Open orders scoped by request." |
| `AccountStateHedge` | `MCAccountState` | `EveryPositionConverges` | a long and a short position on one instrument share a key (`state.rs:191`), so the cache keeps one of the two for ever | `capability.rs:115` `hedge_mode: true`; `architecture.md:215` "`EngineState` is the single local projection." |
| `EventLanesPrivate` | `MCEventLanes` | `PrivateLaneIsLossless` | a private watcher one channel behind passes over the overwritten events (`stream.rs:203`; the channel has 4_096 places, `client.rs:96`, the policy 8_192) | `execution.rs:42` `lossless: true`; ADR-0002:28 "private state stays lossless at the model level" |

Behaviour the models have and no property claims, because the code does
otherwise; the constants named show each of it:

* Submission. A timed-out `cancel_all_orders` or `set_position_mode` is an
  ordinary error while it may still be carried out (`ReceiptIsProof` speaks of
  the other operations). A reply `classify_command` cannot decode is an error
  without a receipt. On Binance cancel-all without an instrument is `Accepted`
  whatever the bodies say, and sends nothing if no open order is known. On MEXC
  one rejected half makes a half-executed leverage change `Rejected`; with a
  cached position it sends one call, for that position only. Any error body of
  Binance is `Rejected`, also the codes -1006 and -1007 by which the venue says
  that it does not know the outcome: in the models a rejecting reply means that
  nothing was carried out.
* Recovery. With `Kind` "cancel", an uncertain cancel resolves to `Accepted`
  because the order it names is known; with "setting" it is never cached, so
  recovery finds nothing pending and resolves it to `Accepted`. After one failed
  REST call `resolved()` waits for ever, and on Bybit an empty list in answer to
  the lookup of an order is such a failure. A periodic reconcile whose mode was chosen before the
  command became uncertain, or a public reconnect (`StreamsMove`), clears
  `CommandUncertain` from the health report.
* Hubs. An unchanged plan (`switch_public_stream`) and an existing handle
  (`run_private_hub`) count as a running stream: after a stream ended on an
  error that is no transport error, further acquires are granted on it and get
  no event. An acquire dropped while it waits is granted, nobody holds the lease
  that would release it, and its stream runs on until the client is dropped.
* Account stream. After a gap whose reconcile failed, `mark_snapshot_age` has
  replaced the reason, so the next periodic reconcile reads snapshots only and
  reports `Healthy` (`repair` stays "failed"). A refused login on Bybit or MEXC
  leaves a session that pings keep fresh for ever.
* Account state. A refresh scoped to one instrument removes the cached open
  orders of all others until the next full refresh (`Requests` with a scope);
  `RefreshKeepsOpenOrders` is limited to the scope for that reason. Convergence
  needs `Periodic`.
* Market data. A REST answer may overwrite a newer streamed value. A delisted
  instrument ends the stream for all instruments it carries.
* Batches. `BatchWritesAreTracked` leaves out replies that cannot be decoded:
  `?` returns them as an error although items may have been carried out.
  `ItemReceiptIsProof` leaves out Bybit answers without codes, which make every
  item `Accepted`.

### Bounds

`MaxSessions = 2`: a call makes two attempts, so two sessions are the least with
which a retry, an eviction of the wrong session and a late frame of the first
session can meet. Two calls let one evict while the other has opened the next
session. A connect beyond the bound
can only fail. `MaxCalls = 2` is the number of calls a command is made of in the
code (one for a MEXC setting whose position is cached); cancel-all over several instruments repeats the pair, and one pair shows
its effects. Two commands suffice for a read-await-write race on the pending
list. Four items in chunks of two give a full and a partial chunk, a chunk that
fails after another was sent, and a regrouping in which a chunk's items are not
neighbours in the batch; `ChunkSize` is 5 to 50 in the code. Two leases whose wishes overlap in one route and differ in another cover:
new stream, replaced stream, unchanged plan, last lease. `MaxReconnects` is the
code's own configuration value; 1 lets a stream reconnect once and give up once.
One failing reconcile of the account stream separates a repair that failed from
one that succeeded. Two orders, one of each of Binance's lists, and two trades
let a partial fill, a fill and a position that opens and closes meet a late
answer; a third trade only repeats them. Pages of one row (20 and more at the
venues) let two open orders be more than a page and one be a full one. Three trades with room for two make the
list drop its oldest. A channel of two
events overflows with one uncertain command, before its caller has the handle,
and again with the other command or a receipt published by others. `ticks` counts up to the number of commands: beyond it
the rate bound says nothing more.

The safety properties do not hang on these numbers: section 4 proves them for
every value the assumptions on the constants admit. The liveness properties are
shown for the instances above only.

### Fairness

* Transport: the runtime polls every woken task, so steps of a call and the end
  of an unreferenced session are weakly fair; `tokio::sync::Mutex` is a FIFO
  queue, hence strong fairness for the steps that take it. Nothing is assumed of
  the venue, and nothing makes a connect end: `CallsReturn` has that as its
  hypothesis (`ConnectsEnd`), without which it fails (`EveryCallReturns`,
  section 3).
* Recovery: spawned tasks are polled and their REST calls end, because the HTTP
  client has a request timeout.
* Batches: the caller's task is polled and REST calls end by the client's
  timeout. That websocket calls return, which rests on connects that end, is the
  hypothesis `WebSocketCallsReturn` of `BatchReturns`, and no fairness.
* Hubs: the hub task and an answered caller are polled; an aborted task stops at
  its next await. Nothing is assumed of watchers and sockets. In `PrivateHub`
  time passes and the maintenance timer fires (`tokio::time::interval`), and a
  reconcile's REST calls end.
* Account state: REST calls end, the stream's task is polled and reconnects, and
  its periodic reconcile fires again and again.
* Market data: tasks are polled, REST calls end, and the metadata is refreshed
  again and again.
* Lanes: time passes, a woken task is polled, a spawned reconcile ends.

## 4. Proofs

TLAPS proves every safety invariant, every action property and both refinements
that the passing runs check, for all values of the constants. A theorem rests on
the named `ASSUME` of its component and nothing else, except for the two
hypotheses stated below; the runs evaluate each `ASSUME` on their instance. Each
component has an inductive invariant, one lemma per action or group of actions,
and corollaries that name the properties of the runs. The tables of section 3 say what the properties mean.

| Module | Theorem | Property |
|---|---|---|
| `CommandSubmissionProofs`, part 1 | `TransportTypes` | `TypeOK` |
| | `AtMostOneFrame` | `WrittenAtMostOnce` |
| | `UnavailableIsSafeToResend` | `UnavailableNeverWritten` |
| | `WaitersAreServed` | `WaiterIsOwedAnswer` |
| | `ConnectIsExclusive` | `ConnectsOneAtATime` |
| | `EvictionIsExact` | `EvictsOnlyTheFailedSession` |
| | `RepliesAreVerdicts` | `ReplyIsOwnVerdict` |
| part 2 | `SubmissionTypes` | `SubmissionTypeOK` |
| | `NoCommandRunsTwice` | `ExecutedAtMostOnce` |
| | `WebSocketOnlyStaysOnWebSocket` | `WebSocketOnlyNeverRest` |
| | `ReceiptsAreProof` | `ReceiptIsProof` |
| `BatchCommandsProofs` | `PlanCuts` | every item is in one chunk, at one place |
| | `BatchTypes` | `TypeOK` |
| | `ItemReceiptsAreProof` | `ItemReceiptIsProof` |
| | `NoAckIsEverMissing` | `NoAckIsMissing` |
| | `BatchesReturnTracked` | `BatchWritesAreTracked` |
| `CommandRecoveryProofs` | `RecoveryTypes` | `TypeOK` |
| | `ReportsCoverWhatWasRead` | `ReportCoversWhatWasRead` |
| | `LoneRecoveriesAreProven` | `LoneRecoveryIsProven` |
| `PublicHubProofs` | `PublicHubTypes` | `TypeOK` |
| | `NoStreamLeaks` | `OneStreamPerRoute` |
| | `HoldersAreCovered` | `HeldLeaseIsCovered` |
| | `PublicHubKeepsContract` | `KeepsContract`, the hub implements `LeaseContract` |
| `PrivateHubProofs` | `PrivateHubTypes` | `TypeOK` |
| | `HoldersKeepTheStream` | `HeldLeaseKeepsStream` |
| | `FirstReconcileRepairs` | `GapIsRepairedFirst` |
| | `PrivateHubKeepsContract` | `KeepsContract` |
| `AccountStateProofs` | `AccountTypes` | `TypeOK` |
| | `ExecutionsAreDistinct` | `ExecutionsRecordedOnce` |
| | `RefreshDropsNoOpenOrder` | `RefreshKeepsOpenOrders` |
| `MarketDataProofs` | `MarketTypes` | `TypeOK` |
| | `NothingIsOrphaned` | `NoOrphans` |
| | `GapsAreNoticed` | `NoSilentGap` |
| `EventLanesProofs` | `LanesTypes` | `TypeOK` |
| | `LimiterKeepsRate` | `RateBound` |
| | `HandlesSeeTheirLifecycle` | `HandleMissesNothing` |
| | `WatchersSeeTheirEvents` | `WatcherMissesNothing` |

### The inductive invariants

*Transport* (`TransportInv`). `WrittenAtMostOnce` is not inductive: a retried
request must be known to be untouched. `FreshInv` says so (a call that has not
sent yet, or has failed as `Unavailable`, has no frame, no queue entry, no
sender), and it needs `HeldInv` (which session a call uses), `OutcomeInv` (no
outcome before the send), `TaskInv` (a task that ended owns nothing) and
`LockInv` (a connecting call owns the mutex and the hub is empty).
`ReplyIsOwnVerdict` needs more: a request has one frame on one wire, is looked
at by the venue once, and every answer under way tells what happened then
(`Verdict`).

*Submission* (`SubmissionInv`). The transport's invariant holds for the composed
system too, because each of its steps is a step of the transport or leaves the
transport alone. `Command` adds that a command uses one route at a time: it goes
to REST only when the websocket has nothing of it left, which is where
`UnavailableNeverWritten` is used, and what its REST calls did or may still do
(`Effects`) is at most the number of calls made. `ReceiptInv` strengthens it
for receipts: a command with a definite receipt has nothing in flight.
`ReceiptsAreProof` has two hypotheses. `SingleCalls`: the operations that keep
their uncertainty are one REST call each, which holds for all of them on Binance
and Bybit and on MEXC without the two leverage settings. And replies can be
decoded; section 3 says what the code does otherwise.

*Batches* (`BatchInv`). `PlanCuts` shows that each way of cutting a batch, in
order, by kind of id and instrument, or joined, puts every item in one chunk.
Then `PlanInv` (chunks still to do are disjoint and untouched), `ItemInv` (an
item's answer says what was done), `FlightInv` (no two calls carry one item),
`ChunkInv` (receipts are handed out in the order of the chunk's items),
`CoverInv` (an item has its receipt, or is under way or still to do) and
`ReturnInv` support each other.

*Recovery* (`RecoveryInv`). `RecordInv`: the engine state knows a created order
only if the venue created it. `TaskInv`: what a reconcile saw pending and no
longer holds for unresolved is proven; this does not mention the pending list,
which other tasks rewrite meanwhile, and that is why `ReportCoversWhatWasRead`
survives the lost updates. `LoneInv`: with no uncertain command beside it, a
command stays on the list until it is proven. `LoneRecoveriesAreProven` assumes
that the commands are creations: the order that a cancel names is on record
whether or not the cancel happened, and a setting is never cached.

*Hubs* (`HubInv` in both). `LeaseInv`: a granted lease not given back is
counted. It needs `InboxInv`: a release in the inbox comes from a handle that is
gone. `CurrentInv` and `StoppedInv`: the streams the hub points at are those of
its plan, all others were told to stop. `PlanInv` (public): the plan is computed
from the leases counted now. `RepairInv` (private): a gap whose repair is due is
in the hands of the current stream, on a path that reads the executions. Both
refinements map the granted leases to `active` and what is carried to the topics
of the hub's plan (the account, while it has a stream); every step is a step of the contract or a
stutter.

*Account* (`AccountInv`). `ExecutionsRecordedOnce` is inductive; the work is in
the loop of `merge_executions`, which keeps the list distinct and within its
capacity for answers of any length (`MergedIsRecord`). `AnswerInv` says what a
REST call has read at each of its stages: between Binance's two requests the
plain orders that were open are listed, after the second every order is that was
open and still is. On Bybit and MEXC it says so of a call whose orders fit the
one page (`FitOnePage`, which `RefreshKeepsOpenOrders` has as its condition). This stays true while orders open, trade and fill because an
order that closed does not open again.

*Market data* (`MarketInv`). `NoOrphans` is kept because the catalog is replaced
and the caches are pruned in one critical section and a frame is looked up in
the same catalog it is applied to. `GapInv` relates the tracker to the list:
while a session is up its watermark is the trade it cached last, and later
sessions have later numbers.

*Lanes* (`LanesInv`). `RateBound` is inductive (tokens and passed commands
together are bounded by burst and ticks). `HandleInv`: nothing of a command's
lifecycle is published before its receiver subscribes, and every such event is
`Accounted` for: read, lost, or not before the receiver. What is overwritten
stays so (`OldestGrows`). `WatcherInv`: a receiver is never ahead of its channel,
and what it passed since the grant it got or skipped when it was overwritten.

Submission, batches and hubs are proved over `Spec`; recovery, account, market
data and lanes over `SafetySpec`, which `Spec` strengthens by fairness.

The library's induction theorems cannot be used with the provers at hand.
The loop of `merge_executions` is covered by a least counterexample instead:
`LeastNatural` derives it from the well-foundedness of the naturals. Chunks and
groups of a batch are defined without recursion, by arithmetic on positions and
by cardinalities.

### Model-checked only

Liveness, because reasoning with fairness and `ENABLED` is outside the prover's
reach: `CallsReturn`, `OrphanSessionsEnd`, `CommandsGetThrough`,
`BatchReturns`, `RecoveredHandlesResolve`, `ResolvedReturns`,
`UnusedStreamsStop`, `UnusedStreamStops`, `DeafSessionIsReplaced`,
`OpenOrdersConverge`, `PositionsConverge` and `CatalogsConverge`. The
findings are counterexamples and have nothing to prove.

## 5. Not modelled

Field by field parsing, signing, formatting and numeric wrappers (stateless),
diagnostics (counters nothing depends on), the testing crate, examples.
Repair windows and OHLCV paging: arithmetic on time stamps; where a model reads
history it may get any part of what the venue has on record. The REST retry
loop: it repeats reads only, and a repeated read is a later one. Balances and
account summaries: written like positions. The health watch channel, which is
published after the lock is released and may therefore show two changes in the
wrong order until the next one. Fetches that write nothing.

## 6. Plan

No safety property of the runs is left unproved. What could follow:

* properties for the hazards that have none yet, each with the reason in
  `PROJECT.json`: most are behaviour of the code that the models have and that
  contradicts the property one would want (section 3);
* the safety steps behind the liveness properties (what a fair step changes and
  that nothing undoes it) as theorems, with only the use of fairness left to
  TLC;
* repair windows and OHLCV paging as operators over bounded time stamps.
