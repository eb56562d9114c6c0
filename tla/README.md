# Sharpside in TLA+

Sharpside copies the trades of prediction-market traders. A hub watches traders on
Polymarket, a follow service turns what they do into copy orders for the users who
follow them, and a copier (or a daemon on the user's own machine) places those orders
with real money. This directory holds TLA+ models of the parts where an interleaving,
a crash, a lost message or a sum costs money, the TLC runs that check them on small
instances, and TLAPS proofs of what matters most for every instance. All paths below
are relative to the repository root.

## 1. The system

### Components, state and operations

| component | where | state it keeps | operations |
|---|---|---|---|
| venue-hub: trade_watch | `services/venue-hub/src/workers/trade_watch.rs` | `raw_trades`, `trade_watch_cursor` | poll `/trades` per watched address, page, write the ledger, advance the cursor, emit one signal per trade |
| venue-hub: signal_emit, signal_replay | `.../workers/signal_emit.rs`, `signal_replay.rs`, `crates/db/src/queries/outbox.rs` | `signal_outbox` | POST a signal to follow; on failure store it; re-send with backoff; dead-letter after five attempts |
| venue-hub: hot | `.../workers/hot.rs` | `trader_positions_snapshot` | poll positions, write a snapshot round, compare the last two closed rounds with the ledger, emit the residual |
| venue-hub: ingest, backfill, perf, official_pnl, imports | `.../workers/*.rs`, `routes/traders.rs` | trader tables, performance rows, curves, timelines | periodic fetch and recompute |
| venue-hub: identity, mapping; admin | `.../workers/identity.rs`, `mapping.rs`, `apps/admin/src/routes.rs` | identities, links, market mappings | propose, verify, reject, retire, resolve |
| follow | `services/follow/src/{routes,signal,watchlist}.rs` | `follow_relation`, watchlists | CRUD of follows with slot limits; `POST /internal/signals` derives copy orders |
| copier, channel A | `services/copier/src/{exec,reclaim_worker,reconcile_worker,risk}.rs` | `copy_order`, `copy_execution` | exec: gates, price, claim, place; reclaim: retry of stuck orders; reconcile: ask the venue, book, close |
| copier, channel B | `services/copier/src/routes.rs`, `apps/daemon/src/main.rs` | the same rows, the daemon's `since` | daemon lists orders, executes locally, reports the result |
| copier: money out | `services/copier/src/routes.rs`, `redeem_worker.rs`, `account/src/migrate.rs` | `withdrawals`, `redemptions`, redeem cursor | withdraw, redeem, merge, redeem worker, moving an archived wallet's money |
| copier: portfolio | `services/copier/src/routes.rs` | none: computed from executions | lots, profit, curve, balance |
| account | `services/account/src/*` | users, wallets, SIWE nonces, JWT denylist, credentials, billing | login, link wallets, provision deposit wallet, subscriptions |
| gateway | `services/gateway/src/*` | token buckets | auth, rate limits, proxying |
| venue adapters | `crates/venues/*`, `crates/clob-auth`, `crates/kms` | none | sign, post, query, cancel |
| pure libraries | `crates/perf`, `crates/mapping`, `crates/identity`, `crates/botfilter`, `crates/shared` | none | performance metrics, market mapping, similarity, filters |
| front ends | `apps/web`, `apps/admin`, `apps/tg-bot` | none of their own | HTTP clients, static pages |

### How they interact

Everything meets in PostgreSQL. `trade_watch` and `hot` find a change of a trader's
position and POST it to `follow` (`/internal/signals`, shared secret); a failed POST
goes to the outbox and is re-sent by `signal_replay`. `follow` writes one `copy_order`
row per matching relation, unique by `(signal_id, follow_relation_id)`. The copier
polls rows of channel `tg`; a daemon lists rows of channel `daemon` over HTTP and
reports back. The copier calls the venue through `Venue::place_order`, `order_state`
and `cancel_order`. There are no locks across calls: the only synchronisation is the
condition in an `UPDATE ... WHERE status = ...` (compare-and-set) or a unique index.

### What is hard

* **Two systems, no transaction.** An order exists in the database and at the venue, a
  withdrawal in a row and at a relayer. A crash, a lost answer or a timeout leaves them
  apart, and workers try to bring them together (`CopyOrders`, `DaemonChannel`, `MoneyOut`).
* **Compare-and-set here, blind write there.** `claim`, `mark_submitted` and
  `reclaim_dispatched` look at the present status; `skip`, `fail` and reconcile's
  final write (`update_copy_order_status`) do not.
* **Check, then act.** The risk gates, the daily limit of withdrawals, the slots of
  follows, the count of wallets and the confirmations of invoices are read before what
  they protect is written (`RiskGate`, `MoneyOut`, `FollowBook`, `Sessions`, `Billing`).
* **At-least-once delivery.** Signals are re-sent, trades are re-read, two detectors
  see the same trade (`SignalDelivery`, `HotReconcile`, `FollowBook`).
* **Poll cursors.** trade_watch, the redeem worker and the daemon each advance a cursor
  around work that can fail.
* **Rows with several writers.** Trader pages, identities and credentials are written by
  workers and operators column by column (`TraderRows`, `IdentityLinks`, `Provisioning`).

## 2. Modules

| module | models | checked by |
|---|---|---|
| `CopyOrders` | the life of channel-A orders: exec, reclaim, reconcile, venue, credentials, crashes | `MCCopyOrders` |
| `OrderPromise` | what channel A promises, without workers, retries or a network | refined by `CopyOrders` |
| `RiskGate` | the gates before the claim over moving statistics | `MCRiskGate` |
| `SignalDelivery` | trade_watch, signal_emit, signal_replay, the queueing in follow | `MCSignalDelivery` |
| `DaemonChannel` | daemons, the endpoints they call, executions and reports | `MCDaemonChannel` |
| `MoneyOut` | withdraw, redeem, merge, the redeem worker, relayer and chain | `MCMoneyOut` |
| `Billing`, `FollowBook`, `Sessions`, `Provisioning` | invoices; follows, watchlists and derivation; login and wallets; credentials | composed in `Accounts`, `MCAccounts` |
| `HotReconcile` | the residual detector against the ledger | `Workers`, `MCHotReconcile` |
| `PositionLedger`, `Portfolio` | figures from trades; the user's page from executions | `Workers` |
| `TradeBackfill`, `TraderRows` | how past trades come in; the rows of a trader's page and their writers | `Workers` |
| `IdentityLinks`, `MarketMappings` | curation of identities and of market pairs | `Workers` |
| `OrderPricing` | what an order costs, from the signal to the venue | `Workers` |
| `CopyOrdersProofs`, `RiskGateProofs`, `SignalDeliveryProofs`, `DaemonChannelProofs`, `MoneyOutProofs`, `AccountsProofs`, `WorkersProofs` | theorems of the module they are named after | TLAPS |
| `SumLemmas` | sums over finite sets, for the proofs about notionals, caps, totals and residuals | TLAPS |

The `MC` modules only give constants to TLC.

**Compositions.** `OrderPromise` is instantiated in `CopyOrders` with a refinement
mapping. `Accounts` and `Workers` put modules side by side whose tables are disjoint: of
what one reads, the little that another writes (the tier, the ownership of wallets, the
ledger, the trades recorded) is admitted with any value by the reader, so the steps of
two modules commute and each invariant speaks of one of them. A behaviour therefore picks
one part and lets the others stand in their initial state; every behaviour of the
interleaved product projects to those, and the invariants of a part hold of the product.
What does interact shares variables inside one module: the three workers of channel A
with the venue and the credential, the gates with the workers that change their
statistics, trade_watch with replay and follow, the redeem worker with requests and the
migration, billing's two confirmation paths with the operator, upgrades with deletions
and redelivered signals.

### CopyOrders and OrderPromise

State. `status`, `stamp`, `venueId`, `execution` are the columns of `copy_order` and
`copy_execution`; `aged` says which rows are past the timeout of their status
(`DISPATCHED_TIMEOUT_SECS`, `RECONCILE_TIMEOUT_SECS`); `wallet` and `revoked` are the
user's credential; `mode` is two environment variables of each process that know nothing
of each other: `COPIER_DRY_RUN` (`dry`), which only exec looks at, and
`POLYMARKET_CLOB_POST` (`post`), which `place_order` looks at, whoever calls it; `exec`,
`recl`, `recon` are the locals of the three tasks of each copier process; `wire` and
`venue` are requests under way and the venue's book.

Every SQL statement and every venue call is an action, so everything else may run in
between. An order's identity at the venue is the hash of what was signed:
`[order, stamp, wallet]`. The salt is a function of the row's id
(`derive_idempotency_salt`), the stamp stands for timestamp, price and size (chosen at
the claim and stored), the wallet for the credential that signs.

| action | code |
|---|---|
| `ExecPull`, `ExecTake` | `exec.rs` `tick`, `list_pending_copy_orders` |
| `ExecSkip` | every gate of `process_one` that ends in `skip()` |
| `ExecReady`, `ExecClaim`, `ExecGiveUp` | credential, `claim_copy_order`, a lost claim |
| `ExecPost`, `ExecOk`, `ExecErr`, `ExecDrySign` | `place_order` and its outcomes |
| `ExecMark`, `ExecMarkErr`, `ExecFail` | `mark_copy_order_submitted`, `fail()` |
| `ExecDryBook`, `ExecDryClose` | `dry_run`, `record_fill_with` |
| `Recl*` | `reclaim_worker.rs` `tick`, `retry_one`, `reclaim_dispatched` |
| `Recon*` | `reconcile_worker.rs` `tick`, `reconcile_one`, `record_fill` |
| `Venue*` | external: Polymarket's CLOB |
| `Age`, `Revoke`, `Reprovision`, `Crash` | clock, user, operating system |

`OrderPromise` keeps five variables (`fate`, `body`, `sent`, `final`, `books`) and one
that never changes (`trading`, whether no process books fills of its own), and says:
an order is taken once; taking it fixes the body; only that body is ever sent for it; its
fill is booked once, as the venue settled it; it is called filled only with its fill in
the books; it never becomes open again. `CopyOrders` maps its rows, wire and venue to
these (`Fate`, `Posted`, `Final`), and `KeepsThePromise` is `Promise!Spec`.

### RiskGate

State. `rows` is the user's `copy_order` table in queue order, `execution` the fills,
`today` the executions of the last 24 hours, `window` the first order inside the
rapid-flip window, `snapshot` the source trader's positions; `regime` names the limits in
force, `peak` and `unread` are history. Each gate is one step, in the order of
`process_one` (`Gates`); a gate that fails leads to `skip()`. A query error fails closed
for the statistics, drops both follow gates for the follow relation (`.ok()?`) and passes
the R1-C cap, as in the code.

### SignalDelivery

State. `feed` is what the venue's `/trades` shows, `ledger` the table `raw_trades`,
`cursor` the row of `trade_watch_cursor`, `outbox` the table `signal_outbox`, `orders`
the number of copy orders per trade and relation; `watch` and `replay` are the locals of
the two workers. `missed` and `lost` are history: the trades that a fault took out of
reach of every later poll, before they were in the ledger (hot still finds those) and
after (nobody does).

| action | code |
|---|---|
| `WatchBoot*` | first poll of a trader: baseline only |
| `WatchBegin`, `WatchPage*` | `tick_once`: cursor, pages newest first, composite cursor `Newer` |
| `WatchWrite*`, `WatchMark*`, `WatchWritten` | `upsert_raw_trade`, `advance_trade_watch_cursor`, oldest first |
| `Post`, `Store*` | `emit_signals`, `enqueue_signal_outbox` |
| `Replay*` | `signal_replay.rs`, `mark_outbox_delivered`, `bump_outbox_attempt` |
| `Queue` | `ingest_signal` of follow: one `enqueue_copy_order` per relation, unique |
| `Trade`, `Tick`, `Crash` | trader and venue, clock, operating system |

### DaemonChannel

State. `rows` and `execution` are the tables, `daemon` the `since` cursor, the batch and
the report in hand of each daemon, `requests` the reports that are under way or being
answered by the copier (a request goes on after its sender has died), `posted` counts the
venue orders of each daemon per row, `aborts` the reports it gave up. `slipped` and
`torn` are history: rows passed by the cursor in a known way, and executions whose answer
was lost. `barred` are the rows whose venue the user's jurisdiction does not allow at the
moment: the handler drops them from the list after the limit was applied, so that they
take the place of others and stay pending; `Relocate` changes it. `List`, `Execute`,
`PostOrder`, `DryReport`, `Report`, `Finish`, `NoAnswer`, `Abort`, `Restart` are
`poll_loop` and `poll_once` of the daemon; `Claim`, `Book`, `BookErr`, `Answered` are the
statements of `report_result`. A daemon that only signs may fail as well, for want of a
key or of a venue it knows.

### MoneyOut

State. `withdrawals`, `redemptions` are the tables; `chain` the cash, tokens and nonce of
each wallet; `relay` every batch the relayer has accepted; `task` the locals of each
request and of the worker; `scan` the worker's tick with its in-memory cursor (`LAST_SCAN`);
`closed` and `clear` the markets that are closed and those whose outcome is known.
`untimed` are those that were closed when they were first stored: `upsert_raw_market`
writes `resolved_at` only when it updates a row, so no cursor finds them until they are
stored again. `slips` is history: the requests and rows that the daily limit does not see.

| action | code |
|---|---|
| `Withdraw`, `RedeemByHand`, `MergeByHand` | the checks of the three handlers |
| `RedeemArchive`, `MigrateArchive` | `account/src/migrate.rs` |
| `InsertWithdrawal`, `InsertRedemption` | the audit rows; a conflict ends the request |
| `Sign`, `SignErr`, `Submit`, `SubmitErr`, `Poll` | nonce and signature, `/submit`, `poll_confirmed` |
| `Write`, `WriteErr` | the status that comes of it, `mark_redemption_retry_failed` |
| `Tick`, `Retry`, `Market`, `TickEnd` | `redeem_worker.rs` |
| `Close`, `InsertClosed`, `Clarify` | `upsert_raw_market` on a known market, on a new one, and the outcome |
| `Mine`, `Drop` | Polygon, the relayer |
| `DayPasses`, `Migrate`, `Crash` | clock, provisioning, operating system |

### Accounts: Billing, FollowBook, Sessions, Provisioning

* `Billing`: `invoices`, `payments`, `sub` are the tables, `chain` and `head` Polygon,
  `worker` the batch under way. One step per handler (`CreateInvoice`, `SubmitTx`,
  `InternalConfirm`, `Unsubscribe`), per statement of the confirming worker (`StartBatch`,
  `TrySubmitted`, `ScanLogs`, `Finalize`, `RunExpiry`), and the chain (`Pay`, `Mine`,
  `Reorg`). A submitted hash may be anybody's, and the free tier may be taken with any
  `until` (`Untils`). `owed` is history: the days ahead that were paid for, and those of an
  `until` that the user wrote.
* `FollowBook`: `follows`, `watch`, `orders` are the tables, `call` what a handler has
  read before it writes, `ingest` the signal being turned into orders, `outbox` the
  signals that are delivered again. `Pending` is `derive_copy_orders` with `Matches` and
  `Notional`; orders that are derived as skipped are rows too.
* `Sessions`: `nonces`, `users`, `owner`, `tokens` are `auth_nonces`, `users`,
  `user_wallets`, and issued JWTs with the denylist; `call` the handler between two
  statements.
* `Provisioning`: `row` and `archives` are `user_venue_credentials` and
  `credential_archives`; `stage` the provisioning requests between their statements.

### Workers

* `HotReconcile`: `positions` written in rounds, `hot` the fetch and the two rounds
  compared, `ledger` what trade_watch has recorded (as `Record`, `Miss` and `CatchUp`),
  `residuals` the sum of what was signalled.
* `PositionLedger`: `book` is the replay of the trades so far (`PositionAccumulator`),
  `notes` an independent bookkeeping; curve, figures, drawdown, daily and sparkline
  selections are functions of it, checked against the notes and each other. Money is in
  whole units: where the code's `f64` keeps the fraction of an average cost, the model
  rounds it down and notes what is lost (`Rounded`), and the properties account for it.
  A drawdown is a pair of loss and peak, compared as a fraction.
* `Portfolio`: `execs` are the user's executions; the page is recomputed from them.
* `TradeBackfill`: `rows` says which trade each transaction's row is of, `job` the import
  and the worker between fetch, inserts and mark.
* `TraderRows`: `rows` per period and category, the `pages` of curve, timeline and tags,
  and the three workers that write them, one statement at a time.
* `IdentityLinks`, `MarketMappings`: `link` and `ids`, `mapping`, with what operators saw
  and decided as history. A tick reads at most `ListLimit` traders (2000 in the code),
  venue by venue (`listed`).
* `OrderPricing`: one order through minimum, market, book, price, checks, claim, rounding,
  post, answer and a second post after a crash, while the book moves and the market may
  close. The least size is the market's own and does not change.

## 3. Runs

Bounds are named constants of the modules. `CHECK_DEADLOCK FALSE` is set everywhere: the
systems stop when every row is settled, the bounded supply of events is used up and
nothing more is queued.

| run | question | answer |
|---|---|---|
| `orders_live` | one live process, two orders, two faults: does any fill disappear, do the books have what the venue filled, does every step keep the abstract promise, does every order reach an end | holds |
| `orders_race` | two processes on one order of two units, both live with a credential revoked or replaced under way, or one rehearsing or not posting, each variable for itself: double orders, wrong books, resurrected rows, orders of a fleet that must not send | none, per wallet |
| `orders_lost_fill` | can a fill disappear with two processes | **yes**: `skip()` overwrites `submitted` |
| `risk` | do the limits hold when fills are booked at once, and the rapid-flip guard and R1-C live | yes, R1-C but for partial fills of closed rows |
| `risk_breaker` | does the circuit breaker trip | **no**: the newest row is always `pending` |
| `signals_watch` | is every trade that the ledger covers signalled, and queued once, through refused posts, failed statements, a burst or a crash; does the outbox drain | holds, with the losses named below |
| `signals_late` | "the composite cursor removes what is missed within a second" of `raw.rs` | **no**: a later trade with a smaller hash is never fetched |
| `daemon` | do late, lost and doubled reports of two daemons leave rows, books and venue in step, and is every listed row settled | yes, but for orders whose report was given up or that slip in a known way |
| `money` | does the daily limit hold on the chain, is "mined" true, are redemptions bounded and none forgotten | yes, with the exceptions below |
| `accounts` | are invoices paid once by final transfers and paid days served; follows, watchlist and orders in step; nobody locked out; no key lost | yes, but for the races named below |
| `workers` | does hot signal what trade_watch missed; do figures add up; are visited traders whole; do curation and prices stand | yes, for undisturbed rounds |
| `hot_double` | "no race, no double count" of `hot.rs` | **no**: a trade in the second of a round counts twice |

Bounds and why they are enough:

* Orders: one or two of size one or two are enough for partial fills, fills after a
  cancel and a cancelled remainder; two signed bodies tell "the same order again" from
  "another order"; two wallets one replacement; two processes every race on a row, since
  each statement touches one row. `Reads404` is one half of the possible ids in
  `orders_live`, so both readings of an error occur.
* Risk: three and four orders reach every limit from both sides; two relations and three
  tokens separate the user's limits from a relation's; one failed read or crash.
* Signals: pages of one trade, two pages, up to four trades in two seconds, two of
  a second in either order of their ids: full and short pages, a burst beyond the last
  page, a second poll; relations are queued independently,
  so one is enough for counting.
* Daemon: two daemons (one posts, one only signs), two rows, a list of one row, one
  fault or change of the jurisdiction: late reports of one daemon meet those of the other,
  a row beyond the limit, and one that is filtered out and takes the place of another.
* Money: two requests beside the worker, the second only a withdrawal (`Tellers`), so that
  two overlap between check and row; two markets (one behind the cursor, one at it), a
  second wallet, two attempts, two events of any kind. A batch whose nonce has been used
  stays where it is: nothing reads whether the relayer calls it failed.
* Accounts: two payers, two transactions of which one may carry no transfer (`MaxDuds`),
  blocks up to 3 with 2 confirmations, an `until` of one day that one user at a time has
  (`MaxWriters`; her payments extend it, the other's subscription shows what it must not
  touch); two handlers in flight, four requests, quotas of one; two wallets, three nonces, two users; three
  provisionings, so that two overlap after a first.
* Workers: hot with two tokens, four seconds, three trades and one fault (a round,
  another, and the comparison of both); four trades and two points of time in the ledger
  (buy, sell out, buy again); pages of two of three trades; two rounds of each page
  worker; four traders on two venues, a list of three, two ticks; two candidate markets, four rulings;
  prices, sizes and books around each threshold; two executions on two days.

Every property of a passing run has a mutant in `PROJECT.json`: an operator in the
module, next to the one it replaces, that a plausible bug would turn it into.

### What the properties do not claim, and why

The passing properties carry the exceptions that the code needs; each exception is a
behaviour of the code that TLC exhibits once it is dropped, or that reading the code for
the model brought up.

Orders and gates:

* `NoLostFill` is checked for one process, and for users who keep their first wallet:
  with two processes `skip()` loses fills (`orders_lost_fill`); with a wallet replaced
  between a crash and the retry the venue may hold two orders.
* `OnlyMissingIsGivenUp` excepts ids with the digits 404: `reconcile_one` recognises
  "not found" by `msg.contains("404")` on the error's text, and the text of a transport
  error carries the url with the order's id. It also excepts orders of a former
  wallet, which the venue does not show to the new credential.
* A terminal status may be overwritten by another terminal one: when only the answer of
  `mark_copy_order_submitted` is lost, reconcile may write `filled` and the late
  `fail()` replaces it with `failed`. `TerminalStaysTerminal` claims no more.
* `EventuallySettled` is checked without revoked credentials: reclaim leaves an order
  whose credential cannot be loaded to the next round, for ever.
* The limits on what is executed (`CapsHold`) are checked in dry run. Live,
  `sum_daily_notional` and `count_active_copy_orders` see executions only, so orders in
  flight pass the gates together and add up beyond the limits.
* `CapsHold` and `NetWithinCap` leave out relations with a failed read (`unread`):
  `load_follow_limits` and R1-C pass such an order. `NetWithinCap` is checked with buys: a
  sell in flight counts in full against the cap and may be cancelled afterwards.
* `COPIER_DRY_RUN` does not keep a process from ordering. `config.rs:12` says that it does
  not call `Venue::place_order`; `main.rs:182` starts reclaim all the same, which never
  looks at it (`reclaim_worker.rs:111`) and posts a row that another process has claimed
  if `POLYMARKET_CLOB_POST` is on. `EachFleetKeepsItsBooks` claims that nothing leaves
  where no process posts, or none claims, and that the books are right where none
  rehearses.
* `NetWithinCap` allows what is filled in part on a row that is closed as `cancelled` or
  `failed`: the fill is booked, and `follow_inflight_net_for_token` (`account.rs:1258`)
  counts only rows in flight and rows that are `filled`. The next orders make up for it, so
  that the net position passes the cap that `exec.rs:484` promises by these fills.
* R1-C counts the order under the gate twice, once as `pending` and once as itself, so a
  first order at the cap is refused (`exec.rs:543`; `docs/FLOWS.md:155` speaks of
  duplicates).
* `SentIsSafe` does not claim that a market is open: `market_tradable` of the adapter
  answers `Ok(true)` on an error (`lib.rs:189`), where `exec.rs:124` wants to fail closed.
  Rounding to whole cents may exceed the slippage by less than a cent. A lost answer marks
  `failed` an order that the venue may have; a failed lookup of the contract signs for the
  wrong one, which the venue refuses. A reclaimed order is signed with the row's side and
  not the flipped one (`reclaim_worker.rs:131`), which needs a second venue to matter.

Signals:

* `NothingSkipped` and `CoveredIsSignalled` leave out `missed` and `lost`. They fill when
  `raw_trades` cannot be written while a later trade of the same poll moves the cursor
  on ("写失败即 cursor 未前进，下一轮重拉重试", `trade_watch.rs:172`, is true of the last
  trade only); when an older page cannot be fetched or `MAX_PAGES` is reached; when the
  process dies after the cursor and before the signal, or the outbox row cannot be
  written. The latter two, and a write whose answer alone is lost, leave a trade in the
  ledger that nobody signals: hot counts it as covered.
* Both also leave out trades whose ids are out of order within their second
  (`OutOfOrder`). Ids are transaction hashes: a trade that shows later in the second, with
  a smaller hash than the cursor's, is never fetched (`trade_watch.rs:140`; run
  `signals_late`), and a page of nothing but such trades ends the paging, so that an older
  one behind it, new as it is, is passed as well.
* The trades a trader makes before the first poll are the baseline and are not copied.
* `ResidualIsTheMissed` leaves out tokens that are `disturbed`: by a trade in the second
  of a round (`hot_double`), a closing (a closed token keeps its last row, so the loop
  over closed tokens, `hot.rs:221`, is unreachable) and the re-opening after it, a failed
  row or query (the window moves on although the log promises the next round), trades
  that are caught up after a downtime (signalled twice), and windows whose delta is zero.
* An order of a signal is derived again when a follow is stopped and made anew during a
  redelivery (`FollowBook.OncePerTarget`); following a trader and her identity gives two
  orders per signal.

Daemon:

* A report without an answer, which nobody repeats, may leave a row pending that the venue
  has: the next list executes it again (`PostedOncePerReport` allows one per report given
  up). Rows enqueued while a batch is worked off, beyond the list's limit, filtered out of
  the list by the jurisdiction, or a day old at a restart are passed (`NothingElseSlips`
  names them). Of the filtered ones the comment in `list_copy_orders` (`routes.rs:96`) says
  that they stay pending for the user to act upon; the daemon's `since` passes them, and only
  a restart within a day lists them again.

Money:

* `DailyLimitHolds` leaves out two kinds of rows, and no others: those that were inserted
  after another since their own check (`raced`; the sum is read before the row is there, so
  two requests pass the limit together), and those that say `failed` because an error was
  the answer to a batch that the relayer took (`unsure`; such a row does not count for the day).
* A market that is closed when it is first stored has no `resolved_at` (`raw.rs:78`): the
  redeem worker finds it while it has no cursor, and never afterwards, until the market is
  stored again. `RedemptionsAreKept` and `RedeemedInTheEnd` name it.
* `MinedIsTrue` excepts a hash in the relayer's first answer, which counts as
  confirmation, and a retry that looks at the balance of a new wallet.
* A batch that fails on the chain, or is not confirmed in 90 seconds, leaves its row
  `pending` for ever, and so does a crash between row and answer; the unique index then
  keeps the market from being redeemed again. `RedeemedInTheEnd` counts such rows as
  waiting for somebody.
* The cursor passes markets that had an error or an unclear outcome (`missed`) until the
  next restart. A retryable row beside an active one is retried each tick without end and
  without effect.

Accounts:

* `Billing`: any user may hand in any transaction hash, so that without linked wallets a
  transfer is taken by whoever's invoice is confirmed with it first (`OwnTransferOnly` speaks
  of linked ones). `POST /me/subscription` takes the free tier with any `until`, and the next
  payment extends it (`billing.rs:446`): `PaidDaysServed` counts these days apart. A confirmed transfer inside the lookback window may be claimed by any pending
  invoice of its amount, so equal amounts are first come, first served; with linked wallets
  required it is skipped instead, and another user's invoice of that amount waits behind
  it (`confirm.rs:407`; `0040_billing.sql:31`). A submitted payment whose invoice expires
  before it has its confirmations stays `submitted`.
* `FollowBook`: the upgrade of a watchlist item writes the address as it was typed, so a
  target may be followed under two spellings; slots and quotas are checked before they
  are taken; `PATCH active=true` revives a deleted follow; `PATCH config` leaves the column
  `same_venue_only` alone.
* `Sessions`: two unlinks at once remove the last wallet (`overlaps`; `routes.rs:520`
  promises one stays).
* `Provisioning`: of two provisionings that overlap, one loses its key (`Raced`); a revoke
  during a provisioning is undone by its upsert.

Trader pages and curation:

* `FiguresAreWhole` speaks of a pass that wrote all it should and of periods that have
  trades: a period without trades keeps the figures it had (`continue` in `perf.rs`).
* `BasisIsPaid` excepts tokens that were bought again after a sale: bought counts all
  segments, the average only the last. `EquityIsWhole` excepts tokens that are held after
  a sale: one sold in part has its profit realised at the close only, and one bought again
  keeps `closed_at` and is left out of the curve's open value.
* The sampled curve of one trader takes an arbitrary point of each day (`queries/perf.rs:706`
  sorts by the output column); the one for lists takes the last (`perf.rs:772`).
* `BackfilledIsWhole` excepts rows that failed to insert: the trader is marked all the
  same, also after a failed fetch of an import (`traders.rs:357`). Two trades of one
  transaction have one row.
* `IdentitiesHold`: traders beyond the limit of the tick's list wait (`identity.rs:35`); a third candidate may take a trader away from an identity, and a
  rejected identity is proposed again by the next tick; nobody is added to a verified one.
* `DecisionsStand`: verifying a retired mapping leaves it retired.
* `ViewsAgree` says that the figures of one page agree with each other, and no more. The
  page compares sides with "BUY" and "SELL" (`copier/src/routes.rs:448`, 531, 608) while the
  column admits only `buy` and `sell` (`0010_account.sql:92`): every execution is taken for a
  sale, a purchase is booked as a profit, and no position is shown, where `routes.rs:424`
  says "BUY 累加成本与数量". The model keeps the comparison as it is written.

### Fairness

`CopyOrders`: weak fairness on each of the three task loops of each process and on the
clock: the workers are endless `interval` loops started together by `main.rs`, and one
that is enabled for ever gets its turn. Nothing is assumed of the venue, the users, or of
crashes; `EventuallySettled` needs none of the venue because reconcile cancels what does
not fill. `SignalDelivery`: the two worker loops, none on follow: `OutboxDrains` holds
because attempts are bounded. `DaemonChannel`: the daemons' `poll_loop`, and the copier's
statements for a request it has received. `MoneyOut`: the redeem worker only; neither the
relayer nor the chain need ever answer, since polling ends by itself. The other modules
are checked for safety only.

## 4. Proofs

All theorems hold for any values of the constants that satisfy the named assumptions of
the modules: `OrdersAssumption`, `LimitsAssumption`, `SignalsAssumption`,
`DaemonAssumption`, `MoneyAssumption`; `BillingAssumption`, `FollowAssumption`,
`SessionAssumption`, `ProvisionAssumption` of `Accounts`; one per part of `Workers`; and
`NoneAssumption`, `NoRefAssumption`, that the null value is no value. They give the
constants their types, say that what is counted is a number and what is summed is
positive, and name what the code takes for granted: a plan lasts and costs something, at least one
confirmation is asked for (`confirm.rs:99`), a target is a trader or an identity. TLC
evaluates them in every run. `PricingAssumption` also says that the venue's levels are
sorted, the worst first, as the adapter's reader expects them, and that a price is below
twice the least notional (prices are below a dollar, the least notional is one).
Two theorems take a hypothesis beside them, stated in the theorem: `FillsTraced` has
`OneCopier`, since with two processes the property is false (run `orders_lost_fill`);
`NetStaysWithinCap` has `SourceLong`, that the source trader is seen with positive
positions, as in the run.

Induction over data does not come from the library's induction theorems, which take an
operator. Where a sum over a set is concerned it is replaced by the least counterexample
(see `SumLemmas`), and so it is where a recursive function goes along a sequence: there
the function is first shown to exist, position by position, and then followed
(`Iterates`, `UpTo`).

**`CopyOrdersProofs`**, for any number of orders, users, processes, signed bodies, wallets,
faults and any order size: `TypeCorrect`, `NeverTwoOrders` (`[]OneOrderPerWallet`),
`BooksAreRight` (`[]BooksMatchVenue`), `FilledMeansBooked` (`[]FilledIsBooked`),
`NoResurrection` (`TerminalStaysTerminal`). The inductive invariant `IInv` is
`TypeOK /\ Refs /\ Claims /\ Books`. `OneOrderPerWallet` is not inductive: it says nothing of
what the tasks are about to send. `Claims` adds that the idempotency columns are empty
while a row is pending, and that whatever is in a task's hands past the claim, on the
wire, or at the venue carries the stamp of its row. Since a stamp never changes once
written (`StampKept`), two requests for one order by one wallet are equal.
`BooksMatchVenue` needs that what reconcile has seen and is about to book is settled and
therefore still what the venue says (`SeenIsSettled`, `SettledKept`), and that a venue id
is not written twice (`IdIsLate`, `IdKept`). `FilledIsBooked` needs the order of the two
statements in each task (`ExecBooked`, `ReconBooked`). Frame lemmas list, per variable,
the actions that write it.

*The promise.* `PromiseIsKept` is `Spec => KeepsThePromise`, that is
`Spec => Promise!Spec`. The invariant is `IInv` with `IdIsOwn`: the venue id of a row is
that of an order signed for this row. A frame lemma sorts the steps by what the promise
sees of them; one lemma per kind of step (claim, mark, send, book, close, the venue's and
cancel's) shows it to be a step of the promise or a stutter. The guard of the promise's
`Book` (the size is that of a settled order sent for this row) comes from `SeenIsSettled`
and from `BooksMatchVenue` after the step; that of `End` from `FilledIsBooked` after it.

*The trace of a fill.* `FillsTraced` (`[]FillsAreTraced`, one copier process) and
`FleetBooks` (`[]EachFleetKeepsItsBooks`). `FillsAreTraced` says of a fill without a booking
where it still is; nothing in it says how it got there. `TraceInv` does, for any number of
processes: what is at the venue was signed for the row's stamp by this or an earlier
wallet (`SignedEarlier`), what the venue has of a row is known to the row or in the hands
of the task that posted it (`Known`), a fleet in which nobody posts, or nobody claims,
has nothing on the wire (`Silent`: with `COPIER_DRY_RUN` everywhere no row is ever claimed,
so reclaim has nothing to send), reconcile closes a row only on what the venue cannot change any more
(`ClosingIsSure`), and a closed row was traced when it was closed (`ClosedIsTraced`).
`AloneInv` adds what only one process gives: the row that exec has under its checks is
still pending (`ListedIsPending`), so that a skipped row was never signed
(`SkippedIsUnsigned`). With two, `skip()` writes over the other's `submitted`.

**`SumLemmas`**: sums over finite sets. `SumFunctionOnSet` is a fold over an arbitrary order
of the set, so that even `Sum(S \cup {x}) = Sum(S) + f[x]` is not immediate. It is proved
from the definition of the fold by induction in first-order form: a set of numbers that
is not empty has a least element (`LeastNumber`, from `WFMin` of the library), applied to the sizes of
sets on which the statement fails. The lemmas the other modules cite are `SumEmpty`, `SumAdd`,
`SumRemove`, `SumSame`, `SumSubset`, `SumMonotone`, `SumUnion`, `SumPart` and `SumZero`;
`SumPlus`, the sum of two functions, and `SumGroups`, that the sums of the groups add up to
the sum of all. By the same induction: what holds at 0 and from each number to the next
holds on a range (`UpTo`), a recursive function on a range exists and has the type of its
step (`Iterates`), a finite set of numbers has a greatest (`HasGreatest`) and an ascending
enumeration (`HasRising`), which names each (`RisingNames`) and ends at the greatest
(`RisingEnds`).

**`RiskGateProofs`**, for any settings, orders, relations and faults: `GateTypes`
(`[]TypeOK`), `FlipGuardHolds` (`[]RapidFlipHolds`), `RehearsalsHoldCaps`
(`[](DryRun => CapsHold)`) and `NetStaysWithinCap` (`[]NetWithinCap`, with `SourceLong`). Each
gate reads a statistic long before the claim, and other gates, workers and the clock lie
in between; each invariant carries what the gate has seen to the claim.

* `FlipInv`: the orders of the window that are sent, with the one that has passed the
  guard, are within the limit. One worker claims; what others queue or settle only leaves
  that set, and the window only slides forward. (Two copier processes would both act on
  one count; the model has one.)
* `BookInv` is `FlipInv` with the types that sums need: orders are of the offers
  (`OffersOK`), fills no larger than their orders (`FillsOK`), and `SourceOK`, `TimesOK`,
  `FreeOK` for the snapshot, the day and the bounds.
* `CapInv`, when rehearsing: nothing is at the venue (`Rehearsed`), and the day's notional
  and the open positions of the user (`UserRoom`) and of each relation (`FollowRoom`), with
  the order in hand once it has passed the gate, fit the limit in force. A step changes one
  execution, so `SumAdd` and `SumRemove` give what each sum becomes.
* `NetInv`: the largest position seen stands (`PeakOK`), what is filled is booked
  (`DoneOK`), and what is spent of a token by a relation is within its budget (`Spending`).
  Each row has a share (`Share`: its fill when it is `filled`, its size while it may still
  fill, nothing when it was closed otherwise), and the gate compares their sum, with the
  order under it once more, with the ratio of the position. What was bought is the sum of
  the shares and of the fills on rows that have none (`Overlooked`), and the property
  allows just these on top of the ratio.

**`SignalDeliveryProofs`**, for any feed, ids, pages, relations and faults: `SignalTypes`
(`[]TypeOK`), `OneOrderPerSignal` (`[]SignalledOnce`), `CursorSkipsNothing`
(`[]NothingSkipped`) and `LedgerIsSignalled` (`[]CoveredIsSignalled`). `OnceInv` says what
each worker holds: watch's trades are in the ledger before they are posted, replay's row is
in the outbox. `OrderInv` follows the paging. Seconds grow along the feed (`FeedOK`), and a
trade that is in order within its second is newer than all before it and older than all
after it, although others may be out of order among themselves (lemma `InOrder`); so the
invariants speak of one trade at a time, in order or excepted. While pages are fetched,
what is new on them is fetched, or came in meanwhile and is newer than all that was fetched
(`PagesOK`); a page that ends the paging by itself leaves nothing older that is new; so when
the poll writes, every new trade is taken up, named as missed, or newer than all fetched
(`FetchOK`), and the cursor passes only the former.

**`DaemonChannelProofs`**: `DaemonTypes`, `BooksStayRight` (`[]BooksMatchRows`),
`OnePostPerReport` (`[]PostedOncePerReport`), `OnlyKnownSlips` (`[]NothingElseSlips`), for
any number of daemons, rows, list limits and faults. `DInv` adds to them: rows a daemon
has in hand were listed (`Placed`); reports name orders that were posted (`ReportsTrue`);
a request that has claimed its row is the only one and has not booked it (`ClaimsHold`); an
order was posted without its report being given up only if its row is settled or its
report in hand (`Attempts`); what lies behind a cursor was listed or slipped, be it by the
jurisdiction, whichever rows it bars and however it changes (`ListKept`).

**`MoneyOutProofs`**, for any number of requests at a time, wallets, markets, attempts and
faults: `MoneyTypes` (`[]TypeOK`), `MinedTrue` (`[]MinedIsTrue`) and `RedemptionsKept`
(`[]RedemptionsAreKept`) and `DailyLimitKept` (`[]DailyLimitHolds`). The inductive invariant `MoneyInv` has two halves, proved handler
by handler. `TrueInv` follows a hash from the relayer to the row: a task that polls has its
own batch (`TasksOK`), a batch is of a row that is there (`RelayOK`), and a row is of the
present wallet or of the first one (`RowsOK`), so that what a retry finds empty is either
the wallet of the row or a wallet left behind. `KeptInv` counts: `HoldersOK` says that one
task at most works on a redemption and that its batches are counted in `attempts`, or are
the attempt under way; a row that is tried again has used up its batches (`AttemptsOK`).
This is why the count need not be written before the batch is sent, and why a crash in
between only leaves a pending row that nobody sends again. `ScanOK` says that what is left of
a scan is the newest part of its interval and that the worker's retries were failed and still
are, and that markets without a `resolved_at` are in it only while there is no cursor;
`ReachedOK` is `NothingElseIsLeft` for all the scan has reached, with the one market the
worker holds in hand. The proof needs no fairness and no bound on the faults. `LimitInv` is
about the day, for any number of requests at once: what the checks count, rows that were
overtaken apart, is at most `DailyMax`; a request that has passed the check still fits in
what is left, unless another has inserted its row since and so marked it as overtaken; a
row that was handed to the relayer does not say `failed` unless it is `unsure`
(`HandedOK`). With what `TrueInv` knows of the batches, whatever the chain paid out today
is counted or named. Steps that touch no withdrawal leave all of it as it was (`SlipsStay`).

**`AccountsProofs`**, for any number of users, wallets, keys, follows, invoices, transfers,
blocks and faults: `AccountTypes` (`[]TypeOK`), `CreditsServed` (`[]PaidIsServed`),
`FollowsAreKept` (`[]FollowsKept`), `AlwaysAWayIn` (`[]WaysIn`) and `KeysAreKept`
(`[]CredentialsKept`), all from `AccountsAreKept`. `AccountsInv` has one inductive invariant
per part, and a lemma per part says that a step of another part leaves it.

* `CredentialInv`: a key is shown when its request is done, and only then has it replaced
  another (`ShownAreDone`); what a request has archived is in the archives, and a
  credential it found revoked, without asking the user, stays revoked until it is done
  (`ArchivedStays`).
* `SessionInv`: a nonce that is not used was never accepted (`UsedOnce`); a request to
  unlink that is the only one of its user leaves her a wallet, since it has counted more
  than one (`OneIsLeft`).
* `BookInv`: the rows and what a handler has read of them (`BookRows`, `BookCalls`), one
  active follow per target, one follow per watched item, and of a signal under way
  (`Delivery`): its relations stay follows of the target, active unless the user stopped one,
  each has one order at most, and those that are owed one are still to be done or have it.
* `BillInv`: a confirmed payment is the only one of its paid invoice, and its transfer is
  final, of the right amount, the user's own where that is asked for, and pays nothing else
  (`Credits`); what the worker has matched and not yet claimed is final already (`Claims`);
  what is ahead of a subscription is exactly the days paid and those of an `until` the user
  wrote, and paid days go with the paid tier (`Paying`).

**`WorkersProofs`**, for any number of tokens, trades, rounds, pages, people, markets, books
and faults: `WorkerTypes` (`[]TypeOK`), `ResidualIsMissed` (`[]ResidualIsTheMissed`),
`VisitsAreWhole` (`[]BackfilledIsWhole`), `RowsStayTrue` (`[]RowsAreTrue`), `CuratedStands`
(`[]CuratedHolds`), `SentStaysSafe` (`[]SentIsSafe`) and `LedgerKept` (`[]LedgerAddsUp`). All
are from `WorkersAreKept`; `WorkersInv` has one invariant per part.

* `HotInv`: a trade of a past second is in the ledger or missed (`HotPast`); the rows of a
  token whose rounds were undisturbed are its size at their time, and no round leaves it
  out (`HotRows`); the seconds compared are those between the first round and the last but
  one, each once (`HotWindows`); and the residual is the sum of the missed trades of these
  seconds (`HotSums`). `HotFetched` and `HotStamps` say what a round under way holds. The
  step that compares two rounds is where they meet: size at the end, less size at the
  beginning, less the ledger in between, is what was missed in between, by `SumUnion` over
  the seconds.
* `FillInv`: what a job has fetched and not yet inserted is still in its list, so a mark is
  written over a whole page or over failed inserts.
* `PageInv`: whatever figure a pass owes is either the last write it still has to do for
  that page, or stored as the worker's (`AllCome`), so that the order of the plan and the
  writers in between do not matter; a period that the boards served keeps its official row (`Boards`).
* `IdInv`: a member of an identity that the operator has looked at was on her screen
  (`KnownAs`); of each candidate pair among the traders it has read, an undisturbed
  tick still has it before it, or both are linked (`Pairing`).
* `MapInv`: the row of a mapping says what the operators ruled (`SaysSo`), and what is copied
  across venues goes by a mapping that is verified (`CopiedBy`).
* `PriInv`: a kept price came from a book that was shown and passed the checks (`Priced`,
  `Gated`), and what is posted, the second time after a crash as well, is the kept price
  and size, of which the venue takes one (`PriClaims`, `PriPosts`).
* `LedInv`: of each token, the position agrees with the notes (`Agrees`). `HeldAs`: what it
  holds. `PaidAs`: realised profit less the cost of what is held is the cash that came in
  plus what the averages lost, and, until the token is resumed, size bought times average
  is what was paid; a token never sold has realised nothing. `TimedAs`: opening, segment
  and close follow the first trade, and the segments held fit before the last close. The
  first two are per token what `MoneyAddsUp` and `BasisIsPaid` say of sums; a buy
  preserves them because quotient and remainder make up the money paid (`BuyIs`).
  The figures are functions of the book. The greatest drawdown is followed along the
  results with what it has come to (`RunAt`: worth, peak, and a drawdown no shallower than any
  so far). Thinned-out curves go forward because quotients by a day follow the times
  (`QuotientsFollow`) and enumerations ascend; they keep their end because the last day is
  the day of the last point (`LastOfDayIs`).
* `PorInv`: executions have their types and days. That a page's curve ends at its total and
  the follows add up to it needs of the lots only that what is rebuilt are closings of
  follows (`RebuiltIs`, over `ConsumeIs`); the rest is `SumGroups`.

**Model-checked only**, and why.

* Liveness: `EventuallySettled`, `OutboxDrains`, `ListedIsSettled`, `RedeemedInTheEnd`.
  Fairness and `ENABLED` are out of the prover's reach.
* `NoLostFill`, `SameSecondSeen`, `BreakerTrips` and `NoDoubleCount`, the properties of the
  runs that expect a violation, are false.

## 5. Abstractions

* Batch limits of workers (50, 100) are left out: a batch is all rows that qualify. Order
  within a batch is free in `CopyOrders`, and that of the queue in `RiskGate`. The limits
  that matter are kept: `Limit` of the daemon's list, `PageSize` and `MaxPages`, `Page`,
  `ListLimit` of the identity worker.
* The gates are one nondeterministic refusal in `CopyOrders`; what they compute is in
  `RiskGate`, prices in `OrderPricing`.
* An order ages in `dispatched` only when no live exec task holds it: the timeout is
  600 s and a venue call is cut off after 15 s.
* The sweep of submitted rows without a venue id and the branch "idempotency fields
  missing" are unreachable in the model: the claim and the mark write those columns
  together with the status. `OrderStatus::Rejected` is never produced by the Polymarket
  adapter.
* `SignalDelivery` has one trader and one venue-hub process; the venue shows trades at
  once and in the order of their seconds; a poll with nothing new is not a step; a batch
  of the replay is its rows one by one. With an empty `follow_url` signals are dropped
  silently; the model takes it as configured.
* `MoneyOut` has one user; a market's winner pays 1; the backoff of a retry is that a later
  tick lists it.
* Read together, as one step: relations and verification in follow's ingest; receipt and
  head in billing; the network calls of a provisioning.
* A figure of a trader's page is the set of trades it is computed from; two periods stand
  for six. Hiding a trader only keeps passes from starting.
* Sizes are units, prices are 1, floating point is left out, except in `OrderPricing`,
  `PositionLedger` and `Portfolio`, which count in whole units and lots.
* Side flips of cross-venue mappings are decided in `MarketMappings` and not priced:
  Polymarket is the only registered venue.

## 6. Not modelled

| part | why |
|---|---|
| gateway | proxying is I/O; its rate limits are a library's token buckets |
| key handling, `clob-auth`, `kms` | hashes, signatures and encryption without state |
| shadow worker | compares stored figures with a perturbation of themselves (`shadow.rs:49`) and writes a log nobody reads back |
| `botfilter`, style tags | thresholds over statistics; their outcome, a tag, is any value in `FollowBook` |
| unit conversion between venues | only a second execution venue would call it |
| admin: rules, hot wallets, categories, OIDC login | single-statement edits, and a library's protocol |
| portfolio: latency statistics, listings of rows | no state, no rule to check |
| web, tg-bot, static pages | clients without state of their own |

What could be added: the token buckets of the gateway; several traders in
`SignalDelivery`; a second execution venue, once it is registered, with conversion and
flipped sides in `OrderPricing`.
