# Verification of the payment engine

TLA+ modules, TLC runs and TLAPS proofs about the payment engine in `src/`: a
Go service that collects a crypto deposit for a session opened by a tenant and
pays the fiat equivalent to a bank account. PostgreSQL holds all state. Money
moves because of what concurrent goroutines read and write there: HTTP
handlers, provider webhooks, ops requests and a dozen ticker jobs, connected by
a transactional outbox. Most functions make several short transactions, and
provider calls lie between them. The project models those interleavings.

Contents: [inventory](#inventory), [how the modules correspond to the
code](#modules), [the runs](#runs), [fairness](#fairness),
[findings](#findings), [proofs](#proofs), [what is not
modelled](#what-is-not-modelled), [plan](#plan).

## Inventory

What runs: `cmd/server/main.go` serves HTTP and starts the event dispatcher and
its cleanup, the audit writer and its retention, rate-limit eviction, the rate
fetcher, the current-rate refresh, the session TTL job, the settlement dispatch
worker, the payout confirmation-timeout job, the sandbox confirm job (in sandbox
mode), the notification worker and the ledger reconciliation job. Neither
`treasury.Watcher.Run` nor `Sweeper.RunBatchSweep` is started by it, and
nothing outside tests constructs a `Watcher` or a `Sweeper`; where a module
needs the watcher it is the code as written, run as its own comment says it
would be.

| component | state it keeps | operations | hard behaviour | what makes it correct |
|---|---|---|---|---|
| **session** (`internal/session`) | `sessions`: status, case, reservation, rate lock, SLA flag | CreateSession (insert, screen, reserve, move), ResolveComplianceHold, transitions asked for by treasury and settlement, three TTL sweeps | a request is several transactions; the TTL job, admins and events compare-and-set the same row | statuses follow one machine; a confirmed deposit is never dropped; a session ends or is flagged |
| **compliance** (`internal/compliance`) | `compliance_cases`, tenant cases, jurisdictions | ScreenSession, travel-rule volume, ResolveHold, KYB, jurisdiction gates | the volume is summed while other sessions are created; two admins decide one case | no session collects unapproved; cleared volume stays below the threshold |
| **settlement** (`internal/settlement`) | `settlements`, `settlement_attempts`, `settlement_reversals` | queueing, dispatch worker, failover, in-request backoff, provider callbacks, manual payout by Telegram, RetryPayout, ResolveReversal, confirmation timeout | four kinds of goroutine on one row with no lock across their calls; provider answers lost, late, repeated | one payout per session in flight or paid; the liability matches the status; somebody is told of what does not resolve |
| **ledger** (`internal/ledger`) | `ledger_transactions`, `ledger_entries`, `ledger_balances`, `ledger_discrepancies` | Post, reconciliation sweep, discrepancy queue | locks taken in the order of the entries; the idempotency key is the claim of a payout | a key is posted once; caches equal sums; books balance per asset |
| **eventbus** (`internal/platform/eventbus`) | `event_outbox` | Publish in the caller's transaction, dispatch in batches, cleanup | `created_at` is the start of a transaction; handlers share the dispatcher's transaction | each committed event takes effect once and in the end |
| **notification** (`internal/notification`) | `notification_deliveries`, endpoints | event handlers, dispatch worker with backoff, dead-letter queue, RetryDelivery | a crash between the send and its record; ops restart a ladder | delivered means received; given up only after the schedule |
| **treasury** (`internal/treasury`) | reservations, derived addresses, deposits, sweeps | address reservation with provider failover, HD derivation, deposit webhook and watcher, release, sweeps | webhook and watcher record the same transfer; allocation races; a crash between a broadcast and its record | an address serves one open session and one tenant; a deposit is recorded and funds one session; swept once |
| **corridor** (`internal/corridor`) | assets, networks, corridors, prioritised bindings | create, patch, rebind, delete, each under a row lock or one statement | admins and sessions being created edit and read the same rows | a corridor with payments keeps its asset and network; its active bindings are one admin's set |
| **rate**, **ratefetcher** (`internal/rate`, `cmd/ratefetcher`) | cached quotes, the current rate of a currency, locks | fetch, select, lock | three loops with nothing but timestamps between them | a session is priced with a recent quote |
| **tenant** (`internal/tenant`, `internal/compliance`) | tenants, API keys, magic links, portal sessions, KYB cases, corridor entitlements | register, log in, submit KYB, review, issue, revoke, delete, restore, switch corridors | a status read before the statement that relies on it; two requests of one tenant, or two admins | single use of a link; a revoked credential is not honoured; what is open was approved |
| **adminauth**, **gateway** (`internal/platform`) | admins, OIDC identities, admin sessions | log in, bind, authenticate | binding by two logins at once | a disabled admin is not served |
| **kyc** | verifications | one vendor call, one insert, name matching | none of interleaving | the match rule |
| **idempotency**, **ratelimit**, **audit** (`internal/platform`) | stored responses; windows; audit rows | replay, count, append | two requests under one key; the window's boundary; a full buffer | one execution per key; at most the limit per window |
| **config, db, crypto, webhookurl**, **cmd/** | none shared | start-up, encoding, HTTP | none | none to state |

How they interact. `session` calls `compliance` and `treasury` directly.
`treasury` publishes `deposit.detected` and `deposit.confirmed`, which
`session` consumes; `session` publishes `session.deposit_confirmed`, which
queues a settlement row; `settlement` calls back into `session` to move its
status, into `ledger` to claim and reverse money, and into `treasury` to release
the address; `notification` consumes the events of all of them. Every event goes
through the outbox, in the transaction of the change it tells of.

## Modules

One action is one database transaction or one provider call, the unit at which
goroutines interleave. A Go function that makes several is a chain of actions of
the goroutine that runs it; a `pc` names the next one and a record holds what
the function has read so far, so that stale copies are stale in the model too. A
crash, an error or a cancelled request is the action that abandons such a chain
halfway (`Interrupted`), bounded by `MaxFaults`. `Notification` has names of its
own (`delivery`, `step`, `MaxCuts`, `DeliverySpec`), so that one module can extend it
beside `Outbox`, as `SessionQuote` extends `Rate`.

| module | models | state | proofs |
|---|---|---|---|
| `Settlement` | `internal/settlement`: `dispatch.go`, `webhook.go`, `ops.go`, `manual.go`, `timeout_job.go`, `sandbox_provider.go`, `events.go`; the ledger keys it posts and the session's status column it moves | one settlement: row, attempts, ledger by idempotency key, session status, reservation, reversal case, what became of each attempt at the provider, the ops chat (alerts delivered, paid by hand, overtaken by a retry), goroutines | `SettlementProofs` |
| `SessionLifecycle` | the promise of `session.Status`: what a session may do whoever drives it | status and four facts it waits for | |
| `Session` | `internal/session`, the compliance case, deposit recording (`treasury/webhook.go`, `watcher.go`), the outbox between them | one session, its case, addresses, deposits by transfer, undispatched events with `created_at`, deadlines that passed | `SessionProofs` |
| `AddressPool` | `internal/treasury`: `hdwallet.go`, `ReserveAddress` and `persistReservation` (`treasury.go`), `tenant_wallet.go`, `pollOnce` (`watcher.go`), the deposit record | several sessions' reservations and requests, tenants' accounts, indices and wallets, derived addresses, transfers on chain, deposits, the watcher's list | `AddressPoolProofs` |
| `OutboxPromise` | the promise of the event bus: each committed event takes effect once | events published, effects | |
| `Outbox` | `platform/eventbus`: publishers, dispatchers, cleanup | rows of `event_outbox`, claims (row locks), batches | `DeliveryProofs` |
| `Notification` | `internal/notification`: handlers, worker, dead letters, retry | one aggregate's deliveries, endpoint, worker | `DeliveryProofs` |
| `Ledger` | `internal/ledger`: Post at the grain of its locks, reconciliation, discrepancies | committed transactions, balances, locks held, sweep | `LedgerProofs` |
| `TravelRule` | `compliance.go`: the travel-rule volume over concurrent sessions | statuses, window, results of the check | |
| `Rate` | `internal/rate` (`providers.go`, `fetchjob.go`, `currentrate.go`, `rate.go`), `cmd/ratefetcher`, for one currency | quotes and the current rate with their ages, the job's ticker, lost runs, whether a corridor is active | |
| `SessionQuote` | sessions created while the rate moves: `TravelRule` and `Rate` composed | both | `SessionQuoteProofs` |
| `Tenant` | `internal/tenant`, the KYB half of `internal/compliance`, their portal and admin handlers | one tenant: status, links, portal sessions, keys, cases, entitlements, requests | `TenantProofs` |
| `Catalog` | `internal/corridor` and its admin handlers | corridors, bindings, catalog entries, admins' requests with the locks they hold, sessions being created | `CatalogProofs` |
| `MC...` | instances of each for TLC | | |

Correspondence in `AddressPool`: `NextBinding`, `Offered` and `NoProviderLeft`
are the failover loop of `ReserveAddress`; `FindFreeDerivedAddress` to
`InsertDerivedAddress` the statements of `allocateOrReuseAddress`, each
autocommitted; `PersistReservation` the insert under the partial unique index;
`ListOpenReservations`, `ListIncomingTransactions` and `RecordDeposit` the
watcher's `pollOnce`, which reads the chain between two statements. An address
derived from the seed is its path, so equal paths are equal addresses, also on
Ethereum and BSC, whose coin type is the same.

Correspondence in `Tenant`: one action per statement, `arg[h]` the row that
request `h` works on. `VerifyMagicLink`, `ConsumeMagicLink`, `OpenSession` are
the three statements of a login; `SubmitKYB`, `ScreenTenant`, `ApproveKYB` the
chain of a submission, whose verdict is the provider's: the sandbox approves at
once, Youverify, or none, leaves a hold for `ResolveHold`. `DeleteAccount` is one
transaction. A tenant's own switch reads the entitlement's jurisdiction
(`CheckCorridorJurisdiction`) before it writes, an admin's grant likewise.

Correspondence in `Catalog`: `FOR UPDATE` on a corridor is `HoldsLock`, which
other edits of it and, by the foreign key, inserts of sessions wait for
(`LockedByOther`); `UpdateCorridor`, `CheckPatch`, `WriteCorridor` are the
read-modify-write, `ReplaceProviderBindings` to `CommitBindings` the two
statements under the lock, `DeleteCorridor` to `DropCorridor` the check of the
payment history and the delete. `GetCorridor` is a plain read, so a session may be
created from a stale copy. `Abort` rolls any of it back.

Correspondence in `Rate`: ages count ticks instead of comparing timestamps.
`Fetch` is an upsert by `ratefetcher` or `FetchJob`, `RunOnce` a tick of
`CurrentRateJob`, which computes, or is lost, `Outage` the server down,
`LockRate` the read of the current rate, which looks at no age.

How they compose. `Session` and `Settlement` both implement `SessionLifecycle`
(property `KeepsLifecycle`): `Session` in full, with settlement reduced to the
transitions it asks for, and `Settlement` from the hand-over at
`deposit_confirmed` on (`SpecFromHandOver`), with the ledger's `Post` and the
outbox reduced to one atomic step each. `Ledger` and `Outbox` justify those two
steps: `KeyPostedOnce` and `DuplicateMeansPosted` say what a claim of a key
gives its caller, `HandledExactlyOnce` (`Outbox` implements `OutboxPromise`)
says that a handler's transaction takes effect once. `AddressPool` is what
`Session` takes as one step when it reserves an address, and shows what one
session cannot: sessions that share tenants and addresses. `SessionQuote` puts the creation of
several sessions, each priced when it becomes pending, beside the loops that
move the rate: a session is created while its corridor is active, and a hold that
is approved is priced with what the rate is then.

Correspondence in `Settlement`, the largest module. `ClaimNextPendingDispatch`
is the worker's claim; `LoadSession` to `TransitionToSettling` is
`processDispatch`; `ChooseProvider`, `ClaimPayout`, `InsertAttempt`,
`BumpAttemptCount`, `CallProvider`, `ClearPendingDestination`, `RecordDispatch`
are the statements of `dispatchAttempt` in order; `MarkFailed`, `Reload`,
`ReverseAttempt`, `WakeFromBackoff` are `handleAttemptFailure`, run by the
worker and by webhook requests alike; `FailSettlement`, `ParkForManualPayout`,
`GiveUp` and the transitions after them are the three ways of giving up;
`HandleSettlementWebhook` routes a callback on the attempt's status as read
before any lock; `MarkSucceeded`/`Settle`, `ReturnPayout`/`PostReturn` and
`FlagDeclined`/`PageForDeclined` are its outcomes; `StartManualSettle` to
`ClaimManualPayout` the Telegram button, `HumanPays` the transfer it reports; `StartRetry` to `RetryToSettling`
`RetryPayout`; `StartResolveReversal` to `TransitionToReversalResolved`
`ResolveReversal`; `PageTimedOutConfirmation` the timeout job;
`ConfirmSandboxDispatch` the sandbox job. The environment pays, rejects or
returns what is in flight, and may do so before, after or without telling.

A payment by hand is the environment's too, and no part of the button. The alert
goes out before the row is parked (`FailSettlement`); it may arrive although its
answer is lost, and then the row becomes settlement_failed with the alert in the
chat. From its delivery on a human may pay what it asks for (`HumanPays`), before
or after the button is pressed, without pressing it, or after a retry has requeued
the settlement; and the button may be pressed with nothing paid. `ManualSettle`
checks the row only. Of humans the model assumes one thing: an alert is paid at
most once.

What is abstracted, everywhere: names, references and payloads are model values
or flags; rates and fees are one integer rate; HTTP, encryption, logging and
formatting are left out. Settlements of different sessions share only ledger
accounts and the worker's turn, so one is enough; the same holds of sessions
(except in the travel rule, which has a module of its own for that reason) and
of notification aggregates.

Operators whose names end in an underscore and a word (`Claimable_Unlocked`,
`Revoked_OnlyByStatus`, ...) are deliberately wrong variants of the definition
after them. Nothing uses them; `PROJECT.json` lists, for every property of every
passing run, the variant that breaks it, which is how we know that the property
depends on what the code does.

## Runs

All runs use the modules' own definitions: a configuration only gives constants
their values. Deadlock checking is off throughout, because each instance may
come to rest: the payout is made, the transfers have arrived, every bounded
counter is used up.

| run | question | properties |
|---|---|---|
| `settlement_race` | Can racing handlers, interrupted anywhere once, pay twice, reverse live money or overdraw the liability, when ops do not confirm failures by hand? Can a payment by hand come beside another payment in any way but by a retry that overtakes its alert? | `NoDoublePayout`, `ReversedClaimIsDead`, `PayableNeverOverdrawn`, `ReversalsAreOfFailures`, `KeepsLifecycle`, `ResolvedAttemptsStay`, `TypeOK` |
| `settlement_live` | Without crashes, do books, row, session and attempts agree whenever nobody is working, do corrections reach the next attempt, and is somebody told of every payout that does not resolve? | `LiabilityMatchesStatus`, `SucceededAttemptSettles`, `StatusesAgree`, `PaysLatestDestination`, `PayoutResolvesOrPages` |
| `settlement_double_payout` | finding 1 | `NoDoublePayout` violated |
| `session_race` | Do the creating request, two admins, the TTL job, two deposit writers and the dispatcher keep one session on its lifecycle, with one address, and carry its deposit to a settlement? | `KeepsLifecycle`, `OneAddress`, `ConfirmedDepositCarried`, `DepositReachesSettlement`, `EndsOrBreaches`, `HoldsEnd` |
| `address_pool` | Do requests that race for accounts, indices, free addresses and a tenant's wallet ever share an address, or cross tenants, and does the watcher record what arrives while addresses are released and reused? | `OneOpenSessionPerAddress`, `AddressStaysWithTenant`, `FinalTransferRecorded` |
| `address_reuse` | finding 2 | `OneDepositOneSession` violated |
| `outbox_race` | Do two dispatchers, a rollback, a handler that always fails and late-committing publishers handle each event once, and, unless a failing one is ahead of it, in the end? | `HandledExactlyOnce`, `PublishedIsHandled` |
| `notification_ladder` | Does each delivery end, received or after the whole schedule, with crashes around the send and ops retries? | `EndsAreEarned`, `PendingResolves` |
| `ledger_posts` | Do concurrent posts that lock the same rows in opposite orders, deadlocks, failures, a repeated key, outside changes and the sweep keep caches, keys and discrepancies right? | `CacheIsSumOfEntries`, `KeyPostedOnce`, `OnlyOutsideDriftIsFlagged`, `DuplicateMeansPosted`, `EveryPostReturns`, `DriftIsFlagged` |
| `tenant_life` | Through logins, KYB, deletion and restoration, with two requests at a time and one cut short: does a link open one session, does a deletion revoke for good, and is every activation and every open corridor owed to an approved case, a restored account's to one approved since, with an admin's block kept? | `LinkOpensOneSession`, `DeletionRevokesForGood`, `ActivationsAreApproved`, `EntitlementsCovered`, `AdminBlockHolds` |
| `catalog_edits` | Do two admins who edit, rebind and delete corridors under sessions being created ever move or delete a used corridor, or mix their bindings? | `BindingsAreOneEdit`, `UsedCorridorStays` |
| `session_quotes` | Can a tenant move the threshold's volume past the check by splitting or overlapping sessions, and can a session be priced with an old quote while the rate job runs? | `ClearedVolumeBelowThreshold`, `LockedQuoteIsRecent` |

Bounds, and why they are enough:

- `settlement_race`: the worker and two request goroutines, so that a webhook,
  an ops request and the worker overlap; one interruption anywhere; one retry;
  four attempts, which lets a failover ladder of two be followed by a retry's
  ladder, and an alert on each; one deposit. Both request goroutines are interchangeable, hence the
  symmetry. A third request goroutine adds no statement that two cannot put
  between any two of the worker's.
- `settlement_live`: one request goroutine beside the worker, two providers
  (one of them the sandbox, which answers at once), bindings that ops edit
  between attempts (none, one, two), a correction, a second deposit, no
  interruption: these properties are not promised under a crash (see the
  further disagreements).
- `session_race`: two admins and two writers, so that the same hold is decided
  twice and the same transfer is recorded by webhook and watcher at once; one
  transfer, two event timestamps, one interruption. The depositor's second
  transfer would be dropped by the session whatever happens (see below).
- `address_pool`: three sessions, two of one tenant, so that both find the same
  address or allocate the tenant's first account at once, and one of another
  tenant that could be given a released address; one wallet, registered at any
  time; one transfer, on time or late; one failure of a statement, request or
  poll. `MaxFaults` is the only bound: accounts and indices grow with the
  sessions.
- `outbox_race`: two dispatchers and three events with a batch of two, the least
  with which an event older than a dispatched one can appear behind a batch;
  one of the events' handlers always fails, and one fault.
- `notification_ladder`: a schedule of three in place of five steps (the code
  uses only its length), two events, one retry, one crash.
- `ledger_posts`: two callers, because a deadlock needs two; three transactions,
  of which two lock the same balances in opposite orders and one balances only
  across assets; one drift, one resolution, one fault.
- `tenant_life`: two handlers, because every race here is between a read and a
  write of one request and a write of another; two links, one for a login before
  and one after a deletion; one key, one corridor and three forms, of which one
  declares its currency without what the jurisdiction requires; a server with the
  sandbox or with Youverify; two cases, so that a restored account needs its
  second; one deletion, one request cut short.
- `catalog_edits`: two admins, two sessions, two corridor ids over one asset on
  two networks, so that a corridor can be moved onto another's pair; three
  registered providers and one that is not; four edits.
- `session_quotes`: three sessions with amounts 2, 2 and 1 and a threshold of 5,
  so that only all three reach it; one provider, fed by `ratefetcher`, quoting
  below the ceiling; a quote stale after one tick and a job at every tick, ages
  counted to three, one beyond what the property allows.

`TypeOK` documents the variables of each module and is checked in
`settlement_race`, where the proofs build on it; the other modules' types are
parts of the invariants that their proofs use. `Settlement` is run with its main
question split in two (interruptions or liveness) because the product of both is
out of reach; every action fires in one of them.

## Fairness

Only what the scheduler and the tickers guarantee is assumed.

- Goroutines that have started continue (weak fairness of each goroutine's next
  call), tickers keep ticking (the worker, the timeout job, the TTL sweep, the
  dispatchers, the reconciliation sweep), and deadlines pass. `AddressPool`
  assumes it of `Poll`, the watcher's loop, alone: the property is about the
  watcher as `watcher.go:120` says it is to be run, which `main.go` does not do
  yet.
- `Tenant`, `Catalog` and `SessionQuote` state safety only: nothing there
  happens but at the request of a tenant, an admin or a provider.
- Strong fairness stands in three places, each for a queue that the code serves
  in order. `Notification.ClaimDelivery(k)`: rows are claimed by
  `next_attempt_at`, so a row that keeps becoming due is reached.
  `Ledger.PostStep(c)`: a lock waited for in PostgreSQL's queue is granted.
  `Session.RecordConfirmed(t)`: a final transfer is reported until it is
  recorded, by the watcher's polling and the custodian's redelivery, and finds a
  free connection again and again.
- Nothing is assumed of providers, depositors, admins or ops: they may do
  nothing, ever. `PayoutResolvesOrPages` holds of a provider that never calls
  back, because the timeout job pages; `HoldsEnd` of admins that never look,
  because the TTL job expires the hold.

## Findings

Two places where the code does something a line of the repository says it does
not. Each has a run in which TLC finds the behaviour.

1. **Two payouts in flight** (`settlement_double_payout`).
   `handleAttemptFailure` sleeps for `RetryBackoff` (`dispatch.go:444`) outside
   any lock and then dispatches again from the copy of the row it had before,
   without looking whether the settlement is still settling. An ops retry
   accepted during the sleep requeues the row, and the worker's attempt and the
   sleeper's are both sent. `hyparrow.go:86` says a new attempt starts only once
   the previous one is known not to be in flight.
2. **One deposit funds two sessions** (`address_reuse`). `pollOnce` records
   everything an address ever received for the reservation that is open on it
   now (`watcher.go:167`), and a deposit is unique per reservation and transfer
   only. The unique index keeps two sessions from holding an address at once,
   not one after the other: on a reused address the previous session's transfer
   is confirmed again, and `GetConfirmedDepositTotal` pays it out again.
   `docs/ARCHITECTURE.md:49` and `migrations/000011` name that outcome as the one
   the index is there to prevent. For the same reason a transfer that arrives
   after the release is the next session's.

Further disagreements met while modelling. They have no run of their own; most
follow from a guard that can be read, and some restrict a property above, which
then says so in its comment.

Of payouts and events:

- A payment by hand and a retry can both pay. `ops.go:53` calls an automatic retry of a
  settlement that awaits a manual payout safe, because nothing is in flight: but a human who
  has the alert may have paid already, or be about to. The retry is accepted, its attempt
  is paid by the provider, and the button, which would tell of the first payment, is
  refused; `manual.go:106` calls it harmless for that reason. The same alert is in the
  chat when its answer was lost (`manual.go:91`) and the row went to settlement_failed,
  which ops retry as well. TLC shows it with the last conjunct of `NoDoublePayout`
  replaced by `live + chat.paid <= 1`: the attempt is rejected, the alert sent, the row
  parked and requeued, the alert paid, and the second attempt sent. Hence
  `chat.overtaken` in `NoDoublePayout`: the alerts delivered before the last accepted
  retry are the only ones that can be paid beside another payment.
- A crash between a claim and its attempt (`dispatch.go:289`, `:315`) leaves the liability debited
  with nothing sent. Nothing resumes the settlement: the timeout job looks for a
  dispatched attempt (`timeout_job.go:53`), so nobody is paged, and a retry asks for the page.
  One between the attempt and its count (`dispatch.go:322`) is paged, but the retry takes the same
  number again, finds its key posted and stops.
- A retry without a correction clears the one that an earlier retry supplied and no attempt
  has used yet (`ops.go:70`).

- A succeeded callback cut short between its two transactions (the attempt, then
  the settlement; `webhook.go:251`) is lost: the redelivery finds the attempt
  resolved and returns, the settlement stays settling. `webhook.go:138` calls
  that redelivery a safe no-op. Hence `SucceededAttemptSettles` is promised
  without interruptions only.
- One failing event holds up all younger ones: the first handler error ends the
  batch (`eventbus.go:137`) and the next tick claims the same oldest event;
  `eventbus.go:130` says a failing handler only blocks its own event. Hence the
  proviso of `PublishedIsHandled`.
- A crash right after the worker's claim leaves the row `dispatching`, which
  nothing claims again and the timeout job does not look at (`dispatch.go:109`).
- The generic HTTP adapters call a lost answer a rejection
  (`settlement/providers.go:133`), after which the next provider is tried while the
  first may have paid.
- The sandbox confirm job skips a reservation that has a deposit
  (`treasury/sandbox_provider.go:93`): a crash between its two records, detected
  and confirmed, leaves the deposit detected for ever.

Of sessions and money:

- A session expires with a deposit recorded: `expirePreDeposit` (`ttl.go:65`)
  decides on `sessions.status`, the deposit's event may be in the outbox;
  `ttl.go:56` says it expires sessions "with no deposit ever detected". Hence
  the second disjunct of `DepositReachesSettlement`.
- No sweep moves what a reserved address holds: `ExecuteSweep` takes the key of
  account 0 (`sweep.go:133`, `wallet.go:180`), the addresses are derived at the
  tenant's own account (`hdwallet.go:164`, and the comment at `:241`). Native
  transfers are also sent for the whole balance, with nothing left for gas.
- Ethereum and BSC share coin type 60 (`wallet.go:53`) while indices are counted
  per chain: the first address of a tenant's second chain is the first chain's
  address, the unique column refuses it, and the provider fails with its index lost.
- `notifyTenant` is called at every poll (`watcher.go:236`), not "on both a fresh
  detection and a confirmation" (`:233`).
- A retry accepted between `failSettlement`'s two statements (row, then session)
  leaves the row settling with nothing dispatched and nobody paged, since the
  worker's own transition of the session misses; or a paid settlement under a
  failed session (`ops.go:68`, `:85`). Hence `retries = 0` in `StatusesAgree`
  and `PayoutResolvesOrPages`.
- A deposit confirmed between a dispatch and its retry is paid out but never
  credited: the amount is computed again (`dispatch.go:187`), the ledger's
  deposit keys are posted already (`:148`); `docs/ARCHITECTURE.md:365` describes
  one credit per deposit. Hence the "row's amount" in `LiabilityMatchesStatus`. A
  manual payout that read the row before such a retry claims the amount it had then.
- A "returned" callback of an old attempt reverses the settlement its successor
  has paid (`webhook.go:170`, `ops.go:94`).
- A reversed payout cannot be retried (`ops.go:59`), which
  `docs/ARCHITECTURE.md:443` says ops do.
- An expired session keeps its reservation (`ttl.go:64`);
  `docs/ARCHITECTURE.md:35` says the address is freed.
- The SLA flag is set on a session settled in time and reversed later
  (`ttl.go:118`, `docs/ARCHITECTURE.md:408`).
- A second deposit to a session that has moved on is recorded and never credited
  (`session/events.go:47`).
- The Tron client says its index lists final transfers only (`watcher.go:702`) but
  does not ask for confirmed ones (`watcher.go:662`), and reports height 0, so that the
  configured number of confirmations is always reached.
- A hold approved more than thirty minutes after creation is pending with its
  window already over (`session.go:279`, `docs/ARCHITECTURE.md:241`).
- A notification is sent six times before it is given up
  (`notification/dispatch.go:129`); `notification.go:58` counts five.
- The second `settlement.failed` of a settlement is dropped by the deliveries'
  unique key (`notification/events.go:162`, against `:19`).
- The travel rule counts the session's own amount twice (`compliance.go:441`,
  `:262`), and adds amounts of different currencies (`compliance.go:434`,
  `docs/ARCHITECTURE.md:28`).

Of tenants and admins:

- A key or a portal session inserted by a request that read the tenant before
  `DeleteAccount` committed survives it (`tenant.go:385` to `:430`, `:685`): it is
  refused while the account is deleted and honoured once it is restored and has
  cleared KYB, though `tenant.go:658` says a restored tenant gets fresh ones.
  Hence "had when it was deleted" in `DeletionRevokesForGood`.
- Two submissions at once both pass `CheckKYBSubmissionAllowed`
  (`compliance.go:492`), which promises no new case while one is under review.
- An approval that is cut short before `ApproveKYB` leaves an approved case and a
  pending tenant, whom only another submission activates (`handlers.go:165`). The
  same two statements with a deletion and a restoration between them activate the
  restored account without the fresh review that `tenant.go:653` describes. Hence "still on
  its way" in `ActivationsAreApproved`: `reviewed` forgets at a restoration every approval but one
  that is between its two statements.
- Two first `SetWebhookURL` calls at once each hand out a secret; the last one
  written signs (`tenant.go:936`).
- A corridor's entitlements survive a deletion and restoration. `Suspend` has no
  caller, `adminHandlers.submitKYB` (`portal_handlers.go:250`) does not exist.
- Binding an OIDC subject ignores whether its row was still unbound
  (`adminauth.go:205`), so two logins at once may both pass and one be bound.

Of corridors and rates:

- A session may be created from a copy of a corridor that has since moved to another
  network; its address is reserved on the new one (`treasury.go:223`).
- `deleteCatalogEntry` locks its row so that no corridor can be validated against it
  (`catalog.go:337`), but the validation is a plain read, as `catalog.go:371` concedes;
  the corridor then names an entry that is gone.
- `UpdateCorridor` writes the asset and the network, which its comment says are
  never written (`corridor.go:348`).
- `UpdateAsset` and `DeleteNetwork` lock the same two rows in opposite orders;
  PostgreSQL rolls one of them back.
- The system rate is a ceiling (`rate/providers.go:58`, `docs/ARCHITECTURE.md:378`) only
  while it can be read: a provider that fails is skipped (`rate/providers.go:273`), the
  system's own row included.
- `current_rates` has no age limit: after lost runs, an outage, or on a corridor just
  activated again, `LockRate` takes whatever was last written. Hence `lapsed` in
  `LockedQuoteIsRecent`.
- A `LockRate` that fails after a hold was approved leaves the session on hold with its
  case approved, until the TTL job expires it.

## Proofs

Eight modules prove thirty-one theorems, each for every value of the constants
that the module's assumption admits (types of the constants, disjointness of
names). Seven theorems about `Settlement` have hypotheses of their own. Each is
needed: without it, TLC finds the property violated:

- `~OpsConfirm` (ops confirm no failure by hand): a confirmed failure takes the
  settlement from a goroutine that may still be at work on it. Finding 1 pays
  twice; beside that, an attempt is made with the destination of a copy read before
  the correction, a success is recorded on a settlement that goes back to the queue, and a
  second claim is posted on one credit.
- `Adapters \subseteq {Hyparrow, Sandbox}`: the generic HTTP adapters call a lost
  answer a rejection (see the further disagreements), after which a second
  provider is paid.
- `faults = 0` in `SuccessSettles`: a callback that is cut short between its two
  transactions is not finished by its redelivery. Likewise in `SessionAgrees` (row
  and session are two statements) and `LiabilityFollows` (claim and attempt are).
- `deposits = 1` in `NeverOverdrawn` and `LiabilityFollows`: a deposit confirmed
  between a dispatch and its retry is paid out without a credit, and makes the
  amount of the row another than the amount claimed for it.
- `reversalCase = "none"` (no payout has been returned yet) in `SessionAgrees` and
  `LiabilityFollows`: a "returned" callback that arrives between the succeeded
  one's writes of row and session moves the row to reversed, misses the session,
  which is not settled yet, and gives no claim back; the first callback then calls
  the session settled. Two request goroutines show it; with the one of
  `settlement_live`, both properties hold after a return as well.

All but the first two hold of the states a run is in until that happens; they
restrict no constant, and every number of handlers, retries and failovers is covered.

`SettlementProofs`, for every set of request goroutines, every corridor, retry cap,
rate and bound:

- `TypeCorrect`: `Spec => []TypeOK`. `TypeOK` is not inductive: the attempt
  number a goroutine is about to use must be in range when it is used, so
  `TypeInv` adds `CountInv`, that a goroutine between its choice of provider and
  its insert holds a count below `MaxAttempts`. One lemma per kind of update
  (`PostType`, `GotoType`, `LocalType`, `UpdateType`) carries the records;
  `SelectedIsEnabled` and `DestinationResolved` are the facts about the two
  choices `dispatchAttempt` makes.
- `ResolutionIsFinal`: `Spec => ResolvedAttemptsStay`. Every write to an attempt
  row is guarded by the status it expects (`UpdateKeepsStatus`).
- `OnlyFailuresReversed`: `Spec => []ReversalsAreOfFailures`. A reversal is
  posted statements after the failure is marked, by a goroutine that remembers
  which attempt it marked. The invariant therefore says of local variables what
  the property says of the ledger: `FailureInv`, that a goroutine about to
  reverse has in `loc` only attempts marked failed (`ResolutionIsFinal` keeps
  them so), and `ReversalInv`, that what is posted was.
- `ImplementsLifecycle`: `Spec => KeepsLifecycle`, for every value of the
  constants: from the hand-over on, a settlement's handlers move the session as
  `SessionLifecycle` allows. A transition to settled compares the session's status
  only, and the lifecycle asks for a payout behind it: `PaidFirst` says that
  whoever is about to make it has recorded a success. `NotQueued` says that nothing
  runs before the hand-over, `AttemptInv` that a goroutine at work on an attempt has
  the number of one.
- `PaidOnceAtMost` and `ReversedIsOver`: `[]NoDoublePayout` and
  `[]ReversedClaimIsDead`, with the first two hypotheses. The argument is a turn
  (`TurnInv`). Between the claim of the row and the insert of an attempt, and again
  between a recorded failure and the next attempt, one goroutine drives the
  settlement; while an attempt is dispatched or has succeeded nobody does, and the
  row waits for nobody. No lock says so: each compare-and-set passes the turn
  on, and only a confirmed failure takes it from its holder. `CallInv` adds that
  an attempt has one caller, whom no callback can overtake before the reference is
  stored, and `FlightInv` that an attempt the provider may still pay is dispatched or
  succeeded, and one being marked failed is over, which is what the other adapters break.
  `HandInv` carries it over to payments by hand. As long as an alert is out that no retry
  has overtaken, it is the only one, no attempt is in flight, paid or still dispatched, and no
  goroutine is on a path that would send one (`WithHumans`): only the goroutine that has
  given up on the attempts sends the alert, nothing but a retry starts again after it, and the
  retry is what makes it overtaken.
- `CorrectionsAreUsed`: `Spec => PaysLatestDestination`. The destination of the row
  changes only while the row waits or under the goroutine that is calling, so
  the copy that the driver works from is current (`DestinationInv`), and without a
  correction the details are those of the last attempt that has any (`LastIsResolved`).
- `SuccessSettles`: `SettleInv`, that a settlement still settling after a recorded
  success has a goroutine about to settle it, and one that is dispatching a
  goroutine at work, as long as nothing has been interrupted.
- `NeverOverdrawn`: `[](deposits = 1 => PayableNeverOverdrawn)`, for any adapters.
  `PriceInv`: whoever is about to post a claim has the row's amount, and the
  credit of that amount is posted before. `ClaimInv`: a claim that no reversal
  answers belongs to an attempt that is dispatched or has succeeded, to the
  goroutine working on it, or to a settlement that nobody drives any more, and there is
  one at most; a payout by hand is claimed when there is none. The claims less the reversals
  are then one amount at most.
- `SessionAgrees`: `StatusesAgree` until the first fault or return, with failures
  confirmed by hand and any adapters. The property speaks of the moments at which nobody
  works, and row and session are written one after the other; `AgreeInv` says what
  holds in between, up to the first retry. Until the session is settling only the worker
  acts, at the statement that the row's status tells (`NotBegun`); afterwards the two agree,
  or whoever has moved the row to settled or settlement_failed is about to move the session
  (`Begun`), and no other goroutine can move either.
- `LiabilityFollows`: `LiabilityMatchesStatus` until the first fault, later deposit or
  return. `ClaimInv` bounds the claims that stand; equality takes the converse too, that a
  payout made or under way has its claim, and that one which stands has its payout.
  `BalanceInv` therefore adds to the invariants of `NeverOverdrawn` and `SuccessSettles`
  that a settled row has a recorded success (`CaseInv`) and, while nothing has been cut
  short, that a claim without an attempt is the driver's or a goroutine's that is about to
  reverse it, and a success without a claim is a manual payout about to post one
  (`UncutInv`).

`DeliveryProofs`, for any events, dispatchers, failing handlers and batch size:

- `ImplementsPromise`: `Spec => HandledExactlyOnce`, the refinement of
  `OutboxPromise`. A commit must find an event without effects, which no state of
  rows alone says: the invariant adds that a dispatcher at work holds the lock of a
  waiting row (`HoldsWaitingRow`) and that no two hold the same (`LocksExclude`).
- `DeliveriesAreEarned`: `[]EndsAreEarned` of `Notification`, for any schedule, number of
  events, retries and crashes. The worker counts an attempt after the send, from a copy
  of the row. `LadderInv` says that
  the copy is current, because what is claimed stays pending until the worker is done
  (`ClaimHeld`), that no row counts an attempt that did not fail since its last restart
  (`LadderClimbed`), and what the worker knows of a send it has made (`SendKnown`).

`SessionProofs`, for any admins, writers, transfers and faults:

- `ImplementsLifecycle`: `Spec => KeepsLifecycle`, the refinement of
  `SessionLifecycle`. A transition compares only the status, while the lifecycle
  asks for an approval, a deposit or a payout, each written elsewhere by another
  transaction. The invariant says where each stands until the transition is made:
  what a request may do next follows from its case (`Requests`, `Case`), a
  reservation or a deposit means an approval and an event waiting means a deposit
  (`Deposits`), and a status past the deposit means the settlement's row or the
  event that will insert it (`Payout`). Each action's lemma shows both that it keeps
  the invariant and that it is a step of the lifecycle or a stutter.
- `OneReservation`: `OneAddress`, since one request at most is about to reserve, and
  only before the first reservation (`Requests`).
- `DepositsAreCarried`: `ConfirmedDepositCarried`, from `Deposits` and `Payout`.

`SessionQuoteProofs`, for any sessions, providers, quotes, stale age and interval:

- `OpenedAtRecentQuotes`: `LockedQuoteIsRecent`. `LockRate` compares no age. The
  current quote's is bounded by what it was at most when the job selected it and the
  ticks since (`AgesWithTheJob`), as long as no run of the job is lost.
- `ClearedStaysBelowThreshold`: `[]ClearedVolumeBelowThreshold`. The check of a
  session sums what is in the window, itself included, while others are inserted
  and expire. `RuleTyped` says that a session is in the window before it is checked:
  whatever has been let go on since is then part of the last check's sum.

`AddressPoolProofs`, for any sessions, tenants, chains, bindings and wallets:

- `NoDoubleBooking`: `OneOpenSessionPerAddress`, by the partial unique index alone.
- `PoolsAreApart`: `AddressStaysWithTenant`. Between its discovery and its
  reservation an address is in a request's local variables; the invariant says that
  what a request carries is a registered wallet or of its own tenant's pool
  (`Carries`), and that the pool has an address once, by its unique column.

`LedgerProofs`, for any transactions, callers and faults:

- `OnePostPerKey`: `KeyPostedOnce`, and `DuplicateIsCommitted`: `DuplicateMeansPosted`.
  Both rest on `KeyHeld`: a call past its claim holds the lock of its key's
  uncommitted row, and nobody has posted that key.
- `CacheFollowsEntries`: `[]CacheIsSumOfEntries`. A call writes balances one by one,
  each from a value it read under the row's lock, and commits them with its
  entries. `Working`: what it would commit is the committed balance and those of
  its own entries it has added so far (`Through`), because nobody else can
  write a balance it has locked.
- `FlaggedDriftIsOutside`: `[]OnlyOutsideDriftIsFlagged`. What the sweep finds is a
  cache less its sum in one statement; by the theorem above that is what came
  from outside (`DriftInv`).

`TenantProofs`, for any handlers, links, keys, corridors and declarations:

- `LinksOpenOneSession`: a consumed link stays consumed, and at most one request is
  between consuming it and inserting its session (`OnItsWay`).
- `DeletedCredentialsStayDead`: what a deletion found is revoked or gone
  (`Revocation`), and every later insert is of something new.
- `OpenCorridorsAreCovered`: the form behind a corridor that is open, or that a
  request is about to open, is validated and approved; cases only grow.
- `OnlyAGrantUnblocks`: `AdminBlockHolds`, one step at a time.
- `ApprovalsPayForActivations`: `[]ActivationsAreApproved`. A case is approved by one
  transaction and its tenant activated by another, and two requests may be between
  the two: `EarnedInv` counts activations made and under way against the cases approved,
  and `ReviewedInv` says that an active tenant and a request about to activate it come from
  an approval that no restoration has voided.

`CatalogProofs`, for any admins, sessions, corridors, catalogs and providers:

- `BindingsNeverMix` and `UsedCorridorsStay`: one request at a time has a corridor's
  lock (`Exclusive`), and what it has checked under it is true until it writes
  (`Fits`, `Checked`), since whatever could change it waits.

Sums (`SumFunction` of `Functions`, `MapThenSumSet` of `FiniteSetsExt`) are folds,
recursive functions over subsets, and the library's induction over finite sets takes
an operator as a parameter, which the provers cannot instantiate. What the proofs need of a
sum (its value on the empty set, that one summand can be split off, that equal
summands have equal sums) is proved for each module that adds by taking a smallest
subset on which it fails (`SmallestSubset`, from the well-foundedness of strict inclusion).

Every invariant and action property of the passing runs is a theorem, under the hypotheses
above. Only model-checked are

- the two properties of `settlement_live` after a return (see above), and
- all liveness (`PayoutResolvesOrPages`, `DepositReachesSettlement`, `EndsOrBreaches`,
  `HoldsEnd`, `FinalTransferRecorded`, `PublishedIsHandled`, `PendingResolves`,
  `EveryPostReturns`, `DriftIsFlagged`): TLAPS has no rules for fairness, whose
  definition is by ENABLED.

## What is not modelled

- **Treasury's sweeps**: nothing starts them, and none moves what the
  reserved addresses hold (see above); a model would have to correct the code
  first. Custody balances are a last-write-wins upsert, Busha's quoted deposits are
  HTTP.
- **adminauth, ratelimit**: planned. **idempotency**: nothing outside its tests calls
  it.
- **Asset prices**: a cache with the rule of `Rate`'s; here only a reason for
  `LockRate` to fail. **Jurisdiction rows** are constants: `jurisdictionctl` edits them
  by hand.
- **Of a tenant**: its profile fields, `Suspend`, which nothing calls, and the webhook
  endpoint, which `Notification` has.
- **kyc, provider clients, wallet keys and transaction encodings, config, db, crypto,
  webhookurl, gateway, adminctl, jurisdictionctl, the rest of cmd/**: no state that
  goroutines share, or bytes and HTTP.
- **audit**: a buffered log nobody reads back; it drops when full, by design.
- **Two processes of the server**: the claim of the dispatch worker
  (`dispatch.go:109`) and `flagDrift` (`reconcile.go:149`) are safe only with
  one; the models have the one that `main.go` starts.

## Plan

1. Treasury: an instance of `AddressPool` with two chains of one coin type.
2. Admins (`platform/adminauth`): binding, session lifetime, disabling; rate limits
   (`platform/ratelimit`): the window's edge and the eviction.
3. KYC matching as operators against a reference definition.
