# Formal models of the Musicfy backend

TLA+ models of the server under `src/app`, checked with TLC and, for the
results that matter most, proved with TLAPS. The subject is money and jobs: a
user pays coins for a song, a cover, a video or a voice; the generation runs on
fal.ai for minutes, its result arrives by webhook and by polling, and a server
may crash at any moment. At the end the coins must be spent or given back, and
the product made once. Around this core stand the ways coins come in (StoreKit,
Adapty, the CRM), the accounts they belong to (guests that are merged into
permanent accounts), and what is bought with them (voices, songs, videos).

## 1. The system

| Component | State | Operations | Talks to |
|---|---|---|---|
| Coin wallet (`domain/services/credits.py`, `repositories/credits.py`) | `coin_wallets` (available, reserved), `credit_ledger` with unique idempotency keys | reserve, capture, release, charge, refund, grants, manual adjustments | called by everything that moves coins |
| Job creation (`services/generation_service.py`) | `jobs`, unique `(user_id, client_idempotency_key)` | `create_job`: lookup, reserve, insert, start | wallet, pipelines |
| Pipelines (`services/pipelines/`) | `jobs` (status, current_stage, fal_request_id, input_payload), tracks, assets, voice profiles | `start`, `advance`, `fail` of four pipelines, `_finalize`, `_mark_failed` | wallet, fal client |
| fal webhook (`api/v1/webhooks.py`) | `processed_webhooks` | claim, find the job, dispatch, mark applied | pipelines |
| Poller (`services/poller.py`) | none but its snapshot of a cycle | list active jobs, fetch each status, dispatch | fal client, pipelines |
| Startup (`main.py`, `services/recovery.py`) | none | release and fail orphans before serving | wallet, jobs |
| fal client (`providers/fal/`) | remote queue | submit with `X-Idempotency-Key`, fetch status and result, parse webhooks | fal.ai |
| Lyrics (`services/lyrics_service.py`) | wallet only | charge, generate synchronously, refund on failure | wallet, fal client |
| StoreKit billing (`services/billing_service.py`) | `subscription_state`, `purchases`, wallet | verify, restore, notifications, revocation, ownership transfer | wallet |
| Adapty webhook (`services/adapty_webhook_service.py`) | `subscription_state`, `adapty_webhook_events`, wallet | activate, expire, grant | wallet |
| Identity (`auth/sessions.py`, `services/merge.py`) | `users`, `sessions`, all rows with a `user_id` | guest by device, Sign in with Apple, merge of a guest | wallet, jobs |
| Admin and CRM (`services/admin_service.py`, `crm_admin_service.py`) | wallet, subscriptions, audit log | promo grant, adjustment, subscription grant | wallet |
| Voices (`api/v1/voices.py`, `repositories/voice.py`) | `voice_consents`, `voice_profiles` | consent, create with the clone job inside the request, rename, delete | job creation, pipelines |
| Library (`api/v1/tracks.py`, `videos.py`, `library.py`) | `tracks`, `assets` with `deleted_at` | order, rename, soft deletion | job creation, pipelines |
| Rate limiter (`middleware/rate_limit.py`) | token buckets in memory | one token per request | - |
| Uploads, presets, devices, notifications, moderation, analytics, media tools | single rows, append-only logs, subprocesses | reads and single writes | - |

Everything runs in one asyncio process (`UVICORN_WORKERS` is 1 by default)
over one PostgreSQL database. Each repository call of a service sits in a
short transaction of its own, so between any two transactions, and during any
call of fal, another coroutine may run and the server may die.

What makes each part correct, and what is hard in it:

- **Wallet**: the ledger explains the balance; the reserved column is the open
  holds. Hard: capture and release have different keys, and
  `max(0, reserved - units)` would hide an error.
- **Job creation**: one job per key, no coins lost by a refused or failed
  call. Hard: two overlapping calls pass the lookup together; the reserve is
  committed before the insert that may fail.
- **Pipelines, webhook, poller**: one settlement, one product, no reopened job,
  no job that hangs. Hard: both deliveries act on what they read before;
  `current_stage` names the stage and not the request; `fail` has no guard;
  capture and product, release and status, submit and request id are separate
  transactions.
- **Recovery**: every orphan ends. Hard: what list_orphans does not read.
- **Billing, CRM, Adapty**: one grant per purchase or period, no record without
  its coins, one owner of a chain, every event answered. Hard: one row with four
  writers, statements at READ COMMITTED that choose their rows before they wait
  for them, deliveries repeated and out of order.
- **Identity**: a device finds its guest, an Apple ID its account, a merge loses
  nothing. Hard: two cold starts at once; the wallet moves in two statements;
  calls under way remember the old user; two merges wait for each other.
- **Lyrics**: a failed call is refunded. Hard: repeats with one key, and the
  user merged away before the refund.
- **Voices and library**: sources are one's own, a profile tells what its job
  did, what was deleted stays deleted. Hard: the profile is committed before its
  job; the source is chosen before the job is inserted; deliveries come twice
  and late; another instance sweeps.
- **Rate limiter**: bursts are bounded and Retry-After is honest. Hard: rounding.

`PROJECT.json` lists the components with their status and, under `hazards`,
each of these difficulties at its line.

## 2. Modules

```
CoinWallet                       wallet and ledger, any caller
  JobTable                       jobs, products, fal queue, webhook events
    Pipeline                     coroutines, BasePipeline
      SongPipeline  CoverPipeline  VideoPipeline  VoiceClonePipeline
        Generation               create_job, webhook, poller, crash, recovery
  BillingTables                  purchases, subscription rows, open transactions
    StoreKitBilling  AdaptyBilling  CrmGrants
      Subscriptions              all of them at once, aborts, repeats
        GrantOnce                (INSTANCE) what every channel promises
Identities                       users, identities, sessions
  AccountCoins                   wallets that may be missing, lyrics, jobs
    Accounts                     the merge, deadlocks, dying requests
LibraryTables                    consents, profiles, jobs, products
  Voices                         api/v1/voices.py with the clone pipeline
    Library                      orders, deliveries, deletions, sweeps, sign-in
RateLimiter
MCCoinWallet, MCGeneration, MCSubscriptions, MCAccounts, MCLibrary
                                 constants for TLC
CoinWalletProofs                 types, audit of the ledger, the reserved column
  GenerationProofs               Generation implements CoinWallet; what a step can do
    JobSettlementProofs          how jobs are settled, one product, one job per key
  SubscriptionProofs             paid with its record, once; implements GrantOnce
                                 and CoinWallet; the payer owns the chain
AccountProofs                    who is who, logouts, lyrics refunded
  AccountLedgerProofs            wallets match the ledger through merges
LibraryProofs                    profiles and their jobs, deletions, sources
RateLimiterProofs                bursts, Retry-After
```

**CoinWallet.** `available` and `reserved` are the two columns; `keys` and
`booked` are the ledger as its readers use it (the idempotency keys present,
the sum of amounts by user and class of entry); `hold[j]` is
`jobs.reserved_credits`, from the reserve on. Every operation is one action,
because every operation is one transaction that locks the wallet row or wins
its key. `charge`, `refund`, `grantCoins`, `grant_credits` and `adjust_tokens`
are there because they write the same two tables. `WalletSpec` is open: any
caller may call anything in any order. It is the abstract specification of
this project: what the callers of the wallet may count on.

**JobTable.** One operator per repository transaction. `row[j]` has the columns
that decide control; `runtime` is the set of stages of
`input_payload["_runtime"]` that hold a media url; `made[j]` counts tracks,
assets or ready profiles. The `fal` queue is modelled from the client (marked
external): a submit is accepted as a new request or, when fal honours
`X-Idempotency-Key`, answered with the old one; a request ends with media,
without ("empty"), failed or canceled.

**Pipeline.** `task` holds the coroutines: one per call of `create_job`, one
per webhook event, the poller and the recovery. `pc` says before which
transaction or fal call the coroutine stands; the other fields are the local
variables it read earlier and will use: this staleness is where the races are.
Transactions in which nothing but logs is written are merged into a neighbour.

**SongPipeline, CoverPipeline, VideoPipeline, VoiceClonePipeline.** `start`,
`advance`, `fail`, `_finalize` of each. `voiced_song` is a song with lyrics and
a voice, which has a vocal stage; the three modes of a video are kinds. Where
the code's branch depends on tools or media (muxing, rendering), both branches
are allowed. A song and a cover look for an existing track before they make
one (`lookForTrack`, without a lock); a video does not.

**Generation.** `create_job` is `lookupKey`, `reserveCredits`, `insertJob`,
`startPipeline`; the webhook is `claimEvent`, `findJob`, `eventApplied` around
the pipeline; the poller is `pollActive`, `pollAnswered`, `pollSkipped`,
`pollEnds`; `Crash` loses every coroutine and keeps the tables; `Restart`,
`recoverNext`, `Serve` are the sweep that ends before requests are served.
`delivery` is the deployment: webhooks need `PUBLIC_BASE_URL`, polling needs
`POLL_ENABLED`. `purchase` gives the user coins meanwhile.

**BillingTables, StoreKitBilling, AdaptyBilling, CrmGrants.** A request is one
PostgreSQL transaction at READ COMMITTED. The tables (`purchase`,
`subscription`, `events`, the wallet of `CoinWallet`, and `grantee`, the user of
a ledger entry with a grant key) change when it commits; until then `call[h]`
has the statement it stands before, what it has read (`seen`, `base`) and the
rows it has written and therefore holds (`newly`, `moved`, `held`). One action
is one statement; the last statements and the commit are one. A statement that
meets a held row waits: it is not enabled (`purchaseFree`, `subscriptionFree`),
and when it goes on it updates what still matches, as PostgreSQL does.
`record`, `scanChain`, `reassign`, `expire`, `finish` are
`BillingService._apply`; `revoke` is `_handle_revocation`; `recordEvent`,
`activate`, `expireRow`, `findNoRow` and `expireMissing` are
`AdaptyWebhookService._apply`; `crmGrant`, `lockRow`, `applyGrant` are
`CrmAdminService.grant_subscription`, and the admin's two operations are a step
each. A certificate chain is the root it ends in, an event is what the parser
leaves of the payload, the catalogue is in the product of a receipt.

**Subscriptions.** All writers of a user's one subscription row together.
`abort` is a rollback: a crash, an error, or PostgreSQL breaking a deadlock.
Adapty delivers until it had a 2xx (`firstDelivery`) and may deliver again
(`repeatDelivery`). **GrantOnce** is the abstract specification of granting: a
thing that was paid for gives its coins to one account, once, whole, and never
takes them back. `Subscriptions!GrantsOnce` is its specification under the
mapping `grantee <- grantee`, `granted <-` the coins a user has less those given
by hand, `Worth <-` the catalogue's coins of what a key stands for.

**Identities, AccountCoins, Accounts.** Again a transaction per request and a
statement per action. `create_guest`, `claim`, `reread` are a cold start with
the race for the device's identity; `sign_in_with_apple`, `findApple`,
`promote` the sign-in; `moveSessions`, `moveRows`, `copyWallet`, `dropWallet`
the merge, whose effects appear with its commit in `dropWallet`, except that
other transactions wait for the rows it has written. Unlike in `CoinWallet` a
wallet row may be missing and the user of an operation is one that was read
before: `charge`, `llm`, `refund` are a lyrics call, `reserve`, `insertJob`,
`readJob`, `settle` a job. A session row has two
columns that different requests write: `logout` sets `revoked`, a merge `user`
(`reassigned`), of revoked sessions too. The later of the two waits for the row, as
its UPDATE does. `overtaken` is history: users whose money moved while
they were merged away.

**LibraryTables, Voices, Library.** Rows as the code keeps them: never removed,
`deleted_at` set. `request[j]` is the request that makes a voice, song, cover or
video: `createVoice` commits the pending profile, `createVoiceJob` inserts the
job or is refused, `startClone` to `finalizeVoice` are the clone pipeline, which
runs inside the request. `order` resolves the source (a ready voice of one's
own, a track of one's own) and `createOrderJob` inserts the job later, with the
user read then. The queue stages of an order are in `Generation`; here a
delivery is its end: `fal_webhook` takes any job, once per event, `poll` an
active one. What follows looks at no status: `generationFails` is `fail` and a
missing media, and `_finalize` is `finalizeStarts` (post_processing, a completed
job too), `finalizeReads` and `finalize`, the two halves of its last transaction.
`startInstance` and `recoverOrphan` are the sweep of an instance that starts
while others serve. `reassign_all` is one step here; its statements are in
`Accounts`. `overlapped` is history: songs two deliveries of which finalised at
a time.

**RateLimiter.** One action per request, since the bucket is used under one
lock. Numbers are exact: the clock has ticks, tokens are counted in units of
which a request costs `Cost`. `admitted` and `promise` are history.

Operators whose comment begins with "Mutant:" are not part of the model. Each
is a wrong version of the definition after it, named in `PROJECT.json` under
`mutants`, and shows that a property would notice that mistake.

## 3. Properties and runs

| Run | Question | Result |
|---|---|---|
| `wallet` | Does the wallet hold together, whoever calls what? | `LedgerExplainsAvailable` always; `ReservedIsExact` and `CoinsConserved` as long as no job is settled both ways |
| `one_delivery` | Webhook alone, or poller alone, up to two crashes: what may a client count on? | `OneProduct`, `TerminalIsFinal`; without a crash `SettledOnceUnlessCrashed`; `RequestedJobEnds`, `StartedJobEnds`, `CaptureBuysProduct` |
| `both_deliveries` | Webhook and poller race, and the server crashes once: what still holds? | `CompletedIsCaptured`, `FailedIsReleased`, `RequestedJobEnds`, `CaptureBuysProduct`, and the type invariants |
| `shared_key` | Three overlapping calls by one user, two with one key, jobs sharing a wallet | `OneJobPerKey`, and every step is a whole wallet operation (`WalletSpec`) |
| `refunded_completion` | Is a completed job never refunded? | violated, finding 1 |
| `duplicate_product` | Does a job make one product under both deliveries? | violated, finding 2 |
| `subscriptions` | Four writers of one subscription row, two transactions at a time, one aborted: is everything paid, once? | `RecordedIsPaid`, `ReceiptPaidOnce`, `ActiveOwnsChain`, `GrantsOnce` (refines `GrantOnce`), `WalletSpec`, `EventsSettle` |
| `accounts` | Cold starts, sign-ins, logouts and merges beside money | `SameGuest`, `AccountsStay`, `LogoutLasts`, `WalletsMatchLedger` unless a merge overtook money, `LyricsSettled`, `CallsEnd` |
| `rate_limiter` | Any pattern of one token's requests | `BurstBound`, `PromiseKept` |
| `library` | Voices, songs and videos beside repeated and late deliveries, deletions, deaths, sweeps and a sign-in | `SourcesAreOwn`, `ProfileTellsJob`, `DeletedStaysHidden`, `VoicesSettle`; with the types (`LibraryTypeOK`) that a completed order has its product |
| `crm_double_grant` | Is a repeated grant_id harmless when the calls overlap? | violated, finding 3 |
| `merge_loses_coins` | Does a merge keep every coin? | violated, finding 4 |

The four violated runs check one property each against the behaviour of the
code and end with a counterexample.

What the conditional properties leave out is what the code does not promise:

- `ActiveOwnsChain` excludes chains two receipts of which were applied at one
  time. Both transactions then choose the rows to move before either commits,
  and both accounts may hold the chain active.
- The run `subscriptions` has `OverlapCrm` FALSE: two CRM calls with one grant_id
  are never served at one time, as their overlap breaks `GrantsOnce` (finding 3).
- `WalletsMatchLedger` stops when money of a user moved while that user was
  being merged away (`overtaken`); finding 4 is what happens then.
- `ProfileTellsJob` allows a ready profile beside a job that a starting instance
  swept, and the moment between failing the profile and failing the job.
- `VoicesSettle` allows a profile that stays pending because its request was
  refused or died after the profile was committed. Nothing in the code ends it.
- `DeletedStaysHidden` is about songs and covers that were not finalised twice
  at a time. A video has no look-up of an existing asset (finding 2).
- `SourcesAreOwn` speaks of the person, not of the row: an order that was
  resolved before a sign-in is inserted for the guest.

**Bounds.** They are constants of the configurations.

- `Job`: one job in the delivery runs. Jobs interact through the wallet of
  their user, through the key, and through the poller's order; `shared_key`
  has three jobs for these, and the proofs have any number.
- `MaxRequests` 3 in `one_delivery`: enough for first request, fallback and
  vocal. 2 in `both_deliveries`, where the races are between two requests and
  a stage more multiplies the states.
- `MaxCrashes` 2 in `one_delivery`: a crash, and a crash of the recovery or of
  the repeated attempt. 1 elsewhere.
- `Prices` {0, 1} or {1}: a free and a paid kind; different prices in `wallet`,
  where their sums are compared. `Amounts`: a purchase that pays for one job,
  or for some of three.
- `MaxManual` bounds promo grants and adjustments: `wallet` makes them freely, in
  `subscriptions` it is larger than all its calls can give.
- `Kinds`: all queue kinds in `one_delivery`; one of each pipeline in
  `both_deliveries`; voice clone and lyrics video, the pipelines without a
  `captureCredits` or with two exits, in `shared_key`.
- `PollLimit` 1 in `shared_key`, so that the limit is reached.

- `Workloads` in `subscriptions`, `accounts` and `library` is a set of small
  scenarios, named in the MC modules: each behaviour draws one and has what it
  needs for one kind of race, instead of a little of everything. `subscriptions`:
  two receipts of a chain and four calls; a user's other receipts beside two
  events of a period; the start and the end of a subscription; the operators and
  an event for nobody. `accounts`: three cold starts with a sign-in and a
  logout; a merge beside a logout; a merge beside lyrics calls with one key; a merge beside a job; two
  merges of a guest beside a purchase; two permanent accounts merged into each
  other. `library`: voices and a cover beside a sign-in; two voices, one
  deleted, and a stranger; a voice beside two starting instances; a song and its
  video delivered by two at a time, deleted, renamed, with an event that comes
  when it likes; the same beside a sign-in.
- `Handler` and `Delivery`: two transactions at a time. A row has one writer at
  a time, so a race is between two; deadlocks of three are not checked.
- `MaxAborts` 1, `deaths` 1: one failure that is not a deadlock.
- `visits` 2 in `library`: two visits of the poller beside the claimed event, so
  that three deliveries meet one job, two of them at a time.
- `User`, `Token` in `accounts`: four rows each, the most a workload can make.
- The rate limiter: a refill of 25 units per tick against a cost of 120, so that
  no whole number of ticks is a token, over nine ticks; the proofs have any rate.

`CHECK_DEADLOCK FALSE` in the runs other than `wallet`: when all calls are
answered, all requests ended and the bounds spent, the server rests. The wallet
run checks deadlock. Deadlocks of transactions are part of the models of
billing and accounts (`deadlocked`). That PostgreSQL breaks them is assumed below
and not shown; given that, `CallsEnd` and `EventsSettle` say that every request is
answered and every event applied, and the safety properties say what a transaction
that was broken off leaves behind. None of them judges the order in which
`merge.py` writes its rows.

**Fairness**, used by the liveness properties only. In `Generation`:

- fal ends every request it accepted (there is no timeout of jobs in the code:
  without this a job may run for ever, as the hazard list says);
- the event loop resumes a coroutine that can run, so every started handler and
  pipeline takes its next step;
- the container is restarted (`restart: unless-stopped` in
  `docker-compose.prod.yml`), and recovery and serving go on;
- the poller cycles while it is on, and `fetch_status` does not fail for the
  same job in every cycle (strong fairness of `pollAnswered`, because the
  answer is enabled only in the moments the poller has the job in its batch).

Nothing is assumed of webhooks, which may all be lost, nor of clients, nor that
a crash happens. So `RequestedJobEnds` and `CaptureBuysProduct` are stated for
deployments with the poller; without it a lost webhook leaves a job active for
ever, which the model shows and the code intends.

In `Subscriptions` and `Accounts`: the event loop goes on with every request
(`serve`), PostgreSQL breaks every deadlock, and Adapty delivers an event until
it is answered with 2xx (its documented retry, on which
`api/v1/billing_adapty.py` relies). Nothing is assumed of `abort`, nor of Apple's
notifications. In `Library`: a voice's request takes its next step unless it
dies, as the fal client's calls time out.

## 4. What is proved

All for every value of the constants, from the named assumptions in the modules
(finitely many calls with one owner each, natural prices, positive amounts, a
poll limit of at least one, `NoJob` no job).

**The wallet.** `WalletTypeCorrect` and `LedgerAudit` are inductive with the
type invariant. `ReservedExactness` and `Conservation` are not: the column says
nothing of which jobs make it up. `HoldInv` adds that a settlement key belongs
to a job with a hold (so a reserve never reopens a settled one), that the coins
of the open jobs are a finite set, and that `reserved` is what the ledger booked
in and out of it. Sums over jobs are counted rather than recursed: `HeldCoins`
has one element per coin, and opening or closing a hold adds or removes the
coins of one job. Each operation keeps the holds, opens one or closes one
(`HoldsKept`, `Opened`, `Closed`), and the invariant is shown for these three.
Both theorems have the premise that no job is settled both ways. It is needed:
capture and release have different keys, and finding 1 breaks the premise.

**Generation implements the wallet.** `GenerationUsesWallet` is
`Spec => WalletSpec`, under the identity mapping: every step of the detailed
specification, crashes included, is one wallet operation or leaves the wallet
alone. The wallet theorems hold of generations by it (`GenerationLedger`,
`GenerationReserved`).

**Jobs.** `GenerationProofs` sums up what a pipeline step may do
(`PipelineEffect`): it moves its own coroutine, changes only its own job's row,
writes `failed` only at `mark_failed` and `completed` only at `commit`, comes to
`mark_failed` only past a release and to `commit` only past a capture, and never
takes a ledger key away. One lemma per step, so the invariant proof has one
case for all pipelines. `JobInv` in `JobSettlementProofs` then adds to the type
invariants what handlers rely on without looking: who works on a job works on
one that exists, a caller before its insert is alone with its job, and a
coroutine past a release or capture is past it in the ledger (`Settling`). From
it: `GenerationTypes`, `CoroutineTypes`, `FailedReleased` (whoever failed the
job) and `CompletedCaptured`, which assumes that no voice clones are asked for:
nothing captures the price of one (section 5, observations). `KeyMakesOneJob`
(`OneJobPerKey`) needs of it only which steps make a row: the insert alone, which
looks at all of them.

`MakesOneProduct` (`OneProduct`) and `SettlesOneWay` (`SettledOnceUnlessCrashed`)
have the premise `SingleDelivery`: results come by webhook or by polling, not by
both. Findings 1 and 2 are what happens without it. The argument is that a job
then has one worker at a time, which is not written down anywhere in the code:
it follows from the caller being done before there is a request to be answered,
from an event being claimed once, from the poller being one coroutine, and from
the sweep ending before anything is served. `SoleInv` says this of the state:
where each coroutine may stand and by which right (`RunnersKnown`,
`PlacesKnown`), that what the poller or the sweep still has in its list is as it
was read (`BatchFresh`), and that a job that nobody works on has no product and
is not captured, or is over for good (`ProductsKnown`, `PaymentsKnown`).
`SoleWorker` is derived from it. Of a step it is then enough to know whether its
worker goes on with the job, leaves it as it was, or ends it (`Course`): that is
shown once per pipeline step, and the invariant once for each of the three.
`EndedStaysEnded` (`TerminalIsFinal`) has the same premise. No write of a status
in the code looks at the one before it; what keeps a `completed` job from
becoming `failed` is that nobody is left to write: `FinalInv` says that nobody
works on a job that ended, and that it is over for good, so that neither the
poller, nor an event, nor the sweep of a restart takes it up again.

**Accounts.** `IdentityInv` strengthens `SameGuest` and the types by what a
request was begun with and still holds when it goes on (`RequestsFit`), that the
user of a request that has not committed is nobody else's (`UnbornAlone`), and that a
session row a merge has moved stays as the merge found it (`MovedHeld`: the row
locks). It gives `AccountsTypeCorrect`, `DeviceFindsItsGuest`, and the action
properties `AccountsAreKept` and `LogoutHolds`. The last needs that a merge writes
the user of a session and no other column, whether the logout came before it or
between its statements, and that no sign-in takes the row of a token in use.
`LyricsInv` says how far the calls of a lyrics key have come, and gives
`LyricsRefunded`. `WalletsFollowLedger` (`WalletsMatchLedger`) is
about sums again: `RowsWritten` holds always (the rows a job needs are there, no
two merges hold one row, no two requests work on one job), and as long as no
money was overtaken by a merge `Undisturbed` holds too: each wallet is what its
rows say, the rows a merge holds are all the rows of its user, and the wallet it
copied is still that user's. The condition cannot be dropped (finding 4). That
rows are not taken for their absence (`RowAssumption`, `IdentityAssumption`) is
about how the model writes a missing row.

**The library.** `LibraryTypeCorrect`, `ProfileAgreesWithJob` and `DeletionLasts`
for any numbers of voices, orders, users and deliveries. None is inductive. A ready
profile and its completed job agree because of where the request stands: `CloneOK`
says for each statement of the request which states profile and job can be in, and
that a job in a sweep's list has a request. `SongOK` says what a delivery may rely
on: unless deliveries overlapped, at most one is past its look-up, what it found is
what is there, and one row is all. That a completed order has its product
(`LibraryTypeOK`) needs `MadeOK` beside the types: a delivery that found the product
of another writes none, reopens the job and completes it again, and what it found is
still there since no row is ever removed. Every action either leaves what one of them
speaks of alone (`VoicesKept`, `OrdersKept`), moves one voice (`VoiceMove`), or
is a delivery, for which the proof goes by who else is finalising.
`SourcesBelongToBuyer` (`SourcesAreOwn`) needs to know it of a source from the
moment the order resolves it: `OwnInv` says that each request's user is the
person its voice, consent or track belongs to. Every step but a sign-in leaves
the owners of rows alone and takes back nothing that is ready or made
(`OwnersStay`); a sign-in changes the user of rows but not the person.

**Billing.** `PaidWithRecord` (`RecordedIsPaid`), `AppleReceiptOnce`
(`ReceiptPaidOnce`), `SubscriptionTypes`, and `ChannelsGrantOnce`, the refinement
`Spec => GrantsOnce`, for any number of users, receipts, events, grants and
requests at one time. None is inductive: a statement writes what earlier
statements read. `RequestsInv` says what a request knows where it stands (what it
is about, that the rows it means to move have an owner, that the rows it holds
exist), which other requests' commits keep since no row is ever taken away;
`EntriesInv` ties `grantee` to the keys; `CrmInv` says that a key looked up as
free is free when the grant is applied. One lemma per statement shows what it may
do to requests, tables and money (`StepOf`), so that the invariant has one case
for all. `ChannelsGrantOnce` has two premises. `~ OverlapCrm`: without it finding
3 is a counterexample, and `CrmInv` is where the proof needs it; the other
theorems hold with and without it. `PeriodsAgree`: two events of one period name
the same number of coins; otherwise what the period is worth depends on which
arrives first. It is a premise about what Adapty sends, which nothing in the code
checks.

`BillingUsesWallet` is `Spec => WalletSpec`, with the premise `~ OverlapCrm` for
the same reason: the coins of a second CRM call come with no entry. What a step
does with money is one of four things (`MoneyStep`), three of them operations of
the wallet. `WalletCovers` says that the bounds of the wallet, which the code does
not have, are large enough for what this module pays; `ByHandInv` bounds what is
given by hand by the calls. `BillingLedger` (`LedgerExplainsAvailable`) does
without it.

`PayerOwnsChain` (`ActiveOwnsChain`): for a chain no two receipts of which were
applied at one time, `ChainInv` says that the purchases of the chain have one
owner, that only the owner has the chain active, that one request at most is
applying a receipt of it, and that what this request read of owners and
subscriptions is still so when it writes (`MovesOwn`, `ReadsAreFresh`). Its
premise `ChainsApart` is about Apple's numbers: receipts of one chain agree on
the environment and on being subscriptions, and no chain is called like a CRM
grant. The code does not compare them: of a Production and a Sandbox receipt
with one chain the transfer of the first leaves the purchases of the second.

**The rate limiter.** `BurstBounded` needs what could still be given: `Room`
says that what a token got since a moment and what its bucket would hold now
together stay within the bound. `RetryAfterHonest` needs that a promised moment
is reached by refilling alone. Products of constants are kept behind `gain`, so
the arithmetic that is left is linear.

TLC checked `HoldInv`, `JobInv`, `SoleInv`, `FinalInv`, `IdentityInv`, `LyricsInv`,
`LedgerInv`, `CloneInv`, `OrderInv`, `OwnInv`, `RequestsInv`, `EntriesInv`, `CrmInv`,
`ByHandInv` and `ChainInv` as invariants before they were proved.

**Only model-checked.** Every invariant, action property and refinement that a
passing run checks is a theorem. What TLC alone checks are the liveness
properties (`RequestedJobEnds`, `StartedJobEnds`, `CaptureBuysProduct`,
`EventsSettle`, `CallsEnd`, `VoicesSettle`), since the prover does not reason about
fairness. What the premises leave out (both deliveries for a job, overlapping CRM
calls, voice clones that are never charged) is where the findings are.

## 5. Findings

1. **A song may be delivered, paid and refunded.** `fail` compares neither
   stage nor request (`pipelines/song.py:177`). The poller fetches the failure
   of the first music request; the webhook of the same failure submits the
   fallback; the poller's `fail` then finds the fallback already used and
   releases; the fallback completes and captures. Run `refunded_completion`.
2. **Webhook and poller make two videos.** `VideoPipeline._finalize` creates an
   asset unconditionally (`pipelines/video.py:455`), and `current_stage` does
   not change when a job ends. Run `duplicate_product`.
3. **Two overlapping CRM grants with one grant_id both pay.** The key is looked
   up without a lock (`services/crm_admin_service.py:221`) and the result of
   `append_ledger` is ignored: the coins are added twice, the period is prolonged
   twice, the ledger has one entry. Run `crm_double_grant`. The other channels
   take the key first and are proof against this (`ChannelsGrantOnce`).
4. **A merge loses coins.** Calls that resolved the guest before the sign-in go
   on with his id: the refund of a failed lyrics call is written to the ledger,
   finds no wallet row and adds the coins to nothing
   (`services/credits.py:145`); coins credited between the copy of the wallet and
   its DELETE are deleted (`services/merge.py:34`). Run `merge_loses_coins`.

Observed in the models or while reading, where nothing says otherwise or the
case is dormant:

- A priced voice clone would never be captured (`pipelines/voice_clone.py:83`),
  though `docs/ARCHITECTURE.md` says it would be billed as usual. The price is
  zero; this is why `CompletedCaptured` assumes that no voice is cloned.
- Polled stems are not found unless wrapped: `fetch_status` reads
  `result["stems"]` only (`providers/fal/client.py:797`), the webhook parser
  knows the top-level keys of demucs too.
- Signing in with Apple merges whoever is signed in, a permanent account too
  (`auth/sessions.py:157`); that account can still be signed in to, and is empty.
- A merge does not move `subscription_state` (`services/merge.py:16`): the
  purchases go to the account, the subscription stays with the guest row.
- The refund of a pack, or of another chain, ends the one subscription of the
  user found (`services/billing_service.py:285`).
- An order or clone that was resolved before a sign-in is inserted for the
  guest, where the account does not see it; a clone whose consent has moved
  fails with `CONSENT_REQUIRED`.
- A voice profile stays pending for ever when `create_job` answers 402 or the
  request dies (`api/v1/voices.py:57`).
- A late delivery reopens a completed job: `_finalize` begins with
  post_processing whatever the status was, and until its last transaction the
  user sees the job unfinished again; if there is no media, it ends as failed
  beside its product.
- `reassign_user` says it moves the active sessions (`repositories/sessions.py:37`);
  it moves the revoked ones too. They stay revoked (`LogoutLasts`).
- A deleted video comes back with a late event, and of two assets of a video
  deletion hides one (as finding 2).
- A crash between `release` and the failed status leaves an active, refunded
  job; the poller takes it up, and the second attempt may succeed and capture
  (song fallback). A crash between `capture` and the commit of a lyrics video
  is followed by a new render, which may fail and release. This is why
  `SettledOnceUnlessCrashed` stops at the first crash.
- The call that loses the race for a key, and a call that dies between
  reserve and insert, leave their coins in the reserved column, where nothing
  ever releases them.
- `list_orphans` reads `queued` and `running`: a job that crashed in `created`
  and a voice clone in `post_processing` are never ended.

## 6. What is not modelled

- Within the modelled parts: moderation and voice selection before the first
  write of `create_job`; `job_stage_log`, titles, variants, prompts; webhook
  signatures; `in_progress` events, which change nothing; exceptions of the
  database inside a step (`capture` and `release` are wrapped in handlers that
  log and go on); several server processes.
- Across the parts: the merge of a subscription row (it does not happen, above);
  billing beside a merge; the coins of library jobs, which are those of
  `Generation`; two server processes in `Generation` (the sweep of a second
  instance is in `Library`, for voices).
- In billing: certificate chains beyond their root, payload formats, the
  catalogue's prices, purchase dates; the order in which notifications of Apple
  arrive is free, their retries are calls like any other.
- In accounts: the expiry of sessions, display names, the verification of an
  identity token. Drafts of lyrics are rows nobody else reads.
- In the library: lists and single reads, presets, titles beyond "given" and
  "edited", the variants of a track.
- The rate limiter's table of buckets, which nothing prunes, and the rounding of
  floats.
- Uploads, presets, devices, notifications, moderation, analytics, media tools
  and configuration have no protocol of their own: reads, single-row writes,
  pure I/O or wiring.

## 7. Plan

In order of weight:

1. Merges beside subscriptions: `Accounts` and `Subscriptions` composed, with the
   subscription row a merge leaves behind.
2. Generation with several server processes, and with database errors in
   `capture` and `release`.
3. An abstract specification of a generation as an escrow (open, spent or
   returned), and the conditions under which `Generation` implements it.
4. Proofs: what each recovery of a crash may undo, and the escrow of item 3 as a
   refinement for every value of the constants.

## 8. Running

```
tlc -config MCOneDelivery.cfg MCGeneration     # about 170,000 states, half a minute
tlc -config MCCoinWallet.cfg MCCoinWallet
tlc -config MCSubscriptions.cfg MCSubscriptions # about 117,000 states
tlc -config MCLibrary.cfg MCLibrary             # about 327,000 states
tlc -config MCRateLimiter.cfg RateLimiter
tlapm JobSettlementProofs.tla                   # each proof module by a call of its own
```
