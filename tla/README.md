# Verification of nove-api

TLA+ models of the stateful parts of this repository, the TLC runs that check
them on small instances, and the TLAPS proofs of what should hold for every
instance. Paths are relative to the repository; `api/` abbreviates
`apps/api/src/`.

## 1. Inventory

The repository is a pnpm monorepo: `apps/api` (NestJS on Prisma/PostgreSQL, with
Redis and BullMQ), `apps/admin` (React), `docs` (VitePress) and `packages/skills`.
The API runs as several identical processes. A handler suspends at every `await`,
so handlers interleave between the statements they send to PostgreSQL and Redis;
the database runs READ COMMITTED, and most check-then-write sequences are outside
a transaction.

| component | state | operations | what makes it hard | what makes it correct |
|---|---|---|---|---|
| OAuth server (`api/oauth`) | `oauth_authorization_requests`, `oauth_auth_codes`, `oauth_tokens` | consent, exchange, refresh, revoke | retried and concurrent exchanges and rotations, transactions that wait for each other's rows and roll back, expiry, crashes | a code and a token are spent once; tokens stay within the consent; refused or closed consents stay so |
| OAuth clients (`api/admin/oauth-client`) | `oauth_clients` | create, update, disable, enable, rotate secret | decisions on a row read before the transaction; updates that miss rows committed meanwhile | a credential of an older version never works again |
| Sessions (`api/auth`) | `refresh_tokens`, the Redis blacklist and mark, a map per process | login, refresh, logout, revocation, password change and reset | rotation that is not a transaction, whole-second token times against exact expiries, Redis failing | a session is not lost, and a revoked one does not come back |
| Verification codes (`api/auth/services/otp.service.ts`) | codes, send limits | send, verify | counters read and then written; a send that fails | single use, bounded attempts, the newest code works |
| Account security and outbox | `security_notification_outbox`, the user row | change email, phone, password; deliver, retry | workers that die or are slow, claims that go stale | each notification is delivered or failed after a bounded number of attempts |
| Drive (`api/drive`, `api/storage`) | nodes, files, versions, upload sessions; objects | upload, scan, bind, move, trash, restore, purge | three crons and user handlers on the same rows, object store outside the transactions | only clean files are published, and keep their object; the tree has no cycles; what a business record refers to is not trashed |
| Task scheduler (`api/task`) | `scheduled_tasks`, BullMQ jobs | create, update, pause, resume, run, delete; worker events | two stores and no transaction over them; event listeners that nobody awaits | a live row has its job, a paused or deleted one has none |
| Profit sharing (`api/profit-sharing`) | shares, clawbacks | calculate, claw back, reconcile, settle, edit | events that get lost, cron against events, no transaction | an order is shared once, and clawed back for what was refunded |
| Orders (`api/order`, `api/order-refund`) | benefit period | freeze, unfreeze, extend | read-then-write | no day is lost or won |
| Stripe synchronisation (`api/stripe`) | orders, refunds | webhook, retrieval of one object, history jobs | events that meet, come twice, late or out of order | a payment makes one order; in the end the rows say what Stripe says |
| Token caches (`api/wechat-shop`, `api/wecom`, `api/lark`) | cached remote tokens | get, refresh, change of settings | settings change during a fetch | a token is used with the application it belongs to |
| Permissions (`api/admin/permission`, `role`) | roles, rules | check | pure | delegated scopes only narrow |
| Other business modules (organizations, members, users, projects, skills, meetings, minutes, channels, integrations, API keys) | rows | CRUD, webhooks | mostly single rows | - |
| Adapters (mail, SMS, LLM, MCP), infrastructure, admin web app, docs | none or none of their own | I/O | - | - |

Interactions: the guard of every request (`api/auth/guards/unified-auth.guard.ts`)
asks the JWT strategy, and for OAuth tokens also the client row, so the sessions
and the OAuth clients decide together who gets in. Mail, notification and
refund events go through BullMQ or an outbox table. Drive, scan and cleanup share
rows and the object store. Orders raise the events profit sharing consumes.

`PROJECT.json` lists each component with its status, and each hazard at its line
with the properties that cover it, or why none does yet.

## 2. Plan and where it stands

1. `OAuthGrant` against the abstract `ConsentLedger`, with proofs. **Done.**
2. `Session`: refresh tokens, blacklist, mark, with proofs. **Done.**
3. `Outbox`: claims, stale claims, the bound on attempts, liveness; proofs of the
   stored outcomes and, by counting runs, of the deliveries and attempts. **Done.**
4. `DriveUpload` (session, completion, scan, cleanup; the object store and BullMQ
   are external) and `DriveTree` (moves, trash, purge, binding), with proofs.
   **Done.**
5. `ProfitShare` and `OrderBenefit`: an order's shares, clawbacks and benefit
   period, with proofs. **Done.**
6. `OtpCode` and `TaskScheduler`, with proofs. **Done.**
7. `StripeSync`: webhook against retrievals and history jobs, with proofs. **Done.**
8. Left: the token caches of the connectors across a change of settings, the
   payslips of profit sharing, and the permission modes as pure operators.

## 3. Modules

| module | what it is |
|---|---|
| `OAuthGrant` | the authorization server and the administration of its clients |
| `ConsentLedger` | what one consent may go through, with nothing of the implementation |
| `OAuthGrantProofs` | `Inv` is inductive; `OAuthGrant` implements `ConsentLedger` |
| `Session` | the sessions of one user |
| `SessionProofs` | no session is lost; logouts hold |
| `Outbox` | the outbox of security notifications and the cron runs that deliver it |
| `OutboxProofs` | stored outcomes are true; deliveries and attempts are accounted for |
| `Mishaps` | the history set of rare things that the next modules share |
| `DriveUpload` | one upload: requests, scan job, cleanup |
| `DriveUploadProofs` | only clean files are published; a verdict stands; a published file has its object; an upload that is over leaves none behind |
| `DriveTree` | the folders and files of one space |
| `DriveTreeProofs` | what is bound stays out of the trash; the purge is harmless; nothing is left below the trash; the tree stays a tree |
| `ProfitShare` | the commission shares and clawbacks of one order |
| `ProfitShareProofs` | nothing is taken back twice; shares are neither lost nor doubled; a reconciliation covers what it is for |
| `OrderBenefit` | the benefit period of one order |
| `StripeSync` | one payment at Stripe and the orders and refunds stored for it |
| `OrderProofs` | `OrderBenefit`: the adjustments account for the order, frozen time is given back; `StripeSync`: one order, and rows that say what Stripe says; the types of `MCOrder` |
| `OtpCode` | the verification codes of one target |
| `TaskScheduler` | one scheduled task, its job and the worker's events |
| `RecordsProofs` | `OtpCode`: a code is accepted once, the newest code works; `TaskScheduler`: what the row of a task shows is what the queue will do; the types of `MCRecords` |
| `MCOAuthGrant`, `MCSession`, `MCOutbox`, `MCDriveUpload` | one module for TLC each |
| `MCOrder` | `ProfitShare`, `OrderBenefit` or `StripeSync`: they share no state, `part` says which |
| `MCRecords` | `DriveTree`, `OtpCode` or `TaskScheduler`, likewise |

A definition whose comment begins `(Name: ...)` has beside it a variant of that
name with the slip the comment describes. Nothing uses the variants; replacing the
definition by its variant makes TLC refute a property (`mutants` in `PROJECT.json`),
which shows that the property is about that line.

### OAuthGrant

State: the four tables (`client`, `request`, `code`, `token`) as committed rows,
and for every handler (`http`, `admin`) where it stands and what it has read. One
action is one stretch of code from an `await` to the next, as far as it sends at
most one statement another handler can tell apart. `approveAuthorizationRequest`
is a read (`ReadRequest`) and a transaction (`Approve`, `DecideTooLate`);
`exchangeCodeForTokens` is `Authenticate`, `ReadCode` (`DropCode` for an expired
one), `TakeCode` (the `deleteMany` that must count 1, and the read of the client)
and `CommitExchange`; `refreshTokens` is `Authenticate`, `ReadToken`, `Rotate`,
`CommitRotate`; a token that is revoked or expired when it is read has its family
revoked in two steps (`RevokeFamily`, `FamilyRevoked`). The administration reads
outside its transaction (`AdminRead`), locks the client row
(`AdminUpdateClient`), in `disable` goes on to codes and requests
(`AdminDeleteCodes`, `AdminConsumeRequests`) and commits (`AdminCommit`).

PostgreSQL is modelled as the code relies on it. An `UPDATE` finds its rows in the
committed state (a set kept in the handler's record), waits for the locks on
them, and then affects those that still satisfy its condition. A row lock is not
a variable: `CodeHeld`, `TokenHeld` and the row sets of `admin` follow from where
the handlers are. Writes show at commit; `Abandon` and `AdminAbandon` are the
dropped connection, the crash and the rollback. `RotateTooLate` writes nothing:
the revocation in that branch is undone by the exception on the next line.

An access token is represented by the version and the scopes of the row it was
signed with; `Accepted` is what the guard asks of its client. PKCE, redirect
URIs, client secrets, permissions and membership are one choice, `InvalidInput`:
each refuses a request without a write. System clients and audit rows are left out.

### Session

State: `refresh_tokens` of one user (users share nothing here), the access tokens
that have not expired by their `iat`, the Redis keys with the times they expire,
the per-process fallback maps, and each handler's progress. Time is counted in
ticks, `Second` of them to a second, because tokens carry whole seconds
(`iat`, `exp`), the mark milliseconds, and the Redis TTLs are rounded down
(blacklist) and up (mark). `Login`, `RefreshRead`, `RefreshSign`, `Insert` and
`RetireOld` are `generateTokens` and `refreshToken` from await to await: signing,
insertion and retirement are separate, and `Fail` may stop a handler before any of
them. A logout is `BeginLogout`, `TakeTtl`, `Blacklist` or `BlacklistLocally`,
`DropToken`, `ClearDevice`; from all devices it is `BeginLogoutAll`, `DropToken`,
`RevokeAll`, `TakeMarkTime`, `SetMark`. `RevokeSession`, `RevokeOthers` (which also
stands for the revocation in changes of password, email and phone) and
`ResetPassword` are single statements. `Accepted` is the JWT strategy with Redis
at hand; `AcceptedOffline` is what a process may accept when a command fails.
`root`, `closed`, `gone`, `cut` and `crossed` are history variables: no action reads them.
Credentials, lockout, registration and login logs are left out.

### Outbox

State: the rows of `security_notification_outbox`, and for each run of
`processPending` where it stands and what it has read. Every process runs the cron
each minute and nothing keeps a run from starting while another is under way, so
`Run` is the number of overlapping runs, in one process or several. A run is
`Recover` (the update that takes back stale claims), `Find`, and for each
candidate `Claim` or `Skip`, `Read`, `Deliver` or `DeliveryFails`, `MarkSent` or
`MarkFailed`, and `Finish`: from await to await. `MarkSentFails` is the update
that throws inside the `try`, after which a message that went out counts as
failed. Neither outcome is guarded by the claim: `Store` writes over whatever the
row has become.

Times are kept as the answers the code asks of them. `due` is `nextAttemptAt <= now`
(`BecomesDue`); `stale` is a claim older than ten minutes. A claim carries the time
its run began, not its own, so staleness belongs to the run: `Age` makes a run old
together with the claims it has made, and an old run's further claims are stale
at birth. `Die` is the crash of the process, or a throw outside the `try`
(decryption and the lookup of the channel are inside it and count as
`DeliveryFails`); the claim it leaves behind grows stale by `OrphanAges`.
`Enqueue` is the `createMany` in the transactions that change email or phone. The
mail and SMS services are external: a call ends with the message out, or throws
with the message out or not. `sent` and `recovered` are history.

### Mishaps

Outside of OAuth and sessions, most code keeps its promises only as long as certain
things do not happen: two requests that meet, a process that dies, a query that fails.
`Mishaps` has the operators to record each kind of them in a set no action reads (except
to bound it). A property then says which kinds break it, and claims to hold under every
other kind the run allows. So the properties of these modules are the list of what the
code does not guard against. Nearly every exception is needed: without it TLC finds a
violation, with one kind of mishap, or, for `{"resume", "run"}`, `{"create", "pause"}`
and `{"pause", "resume"}` of a task and for a clerk in `ReconcileCovers`, with two kinds
together, and for `{"edit", "update"}` in `PausedIsOff` with three. Of
`{"uncalculated"}` in `ReconcileCovers` it finds one with the amounts given below, not
with those of the cfg. The others are cautious: no violation is known of a recalculation
that meets a reconciliation, a settlement or another recalculation in `ReconcileCovers`,
nor of requests that meet in `FrozenTimeGiven`, as long as a request is over within a
tick.

### DriveUpload

State: the `upload_sessions` row (`upload`, `due`), the `file_versions` row
(`version`), the multipart upload and the object in the bucket, what was uploaded
(`content`), the scan job, and where every request, cleanup and worker is. A
request that completes the upload is `CompleteRead`, `ProviderComplete`,
`MarkVerifying`, `CheckObject`, `StoreGraph` (one transaction), `Enqueue`, with the
`catch` block as `Fail`, `MarkRejected`, `DeleteRejected`, and the error path of
the queue as `FindVerifying`, `RejectFailed`. An abort and the daily cleanup share
`AbortMultipart`, `Erase`, `MarkExpired`; both act on the status they read
(`proc.read`), as the code does. The scan is `TakeJob`, `FindVersion`,
`ScanObject`, `Recheck`, `StoreVerdict`; `ScanFails` counts the attempts and goes
to `markFailed` after the last. BullMQ is external: a job runs under a lock that
may run out (`Stall`), in which case it goes back to waiting `MaxStalls` times and
then fails, and a worker that has lost its lock cannot end the job. The answers of
the object store, of the queue, of the transaction that stores the version and of
the one that stores the verdict may be lost.

### DriveTree

State: `drive_nodes` (`node`, `parent`), the files bound to a business record, and
for every handler the operation with what it has read. Each statement is a step:
`MoveWalk` is one ancestor of `assertNotDescendant`, `TrashCollect` and
`RestoreCollect` one level of `collectSubtreeIds`, `PurgeGather` and
`PurgeDescend` one level of `collectDeletedSubtree`. The writes go by id. The
foreign keys are `Referable` (a parent must exist) and the second conjunct of
`PurgeWrite` (a node with children cannot be deleted). Names, permissions and
failing statements are `Quit`.

### OtpCode

State: the rows of `verification_codes` in the order of creation, the row of
`code_send_limits`, and the requests. A send is `CheckSendLimit`, `CreateCode`,
`DeliverCode` (external; it may fail, then `DeleteCode`),
`InvalidateActiveCodes`, `ReadSendLimit`, `CountSend`; a verification is
`FindLatest`, `IncrementAttempts`, `MarkUsed`. `expired` says which codes are past
their five minutes, `HourPasses` ends the window of the send limit. The limit per
address and day is left out.

### TaskScheduler

State: the row of `scheduled_tasks`, and in the queue the job scheduler, the job
with the task's id, and the job of `runNow`. BullMQ, which is external, keeps one
iteration ahead of a scheduler: it is delayed until its time comes (`IterationDue`),
then it waits for the worker, in a paused queue too, and `StartJob` makes the next
one as it takes it. `upsertJobScheduler` replaces a scheduler with its iteration;
`removeJobScheduler` (`DropScheduler`) takes away a delayed iteration and leaves one
that waits, which `left` counts. A request does the queue's part
(`RemoveJob`, `AddJob`, `PauseQueue`) and the row's part (`WriteRow`) one after the
other, in the order of its method; `RollBack` is the deletion of a row whose job
could not be created. `StartJob` and `FinishJob` are the worker, and emit events
whose listeners (`FindTask`, `TellStatus`) nobody awaits. An update by id does
nothing to a row that is gone (`Update`); the model follows one row, so what is
created after a rollback is another task. Of failing statements
only those of the queue are modelled, and the death of the process. A failing
update of `jobId` in `createOnce`, which deletes the row and leaves the job, is not.

### ProfitShare

State: the refunds and `profit_share_records` of one order under one percentage
rule with one member, and for every run what it has read. `FindRecords`,
`SumClawbacks`, `AddClawback` are the loop of `handleRefundClawback`, which the
event of a settled refund (`SettleRefund`), the reconciliation (`Reconcile`,
`CheckShares`) and a recalculation (`Recalculate`, `WeighLocked` for a locked
order) all run; `ReadOrder`, `PublishShares` are `calculateProfitShare`, and
`DeleteUnsettled` what a recalculation deletes before. Of settled refunds no event
tells if Stripe settled them (`SyncSettled`, which is also a settled refund that
`update` connects to the order) or if their amount is edited (`EditRefund`); the
two become known to the reconciliation or a recalculation only. `Die` is the death
of the process or a failing query, and `CatchFailure` the one failure the
reconciliation catches, that of `calculateProfitShare`. `SettleDue` is the
settlement cron, `ClerkRead` and `ClerkWrite` the operations on single records and
on a member's pending ones. Amounts are integers with the rounding of the code:
a share, and what `generateRecordsForOrder` takes back, is rounded from the ratio
(`Earns`), what `handleRefundClawback` takes back from the share (`Portion`), and
the months of a share are rounded down (`MonthlyShare`). The two ways can differ by
a unit: of an order of 10003 at 15 %, whose share is 1500, a refund of 5011 costs
752 by the first and 751 by the second. Quotients are exact where
the code computes in doubles. A clawback is stored as a positive number here. A sum
of amounts counts their units (`TotalOf`), which makes it a cardinality the provers
can reason about. A clawback written by `handleRefundClawback` is limited to the
row's amount (`Math.min(1.0, ...)`, `Least`), one written by
`generateRecordsForOrder` (`TakenBack`) is not, so refunds that exceed the order
take back more than was earned, and `Owed` says so. `Owed` is the larger of the two
roundings.
Nothing in the repository emits `order.financial_closed`, so the event handler that
recalculates on it is reached through the endpoint only.

### OrderBenefit

State: status, end, `frozenAt` and `frozenDays` of one order, its adjustments, and
the requests with the order they read. An order may be created without an end
(`FirstEnd`): it cannot be frozen, and is extended from the time of the extension
(`CurrentEnd`); no update makes an end null again, since `toDate(null)` is
`undefined`. `Ask...` is the read with its checks;
`Freeze`, `Unfreeze`, `Extend` are the transaction that writes absolute values
computed from that read. `Edit` is `update` and `updateStatus`. Time is in ticks,
`PerDay` to the day, and `DaysOf` is the `Math.ceil` of the code.

### StripeSync

State: what Stripe has (`stripe`) and the events it sent, which are external; the
rows of `orders` under the three kinds of `externalId` a payment can be stored with,
and of `order_refunds`; and each webhook call, endpoint or job with the state it
received or retrieved. An order is `Deliver` or `SyncOrder`, for a charge `Retrieve`
(which falls back on the charge itself when Stripe does not answer), `FindOrder`,
`StoreOrder`; a refund is `Deliver` or `ListRefunds` and `PickRefund`, `LinkOrder`,
`UpsertRefund`. An event is delivered again until it is answered, and may be after.
The unique index on `externalId` includes the channel, which is null here, so the
database lets two orders of one payment in. Operators' changes of the orders, the
purchaser, and pages after the first are left out.

## 4. Runs

| run | asks | bounds |
|---|---|---|
| `oauth_rotation` | can two handlers and an administrator spend a code or token twice, exceed a consent, revive a refused access token, or leave the ledger? | 1 client, 1 consent, 4 tokens (first token, successor, and one for each handler in flight), 2 scopes, 2 handlers, 1 administrator, versions up to 3 (two bumps) |
| `oauth_liveness` | does every request end, whatever locks are waited for? | 1 client, 1 consent, 3 tokens, 2 handlers, 1 administrator |
| `session_races` | can racing refreshes, logouts and failures lose a session, or bring one back? | 3 rows (a login and two concurrent refreshes of it), 2 handlers, 2 logouts, from all devices or not, 4 rows and logouts together, a second of 2 ticks, tokens of 1 s, 5 ticks: longer than a token and its mark last |
| `outbox_deliver` | is every notice settled, truthfully, and what may be repeated? | 2 overlapping runs, 2 notices, batches of 1 (so that a notice waits for the next run), 2 attempts (a first and a last), 1 run that dies and 1 that is slow |
| `drive_upload` | what can be published, lost, left behind, overturned or never decided? | 2 requests, 1 cleanup, 2 workers, 2 attempts, 1 stall, any two kinds of mishaps |
| `order_accounts` | when is an order charged twice, a share lost or doubled, the benefit period wrong, or a payment stored twice or out of date? | 2 modules (one refundable) that earn 17/20 of an order of 4, a share that is rounded (3.4 to 3), 2 refunds (3 and 4, together more than the order; the second may be edited to 3), 2 event handlers, 2 batches, 2 rows alike, one kind of mishap; 2 operators, days of 2 ticks, 4 ticks, 4 adjustments, an order with an end or without; 1 payment with 1 refund, 2 syncs at a time, up to where two of one object meet (`SyncsApart`; both properties except that) |
| `records_rows` | which meetings make a cycle, trash a bound file, accept a code twice, or leave row and queue disagreeing? | tree: 2 folders (one to be created), 1 file, 2 requests, 1 purge, two pairs of operations that meet; codes: 2 sends and 2 verifications at a time, 3 codes, 2 tries, 2 sends an hour, one kind of mishap; task: 2 requests, 2 listeners, 2 iterations left without a scheduler, one kind of incident |
| `oauth_reuse`, `session_expired`, `drive_overlap`, `order_refunds`, `records_triggers` | does the code do what the quoted sentence says? | the smallest instance that answers |

One mishap is enough for a property to fail if it does not except that kind, and two
show that no two of the others do it together where the state space allowed that. The
task and the synchronisation were also checked with two kinds of mishaps. The properties
of the modules after `Mishaps` are about pairs of activities, so two of each are enough
for every pair to meet, one with another of its own kind included. In TLC the shares of
`ProfitShare` are spread over a single month; a module of several months compares every
month's row with what was taken back for all of them (`SumClawbacks`), which makes it
fall short in the way `order_refunds` shows.

The passing runs check, besides types:

- `OneTokenPerConsent`: no two usable refresh tokens of one consent, however
  exchanges, rotations and retries race.
- `ConsentBoundsTokens`: every token belongs to the client, and keeps within the
  scopes, its user consented to.
- `RefusedForGood`: an access token the guard refuses is never accepted later,
  not even one signed during the disabling.
- `KeepsLedger`: every behaviour, read off the rows, is one of `ConsentLedger`.
- `Inv`: the inductive invariant of the proofs, in `OAuthGrant` and in `Session`,
  of which the types are a part.
- `HandlersFinish`: every request is answered.
- `NeverStranded`: a session the user has not ended keeps a row that can be
  refreshed, because a successor is inserted before its predecessor is retired.
- `LogoutAllHolds`, `LogoutHolds`: what a successful logout has revoked is not
  accepted again while it lasts (a blacklisted token up to the last second, since
  the TTL is rounded down), after further logouts either. The exception of
  `LogoutAllHolds` is in its formula (`crossed`): when one logout from all devices
  takes its time while another is about to set the mark, the older time may be set
  last, and a token signed in the milliseconds between is accepted again.
- `OneDeliverer`: two runs deliver one row only after a stale claim was taken back,
  and never more of them than that explains.
- `AttemptsAccounted`: no attempt sends twice, and attempts exceed
  `MAX_DELIVERY_ATTEMPTS` only by the claims taken back. The excess is real: a run
  that dies in its last attempt leaves a row that is claimed once more.
- `OutcomeTrue`: SENT means the message went out, FAILED that all attempts were
  made, even when the run that stored it was late and the row no longer its own.
- `Settles`: every notice is SENT or FAILED in the end.
- `OnlyCleanPublished`: no mishap whatsoever publishes a file that is infected or
  failed the checks of its format: `Recheck` and the lock order fail closed.
- `PublishedUnlessRaced`: a published version has its object, unless requests
  overlapped, the cleanup ran alongside, a verdict was replaced, or the answer to
  the transaction that stored it was lost: then `persistedVersionId` is null, and
  the `catch` block deletes the object of a version that is there.
- `VerdictStands`: a verdict is replaced only by a stalled scan, a scan beside a
  cleanup, or the job of a request that believed it was not queued.
- `NothingLeftBehind`, `VersionDecided`: what it takes for an object to stay for
  ever, and for a version to stay in VERIFYING for ever: an abort, overlapping
  requests or cleanups, or that lost answer, which leaves a `REJECTED` session and
  a version without a job.
- `NeverOverClawed`: the member never pays back more than the settled refunds come
  to (rounded either of the two ways), unless activities that write clawbacks met,
  or records or refunds were taken back or lowered by hand. The settlement and the
  clerk may meet anything.
- `SharesIntact`: when nothing is calculating each module's share is there once.
- `ReconcileCovers`: a reconciliation that comes to its end makes up for what no event
  told of (`SyncSettled`, `EditRefund`) and for events, handlers, batches and
  recalculations that died on the way; deaths are not excepted. Excepted are refunds,
  clerks and recalculations that met a reconciliation, anything that met a
  recalculation, and shares it could not calculate (`{"uncalculated"}`): of an order of
  10 at 15 % with refunds of 8 and 1, when the calculation fails at the first and
  succeeds at the second, what that calculation takes back for both leaves the row a
  unit short of what the first asks.
- `BenefitAccounted`: the adjustments form a chain from the first end (or, for an order
  that had none, from the time of the first adjustment) to the present one, and
  `frozenDays` is what they gave.
- `FrozenTimeGiven`: time frozen is given back, rounded up once for each unfreezing.
- `OneOrderPerPayment`: a payment makes one order however its events and
  retrievals follow on each other, unless two of them met.
- `SyncedWhenQuiet`: when every event is answered the rows say what Stripe says,
  whatever failed and was sent again, unless an older state came after a newer one.
- `NoCycleUnlessMoves`, `ReachableUnlessMet`: the tree stays a tree, and nothing
  active is below the trash, unless two moves met, or a trashing met an operation
  that puts something there.
- `BoundKeptOutOfTrash`, `PurgeHarmless`: what a business record refers to is not
  trashed, and nothing is purged but what is in the trash, unless operations met.
- `AcceptedOnce`, `NewestWorks`: a code is accepted once and not after the last try;
  the code a user was last told of works.
- `ScheduledWillRun`, `PausedIsOff`, `DeletedIsOff`, `NotLeftRunning`: what the
  row of a task shows is what the queue will do. The exceptions of `PausedIsOff` and
  `DeletedIsOff` include `{"left"}`: an iteration waited when its scheduler was
  removed, or a job of `runNow` when its task was. `DeletedIsOff` is about all that
  can be in the queue, waiting iterations and the job of `runNow` included, and
  excepts a removal that met a request to run the task now.

The violation runs show (quotations in `PROJECT.json`):

- `oauth_reuse`: reuse found by the conditional update does not revoke the family.
- `session_expired`: `refreshToken` never looks at `expiresAt`.
- `drive_overlap`: of two overlapping completions, the loser fails at the provider,
  which completes an upload once, and its error path marks the session `REJECTED`
  although the winner publishes the version. A later abort or cleanup of the
  rejected session deletes the published object.
- `order_refunds`: two partial refunds are clawed back by the larger one only.
- `records_triggers`: a paused recurring task whose run fails shows SCHEDULED and
  has no scheduler.

Six more disagreements are stated as definitions without a run of their own, and TLC
refutes each when it is named in the cfg given here: `DisablingRevokes` and
`ScopeChangeBumps` (`MCOAuthGrant_reuse.cfg`: a rotation that overlaps `disable` inserts
a refresh token it does not revoke; two overlapping updates change the scopes without
raising the version), `AllRefreshTokensEnded` and `PasswordResetEndsAccess`
(`MCSession_expired.cfg`: a refresh under way survives a logout from all devices; a
password reset leaves the access tokens in force), `OneOrderWhateverMeets`
(`MCOrder_accounts.cfg` without its constraint: `upsertOrder` is called an idempotent
write, and two of the three events Stripe sends for a payment each find no order and
create one), and `SharesOnce` (`MCOrder_refunds.cfg` with `Refundable = {}`: under a
rule without a refundable module each nightly reconciliation of a refunded order creates
the shares again, since it looks for refundable ones).

`outbox_deliver` checks for deadlock, as cron never stops. The other runs say
`CHECK_DEADLOCK FALSE`: their ids and times are bounded, so an instance stops when
they are used up.

Symmetry is used for safety only; `oauth_liveness`, `outbox_deliver` and
`drive_upload` have none.

## 5. Fairness

`FairSpec` of `OAuthGrant` (run `oauth_liveness`): strong fairness of each handler's and
each administrator's steps. Node's event loop runs every continuation that is ready, and
PostgreSQL grants a row lock to its waiters in order, so that a lock freed again and
again is obtained; weak fairness would let others take it for ever. No fairness for
starting a request, for expiry or for a crash. `HandlersFinish` holds since a handler
locks one row and waits for nothing while it holds it, and an administrator waits only
for handlers and for the administrator ahead of it.

`FairSpec` of `Outbox` (run `outbox_deliver`): weak fairness of the steps of each
run, since statements and calls to the services end; of `Recover`, since
`@Cron(EVERY_MINUTE)` starts runs for ever; and of `OrphanAges` and `BecomesDue`,
since time passes. None for `Enqueue`, `Die` and `Age`. `MaxDeaths` and `MaxSlow`
bound how often runs die or are slow: with a death in every attempt no notice
would settle. Weak fairness is of a run's steps taken together, so which notice of
the batch comes next, and whether a delivery ever succeeds, is left open: `Settles`
holds with services that always fail, by way of FAILED.

`UploadFairness` of `DriveUpload` (run `drive_upload`): weak fairness of what a
request has begun, of the workers, of the cleanup (`@Cron` runs it every day, and
a cleanup that finds the row due takes it), and of `PassExpiry`, since a day passes. None
for beginning a request, for `Stall` and for deaths. `VersionDecided` rests on it:
a job that is lost is not run again, and it is the cleanup that decides the version.

## 6. Proofs

`OAuthGrantProofs` proves for any sets of clients, requests, tokens, scopes,
handlers and administrators, from `NoneAssumption` and `MaxVersionAssumption`:

- `Invariance`: `Spec => []Inv`. None of the properties is inductive alone. For
  single use one needs that a handler that holds a code or a token has it still
  to spend (`HandlerSound`), that no two hold the same (`LocksExclusive`), that
  what an administrator is about to take away is nothing a handler holds
  (`AdminSound`), and that a code is gone before the first token of its consent
  appears (`ConsentsSound`). For versions: no stored or half-signed token is ahead
  of its client, and one at the client's version finds it active
  (`VersionsSound`). Most actions are instances of three lemmas: `HandlerMoves`
  and `AdminMoves` (no row changes) and `RowsMove` (rows change, a handler ends).
- `TypeCorrectness`, `SingleUse`, `ConsentRespected`: parts of `Inv`.
- `RefusalIsFinal`: `RefusedForGood`, from `VersionsSound` and the lemma that
  stored tokens keep client and version while the client's version only grows.

It also proves `LedgerKept`, `Spec => KeepsLedger`: creation, approval
and exchange map to `Ask`, `Approve` and `Redeem`, rotation to no step since the
successor takes its predecessor's place, and all the rest to `Withdraw` of some
consents or none (`Shrinks`).

`SessionProofs` proves for any sets of handlers (finite)
and processes, any numbers of rows, any length of a second and of a token's life,
from the `ASSUME`s of `Session`:

- `Invariance`, `TypeCorrectness`: `Spec => []Inv`. `NeverStranded` alone is not
  inductive: retiring a row is safe because its successor is there
  (`SuccessorFirst`), and rows are named in the order of their insertion
  (`InOrder`), so what stays valid is the newest row of the session
  (`NewestValid`), which no handler retires.
- `NoSessionLost`: `NeverStranded`, since a session that has rows has a newest
  one (`LastRow`, from the well-foundedness of `<`).
- `LogoutAllFinal`: `LogoutAllHolds`, for any number of logouts. The mark carries
  the latest time of a successful logout, and its key outlives every access token
  signed up to then (`MarkOutlives`). As long as no two have crossed, one handler
  at a time is about to set it, with a time that is not before that of the mark
  (`MarksInTurn`), so the next mark refuses all that the last one did.
- `LogoutFinal`: `LogoutHolds`. The TTL is taken before the key is set and rounded
  down, so the entry may go within the last second, and not earlier
  (`BlacklistLasts`, `RoundedDown`).

`OutboxProofs` proves for any notices and bounds and any finite set of runs, from
`OutboxAssumption` (finitely many processes are running):

- `Invariance`, `TypeCorrectness`: `Spec => []Inv`.
- `OutcomesTrue`: `OutcomeTrue`. It is not inductive: a late run stores an outcome
  into a row that others have changed meanwhile. `RunsKnow` adds what the run
  relies on and no other run can undo, because attempts and messages only grow:
  what it read is not more than the row has by now, and when it is about to store
  SENT it has sent. Steps that leave the rows alone are instances of `RunMoves`,
  steps that change them of `RowsChange`.
- `AccountsHold`: `Accounts`, which counts the runs at a row. `OneDeliverer` needs
  next to the runs the row that waits (`Waiting`), for a claim turns one into the
  other. `AttemptsAccounted` needs the runs that have not called the service yet
  (`Unsent`: each may send once more) and those that may put the row back
  (`Returners`: they have seen fewer attempts than the last). From the last
  attempt on, attempts, returners and the waiting row together are covered by the
  claims taken back; at the attempt that reaches the last, it is the number of
  deliverers that covers them. `OneDelivererHolds` and `AttemptsAccountedHold`
  follow.

`DriveUploadProofs` proves for any requests, cleanups and workers and any numbers
of attempts, stalls and mishaps, from `UploadAssumption`:

- `UploadInvHolds`: `UploadInv`. Types alone do not keep an infected file from
  being published; one needs that a request past `CheckObject` has a file of its
  format, that a version is there only after it, and that a worker that brings a
  clean verdict has scanned a clean object (`Screened`). `QueuedOnce` adds that the
  job is queued once unless a request believed it was not, and that a job that
  waits or was taken has an attempt left.
- `UploadTypesHold`, `OnlyCleanPublishedHolds`: parts of it.
- `VerdictStandsHolds`: `VerdictStands`, from one invariant more: as long as nothing
  raced or stalled there is one worker or request that may still write a verdict, and
  the version is undecided as long as there is (`Solo`).
- `PublishedUnlessRacedHolds`: `PublishedUnlessRaced`. Without overlaps, and as long
  as a request that has stored a version knows of it, one request or
  cleanup is under way at a time (`Alone`). A cleanup or an abort acts on the session's
  status as it read it, and which of its paths erases the object depends on that, so
  the invariant relates that status to the version's: an open session has no version,
  a `REJECTED` one none that is not rejected, a `VERIFYING` one none that is `ACTIVE`;
  and what is about to be erased belongs to no version that may yet be published
  (`Backed`). `Solo` is needed once more, for the scan that decides meanwhile.
- `NothingLeftBehindHolds`: `NothingLeftBehind`. The session is marked `EXPIRED` last,
  so whoever is about to mark it must have found no object or erased it; an open
  session has an object only while the request that completed it has still to mark
  it (`Cleared`). Stalls and late jobs do no harm here.

`DriveTreeProofs` proves for any folders, files and handlers, from `TreeAssumption`:

- `TreeInvHolds`: `TreeInv`. `met` grows whenever two operations overlap
  (`Meetings`), so an operation that has met none of the kind that would disturb it
  still sees the rows it read: what a trashing collected is not bound, what
  a purge collected is in the trash and not bound (`Sound`).
- `TreeTypesHold`, `BoundKeptOutOfTrashHolds`, `PurgeHarmlessHolds`: from it.
  `TreeTypesHold` includes the foreign key: each parent of a row that is there is
  there.
- `ReachableUnlessMetHolds`: `ReachableUnlessMet`, from `HungInv`. What a handler
  collected relates to what is active now (`Hangs`): all that is active below what a
  trashing has seen is in what it has seen or comes next, the rows a restore will
  write have their parents among them or above in the tree, and where something is
  to be put still stands (`Standing`).
- `NoCycleUnlessMovesHolds`: `NoCycleUnlessMoves`, from `RootedInv`. A cycle is a set
  of rows with all their parents among themselves (`Knot`), so nothing is said of
  paths and their lengths. What a move has walked is a way up from its destination
  that does not meet what is moved (`Walked`), and stays one, because everything
  else that changes a parent changes a file's, or creates a row nothing is below:
  a knot that the move would tie has to lie on that way, which ends at the root.

`ProfitShareProofs` proves for any modules with any numbers of months, any
amounts, refunds, event handlers and batches, from `ProfitAssumption`:

- `ProfitInvHolds`: `ProfitInv`. Rows have ids of their own and the amounts of their
  months, and what a run has still to look at are rows that could be refunded when
  it read them (`Shapes`, `RowsOK`); a run of each job is where that job can be
  (`PlacesOK`); and jobs which are under way together have met (`Meetings`), which
  is what the rest is stated under. The clerk makes no clawbacks, and what it is
  about to cancel or delete is recorded (`ClerkOK`).
- `ProfitTypesHold`: from it.
- `NeverOverClawedHolds`: `NeverOverClawed`, from `ChargedInv`. As long as nothing
  charges twice there is one run at a time that may write a clawback; the refund it
  charges is settled, no more has been taken back than it has read,
  and a calculation finds no clawback and has read no more refunds than are settled.
  Rounding is monotone (`Portion`, `Earns`), so one refund's part of a row
  is no more than all refunds' part of the module.
- `SharesIntactHolds`: `SharesIntact`, from `SharesInv`: unless one is calculating,
  the rows of a module are either none or each month's once. That these add up to
  the share (`WholeSum`) is a bijection of their units with those of the share: all
  months but the last have as many, and the last has what is left.
- `ReconcileCoversHolds`: `ReconcileCovers`, from `CoveredInv`. A row is covered
  for a refund once its module's clawbacks are at least the target (`Secured`); for
  each row and settled refund a reconciliation that goes on has covered it, or has
  the refund still in its list, or has the row still in the list of the refund it
  is at (`Coming`, `Covering`). What is covered stays covered, since without those
  incidents clawbacks only grow: a run that dies takes none of them along, and of a
  refund that Stripe settles or that is edited before the reconciliation began
  nothing is asked but that it is in the list. The shares are
  not assumed to be there: a reconciliation that finds none calculates them, and
  what the calculation takes back is at least what the refund in turn asks.

`OrderProofs` proves for any operators, any length of a day and any bounds,
from `BenefitAssumption`:

- `BenefitInvHolds`: `BenefitInv`. As long as nothing was disturbed at most one
  request is under way, and the order it read is the order (`Undisturbed`); the
  adjustments are a chain (`Chain`); and the days given back bound the time spent
  frozen before the present `frozenAt`, from below and, with a day for each
  unfreezing, from above (`Repaid`).
- `BenefitTypesHold`, `BenefitAccountedHolds`, `FrozenTimeGivenHolds`: from it.

and for any syncs, refunds and bounds, from `SyncAssumption`:

- `SyncInvHolds`: `SyncInv`. What Stripe sent was so when it was sent (`Sent`), and
  what a sync holds was so of its object, and is no newer than the latest state a
  sync began with (`Syncing`). The rest is said under what it needs. While no two
  syncs of an object met there is one at a time (`Alone`), so that the order it
  looked up, or did not find, is still what it would find (`Keyed`): that is all
  that keeps a payment to one order, with a session never stored under its own id
  (`Confirmed`) and no charge under its own (`NoCharge`). While none began with an
  older state than one before, what it writes is the latest (`InOrder`), so an
  answered event stays stored (`Stored`).
- `SyncTypesHold`, `OneOrderPerPaymentHolds`, `SyncedWhenQuietHolds`: from it.

`OrderTypesHold` puts the three together: whichever part a behaviour is of keeps
its invariant while it moves, and the others stand still.

`RecordsProofs` proves for any codes, senders, verifications and tries, from
`OtpAssumption`:

- `OtpInvHolds`: `OtpInv`. A code belongs to the send that created it and is not
  deleted by another (`Rows`); while no two verifications met, who verifies a code
  is alone, and has a code nobody has had accepted, with a try left (`Alone`);
  while no two sends met, all codes that live are below the newest or are the one
  being sent (`OneSend`).
- `OtpTypesHold`, `AcceptedOnceHolds`, `NewestWorksHolds`: from it. That a
  verification finds the newest code needs that codes have a last one (`LastCode`).

and for any administrators, listeners and incidents, from `TaskAssumption`:

- `TaskInvHolds`: `TaskInv`. Each of the four properties speaks of a task at rest and is
  false in between, so each has an invariant that says who is about to make it true.
  `Basics` says where a request of each kind can be, and that requests which are under
  way together have met (`Meetings`). A removal about to mark the row has taken the job
  out, and nobody is about to put it back (`DeletedOff`). What shows RUNNING runs or has
  a listener on its way (`ShownRunning`). A paused task that is triggered has a request
  about to write otherwise (`PausedOff`). An iteration without a scheduler was recorded,
  and no job of `runNow` waits or is about to be added where a task is removed
  (`LeftTold`). A scheduled one that is not has a request about to add its job, or to
  write otherwise, and what an edit will write back has not changed since it was read
  (`ScheduledOn`). Each is stated with the incidents its property excepts.
- `TaskTypesHold`, `DeletedIsOffHolds`, `NotLeftRunningHolds`, `PausedIsOffHolds`,
  `ScheduledWillRunHolds`: from it.

`RecordsTypesHold` says the same of the three components of `MCRecords`.

Every safety property of a passing run is stated by one of these theorems. Only
model-checked: liveness (`HandlersFinish`, `Settles`, `VersionDecided`), which is
beyond this prover, and the disagreements, which are counterexamples.

## 7. Not modelled

The components marked `not_modelled` in `PROJECT.json`, each with its reason: CRUD
over single rows, adapters with no state of their own, the user interface, and
what the plan has left. Most of the implementation's lines are of these kinds: two
fifths are the React application, and the API's other modules are controllers,
DTOs, mappers and queries with filters and pages, in which no state is kept
between two statements.

Within the modelled components: hashing, formats, audit and login logs, HTTP, and
the checks that refuse without a write. In particular: the drive's spaces, grants,
names, downloads, and stored objects shared by several versions; the scanners
themselves; the task handlers and their execution log; monthly fixed rules,
payslips, adjustments, holdings of several members and the statistics of profit
sharing; prices and products of orders.

Met while modelling, and outside of what a property here says: a refund that is
reverted gives no clawback back; a recalculation that dies between its `deleteMany`
and its `createMany` leaves an order without shares until the next one; a refund
above the order's amount is not clamped in `generateRecordsForOrder`, as it is in
`handleRefundClawback`; `collectDeletedSubtree` keeps no set of what it has seen
and would not end on a cycle that is in the trash; storing a Stripe payment again
sets PAID over an operator's FROZEN or COMPLETED.
