# Portal AI: a TLA+ model of the API's jobs, locks, syncs, seats and turns

Portal AI lets organizations connect data sources (REST APIs, spreadsheets),
sync them into entities, and work on them through web pages and an AI agent's
tools. This directory holds TLA+ modules that model the parts of the API
(`apps/api`) where concurrency and failure decide correctness, TLC
configurations that check them, and TLAPS proofs about them. Every definition is
translated from the source; `PROJECT.json` maps each one to its lines.

Paths below are relative to `apps/api/src` unless they say otherwise.

## 1. The system

One API process image runs as several replicas. Each serves HTTP and agent
turns, runs a BullMQ worker with two slots, and keeps timers. They share
PostgreSQL (rows, advisory locks; a pool of ten connections per process), Redis
(the BullMQ queue, pub/sub, rate windows), S3, and outside providers.

| Component | State | Operations | Hard part | What makes it correct | Here |
|---|---|---|---|---|---|
| Jobs: rows, dispatch, worker, cancel (`queues/jobs.worker.ts`, `services/jobs.service.ts`, `services/job-events.service.ts`) | `jobs` row, BullMQ entry, worker slots | create, dispatch, run an attempt, `failed` callback, progress, cancel | two stores without a transaction; stalls and re-deliveries; writers who do not ask what the row holds | one attempt budget; a row that is over stays over; a running job keeps its locks; every row ends | `JobLifecycle` |
| Stranded-job sweep (`services/job-reconciliation.service.ts`) | its snapshot of the row | find stale rows, look up the entry, reap | works on a snapshot beside live workers | fails only jobs the queue has lost | `JobLifecycle` |
| Re-dispatch (`services/job-redispatch.service.ts`) | pass position | flip the row, add to the new queue | interrupted passes, rollbacks, spent budgets | no job lost, none revived, one budget | `JobLifecycle` |
| Job lock (`services/job-lock.service.ts`) | advisory locks, `lock_scopes` | `withUnlocked`, `enqueueExclusive` | check-then-write over many keys in two modes | no write comes under a running job, nor a job under a write; running jobs do not overlap; lockers never deadlock | `JobLock` |
| Admission gate (`utils/admission-gate.util.ts`) | slots, FIFO queue | run, time out, abort, release | lost wake-ups, leaked slots | counts, FIFO per key, no idle slot | `AdmissionGate` |
| Lock gate (`services/lock-gate.service.ts`) | the two above and the pool | agent tool calls | two connections per call | every call ends, within its connections | `LockGate` |
| Sync and commit passes (`services/sync-lock.service.ts`, `queues/processors/connector-sync.processor.ts`, `layout-plan-commit.processor.ts`, `services/layout-plan-draft.service.ts`, `adapters/rest-api`) | session lock, watermark, records, the instance's status | wait or give way, fetch, write, reap, echo, roll back | two passes of one job at once; a source that changes; cleanup beside a live pass | a pass leaves exactly what it found; a commit that reads completed was done; a draft whose work failed is told | `SyncPass` |
| Cost gate (`services/cost-gate.service.ts`, `db/repositories/usage.repository.ts`, `queues/processors/bulk-geocode.processor.ts`) | usage aggregate, ledger, geocode cache | admit, run the work, commit a charge | nothing is reserved; a rerun commits again | balance within the allocation; ledger is the charged work | `CostGate` |
| Portal turns (`services/portal-turn-guard.service.ts`, `routes/portal-events.router.ts`, `services/portal.service.ts`) | messages, a Redis key with TTL per pending message | post, stream, wait, replay, answer, reset, bulk notice | reconnects over several processes, TTL expiry, Redis failures | one turn of a message at a time; no replay of an exchange that was over; every stream ends | `PortalTurn` |
| Seats (`services/seat.service.ts`, `db/repositories/invitations.repository.ts`, `user-roles.repository.ts`) | memberships, role rows, invitations, the seat lock | invite, accept, revoke, resend, remove, set roles | counts and writes over three tables, some without the lock | the seat cap; an owner stays; a link seats one user | `Seats` |
| Organization delete, token caches, job waiters and the SSE stream, agent-turn ceiling | | | | | not modelled (section 7) |
| Billing, tiers and grants; bulk transform, token bucket; file uploads; wide tables; curated views; dissolve and map tiles; revalidation; entity delete; provisioning; portal SQL; permissions; tools and analytics; maintenance purges | | | | | not modelled; `PROJECT.json` gives the reason for each |
| Web and site front ends, core models, spreadsheet parsing, CLIs, infrastructure | | | | | not modelled |

How they interact: routes, agent tools and processors start jobs through
`JobsService.create` or, when the job locks data, through
`JobLockService.enqueueExclusive`, which inserts the row in its transaction and
dispatches after commit. A job's row being non-terminal *is* its lock: every
writer looks for such rows under the advisory locks. So the lock is released by
whoever writes a terminal status: the worker, a cancel, the sweep, a failed
dispatch. Nor need it stay released: these writers ask neither what the row holds nor
for an advisory lock, so a worker can bring a row back that a cancel had ended.
`JobLifecycle` says when either happens; `JobLock` takes them as steps that may come at
any time (`EndJob`, `Supersede`, `Revive`, `Abandon`); `SyncPass` starts from a job's
start, and follows the two job types that work on one connector instance past the
worker into the data they write.
`Seats` and `PortalTurn` are requests over rows of their own.

## 2. Modules

| Module | Models | Proofs |
|---|---|---|
| `JobLifecycle` | one job's row, its queue entry, the executions, dispatch, cancel, sweep, re-dispatch | `JobLifecycleProofs` |
| `JobLock` | `withUnlocked` and `enqueueExclusive` as PostgreSQL transactions, agent tool calls, the pool | `JobLockProofs` |
| `AdmissionGate` | the in-process gate | `AdmissionGateProofs` |
| `LockGate` | extends `JobLock`, instantiates `AdmissionGate` with the tool calls as callers | `LockGateProofs` |
| `CostGate` | admission, the work of direct and deferred calls, the geocoding loop, the charge | `CostGateProofs` |
| `SyncPass` | the passes of sync and commit jobs over one instance | `SyncPassProofs` |
| `OwnedTable` | what those passes promise of the instance's records | |
| `Seats` | seats, invitations, roles of one organization, statement by statement | `SeatsProofs` |
| `PortalTurn` | the turns of one portal and the streams that answer them | `PortalTurnProofs` |
| `MC*` | constants and symmetry for TLC | |

### JobLifecycle

A row is `status`, `bullRef` (is `bullJobId` stored), `attempts` and `heartbeat`
(is the last write older than `JOB_STRANDED_THRESHOLD_MS`). An entry is `queue`
(none, waiting, delayed, locked by `owner`, completed, failed), `made`
(`attemptsMade`), `budget` (`attempts` option), `offset` (`attemptOffset`) and
`stalls`. A worker slot `e` is at `pc[e]`:

    read -> start -> run -> finish -> ack            the processor wrapper
                       \-> catch -> nack -> event -> eventWrite
                                                     BullMQ, then worker.on("failed")

Every `await` of the wrapper, of `dispatch`, `cancel`, the sweep and the
re-dispatch that lets another actor in is the end of an action. `transition` is
`Write` (unconditional), `transitionIfNonTerminal` is `WriteIfLive`. An update and
the publish that follows it are one action with two outcomes, since nothing of
the model reads the channel; which of the callers catches the publish's throw is
what matters, and is modelled (`WriteOutcome` falls into the catch, `MarkActive`
does not).

BullMQ is modelled from how the worker uses it: an entry is locked by one
execution; a lock that lapses is found by the stall check, which re-delivers the
entry without spending an attempt until `MaxStalls`, then fails it and runs the
`failed` callback; `remove` refuses a locked entry; `completed` and `failed`
entries are dropped by age; the `failed` callback sees `attemptsMade` already
incremented.

A behaviour may see the failures of one member of `Settings` (`faults`), any number of
times and in any order:

| Fault | Meaning |
|---|---|
| `crash` | a worker process dies between two steps |
| `zombie` | an execution lives on after its BullMQ lock lapsed |
| `redisLoss` | the keyspace is lost under a running API |
| `readError`, `writeError` | a row read or queue lookup, a row update throws |
| `publishError` | the publish after an update throws |
| `dispatchError`, `dispatchCrash` | `queue.add` or the reference update throws; the process dies between them |
| `slowHandler` | the `failed` callback takes longer than the retry backoff (two seconds and more) |

Planned Redis replacement (scale to zero, replace, `portalops jobs redispatch`,
scale up) is always possible, up to `MaxOutages` times.

Left out: result, error, progress and timestamp columns, `lostExecutions` (no
guard reads them), the bulk-transform terminal hook, and the statuses `stalled`
and `awaiting_confirmation`, which no code writes.

### JobLock

A scope key is the entity or instance it names. A transaction `t` goes
resolve -> lock (and wait, key by key in sorted order) -> write -> end; a tool
call goes write -> query -> leave, because its transaction only holds the locks
while the tool writes over a second connection. `ResolveScopeKeys` reads `objects`
as it stands at that step (READ COMMITTED), so what it resolved can be stale when
the locks are granted. `Grant` is PostgreSQL's queue: a request waits behind
incompatible holders and incompatible earlier waiters of the same key. `live`
and `scopes` are the non-terminal job rows and their `lock_scopes`. `InUse` counts
pool connections.

A job's row ends for good (`EndJob`), or ends while a worker still has the job
(`Supersede`: a cancel, the sweep, another execution), which then brings it back
(`Revive`: the opening `active`, `jobs.worker.ts:207`, or the catch's `pending`,
`:291`) or ends it too (`Abandon`). `attended` are the rows of the second kind, with
their scopes as declared; `revived` are the live rows that were over before.

A job start that finds the same job running (`onSameJob: "reuse"`) returns it and
changes nothing, like a refusal. `assertNoneRunning` only reads. Keys do not
collide (the code hashes them to 32 bits).

### AdmissionGate, LockGate

A caller is out, queued or in. The methods run without an `await` between
reading and writing the counters, so each is one action; `Release` includes the
whole `drain`, a recursive function over the places of the queue. Rejection for a full queue changes nothing.
In `LockGate`, a tool opens its transaction only when admitted (`Open`) and leaves
the gate in the step that ends it (`Finish`).

### CostGate

A call's `verdict` goes new -> rated -> charged, uncharged or denied: the policy and
period are read with the rate window, the balance later, and nothing is reserved. A
run `<<c, r>>` is one execution of the work: the wrap's single one for a direct call,
one per delivery of its job for a deferred call, several at once after a stall. A run
goes working (asking, while the provider is) -> commit -> priced -> charged, over (the
work is done and free) or failed. `Price` resolves the plan and the period again;
`Charge` is the transaction over balance and ledger. The first of a job's runs to be
recorded as over stops the queue (`Settle`); `JobLifecycle` says when that happens.
A processor charges whatever admission said, because it does not see the verdict.
The counter of the rate window is shared with calls outside the model, so being over
it is a choice. The unlimited class (null allocation) and the retention purge of the
ledger are left out.

### SyncPass, OwnedTable

A worker slot `p` runs a pass of `job[p]`:

    try -> owned -> write -> reap -> mark -> done       completed
       |      |________|________|______|-> threw -> failed   retried, or over
       |-> done (a sync gives way)  |-> failed (a commit's wait timed out)

`Acquire`, `Superseded` and `TimeOut` are the session lock's outcomes: a sync never
waits (`withInstanceLock`), a commit does (`withInstanceLockWait`). A dead process
gives the lock back with its session (`Crash`). `Begin` takes the watermark, `Fetch`
and `Flush` are the adapter's pages and batches or the replay and the transaction of
a workbook's entity, `ReapChunk` is one statement of `softDeleteBeforeWatermark`,
`Mark` what the pass writes last. `Catch` is the draft's cleanup, which runs after
the unlock, and `Complete` and `RecordFailure` are the worker's writes. A record's
key is the source's id, or a place in one job's run where the source has none.
`stamp` is `syncedAt`, 0 for a record that is not live. `Settings` fixes the
connector and the faults of a behaviour: `crash`, `stall` (an execution outlives its
BullMQ lock), `throw` (a commit's work fails), `retry` (a sync's does), `status` (a write
of the instance's status fails, which the code logs and forgets, both at the end of a
draft and in its cleanup). A commit has one attempt (`jobs.service.ts:37`), a sync
`MaxAttempts`; a pass past its job's only attempt can still come, since a re-delivery
spends none. A draft's cleanup deletes the instance its route made, or marks it
`error` if it was there before, a live record keeps it or the delete fails.

`OwnedTable` is the promise: a table with one owner, which it fills with what it
found, then trims to exactly that, then publishes. `ImplementsOwnedTable` maps the
live records, the lock's holder and what the holder has found to it.

Left out: field mappings and wide tables, more than one entity of an instance (each
is written and reaped alike), retries inside a fetch, the clock's skew between
processes, a session that drops under a living process, and collisions of the lock's
32-bit hash.

### Seats

A request is at `req[r].pc`, named for the statement it makes next; every statement
is an action, since each takes a pooled connection of its own and others come
between. `reserved` are the connections taken for the seat lock, by its holder and
by everyone polling for it; `CanQuery` says that one is left for a statement.
`members` are live rows of `organization_users` with the invitation they came
through, `roles` the live rows of `user_role`, `invite` the invitations. `Expire` is
the clock (an expired row stays `pending`), `Die` a failed statement or process.
Custom roles, grants, policies and groups are left out, as are `AuditService`, the
provisioning of a first login before it accepts, callers whose own roles change
while they wait, and the admission timeout of the pool.

### PortalTurn

`log` is `portal_messages` in order. A connection goes new -> claim -> turn ->
generate -> release -> done, or waits and replays. `Read` is the one pass over the
history, `Claim` the SET NX by the message read, `Replay` a poll that finds an
assistant row newest, `Release` the unconditional DEL, `Lapse` the TTL. The model
model call is `Answer` (it stored a row) or `Falter`. A message may be posted at any time:
the server refuses none, and the web client's Cancel and its lost-connection handler
close the stream and unlock the composer (`apps/web/src/utils/portal-stream.util.ts:112`,
`:245`, `apps/web/src/components/PortalSession.component.tsx:254`) while the handler on the server runs on. Faults: `redis` (a call fails, and
the guard fails open), `slow` (a turn outlives the TTL), `die`, `notice` (a bulk job
writes its assistant row), `reset`. `beside` remembers which message was posted (or
which reset made the portal empty) while a stream of which other was open; nothing
reads it but the property. Left out: the content of a turn, the ceiling on
turns (it only refuses a post), the portal's deletion, access checks (`Prepare` may
fail).

## 3. Runs

Constants are model values; bounds are named in the `.cfg` files.

| Run | Instance | Shows |
|---|---|---|
| `job_retry` | 1 job, 2 slots, 3 attempts, 1 stall, 2 outages; crashes, read/write/publish errors | `RunningHoldsLock`, `ReapedIsGone`, `BudgetKept` |
| `job_liveness` | 2 attempts, 1 stall, 1 outage, cancels; crashes, Redis loss and slow callbacks, with either zombies or dispatch errors and crashes | `TypeOK`, `SettledIsFinal`, and `EventuallyTerminal` under `FairSpec` |
| `job_cancel_overwrite` | no faults, cancels | **violated** `FirstTerminalWins` |
| `job_lock` | 1 instance, 2 entities (one created in the run), 2 jobs, ended, cancelled and revived at any time, 1 tool, 2 other transactions | `NoJobUnderWrite`, `JobsDisjoint`, `NoLockCycle` |
| `admission_gate` | 6 callers of 3 organizations, 3 slots, 2 per organization, queue of 2 | counts, FIFO, no idle slot, no starvation |
| `lock_gate` | 2 organizations, 3 tool calls, 1 writer or job start, 2 slots, pool of 5 | `LockTypeOK`, `ToolsBounded`, `EveryCallEnds` |
| `cost_gate` | a direct call of 2 units, a transform of 1, a geocoding job over 1 address run twice; allocations 1 and 3; 2 periods | `BalanceCapped`, `LedgerRowsEarned`, `SumsUnlessRerun`, `ProviderPays` |
| `sync_pass` | 2 passes, a draft (1 attempt) and a sync (2), 2 records, 1 stall, 1 change of the source; sheet, REST with and without ids; stalls, stalls with failing commits, and crashes with every failure | `SnapshotKept`, `CommitCompletedIsDone`, `WorkKeepsInstance`, `WorkedDraftIsTold`, `ImplementsOwnedTable`, `LockComesFree` |
| `seats` | 2 owners, 2 newcomers, 3 seats, 3 requests, 2 invitations, pool of 3; four mixes of operations | `InvitesKeepCap`, `LastOwnerStays`, `InviteSeatsOne`, `EveryRequestEnds` |
| `seat_cap` | the same with invitations and acceptances | **violated** `SeatCapKept` |
| `portal_turn` | 3 streams, 2 messages, posted at any time, each of five faults | `OneGeneration`, `ReplayIsRecent`, `EveryStreamEnds`, `TurnComesFree` |
| `turn_again` | the same without faults | **violated** `AnsweredOnce` |

Why these bounds are enough. *One job*: rows and entries of different jobs do not
interact in `JobLifecycle`; they share only worker slots, and two slots are what it
takes for a zombie beside a re-delivery, or a callback beside a retry. *Three
attempts* (the code's default) give a first, a middle and a last one, which is what
`FailedStatus` and the re-dispatch arithmetic tell apart; the liveness run needs
only a retry and a last attempt. Its two settings take zombies and
failing or dying dispatches one at a time: together they take TLC too long. *One stall* is BullMQ's default and reaches the
stall limit. *Two outages* make a re-dispatch of a re-dispatched row. *Job lock*: an
overlap needs two jobs; a stale resolution needs an entity created or deleted by a
third transaction; two entities and their instance give exclusive, shared and mixed
key sets; a revived job meets a write, and a job started after its cancel. *Gate*: three slots and two per organization are the code's own numbers,
and with six callers the queue fills up and its head can be capped by its key.
*Lock gate*: the pool of 5 leaves a connection for each of the three transactions
the gate and the writer can have open and one for each tool's query.
*Cost gate*: the larger allocation covers the call and one job but not all three, the
smaller one job; overshooting needs two commits, a stale price one change of plan or
period, and a double count of an address two runs. *Sync passes*: the loss of #460
needs one re-delivery, hence two passes, and one record on each side of a watermark;
a chunk of a reap is any part of what is stale. Two attempts of a sync give a retry and a
last one, one stall a second pass of the draft; a draft and a sync are the two ways to
meet a holder (a recommit waits like a draft and has no cleanup). The clock's bound is above what a behaviour can use. *Seats*: a
cap is overshot by two invitations, or one beside an acceptance; the last owner is
lost by two removals or demotions; with a pool of three, three waiters can hold every
connection. *Turns*: one stream runs a turn, one waits on it, one comes late; two
messages tell an answer from another's, and with three streams an earlier exchange can
be over, its answer in the history, while a later one is waited for.

`CHECK_DEADLOCK FALSE` in the job, sync, seat and turn runs because there the system
really stops once every job is over, every request made and every message answered.
The other runs check deadlock.

## 4. Properties

Hazards and the properties that watch them are listed one by one in
`PROJECT.json`. In short:

- `BudgetKept`: attempts on earlier queues plus what the entry still allows never
  exceed `maxAttempts`, whatever happens.
- `RunningHoldsLock`: while a processor runs, its row is not terminal, so its scopes
  stay locked. This does not hold with cancels (by design: the API does not stop a
  running processor), with a zombie, with a dispatch that reports failure after
  adding, with a lost Redis, or when a callback outlasts the backoff; the run and
  the theorem leave those out by name.
- `ReapedIsGone`: when the sweep is about to fail a row, its entry will not run. A
  crash between `queue.add` and the `bullJobId` update breaks it (the sweep takes a
  null `bullJobId` for "never queued" and does not look, `job-reconciliation.service.ts:73`);
  the fault is `dispatchCrash`, left out of this run and kept in the others.
- `SettledIsFinal`: once a row is terminal and no execution is past its pre-read,
  nothing brings it back: not a stale entry after a rollback, a re-delivery, a
  pending cancel, the sweep, or a slow callback. It needs the pre-read to succeed;
  the code fails open there.
- `EventuallyTerminal`: every live row ends.
- `NoJobUnderWrite`: no step puts a write past its check beside a running job that locks
  one of its keys, but one, which the property names: a worker that brings back a job
  whose row was over when the write looked. `JobsDisjoint`: running jobs declared
  disjoint scopes, those aside that were brought back. Item 11 below is what the
  exceptions are.
- `NoLockCycle`: in any group of transactions that wait for advisory locks, one waits
  for none of the group. TLC's deadlock check cannot say this: two lockers that wait
  for each other for ever do not stop the rest of the system.
- `ToolsBounded`: a tool call has connections only with its slot, and all calls, or
  those of one organization, have at most twice their limit.
- `SlotsCounted`, `NoIdleSlot`, `NoOvertaking`, `NobodyStarves`: the gate.
- `EveryCallEnds`: no deadlock over keys or connections.
- `BalanceCapped`: no period's balance exceeds what some plan allows, however many
  calls were admitted on it; with one plan, that plan's allocation.
- `LedgerRowsEarned`: a ledger row stands for a charged run, with its units and period.
- `SumsUnlessRerun`: what remains of "the ledger sums to the balance" under retries.
- `ProviderPays`: geocoding is never charged for more than the provider answered. With
  overlapping runs an address may be answered, and charged, twice; never from the cache.
- `SnapshotKept`: after a reap the live records are exactly those the pass found, in
  whatever number of passes, retries and crashes its job took.
- `CommitCompletedIsDone`: no commit is reported done by a pass that gave way or echoed
  a result that was not there.
- `WorkKeepsInstance`: the cleanup of a failed draft never takes the instance from a
  pass at work. It is checked without the combination of item 6 below.
- `WorkedDraftIsTold`: a draft one of whose passes got to the work, and none of whose
  passes is left, does not leave its instance `pending`: it is active, marked or gone. The
  property excludes dead processes and failed status writes, and says nothing of a draft
  that never got the lock: item 12.
- `LockComesFree`, `ImplementsOwnedTable`: the session lock and the table's discipline.
- `InvitesKeepCap`: concurrent invitations, removals, revocations and expiries keep the
  cap; `SeatCapKept` is the same with acceptances, and fails (below).
- `LastOwnerStays`: an owner remains, by role rows or by the mirror of a membership that
  has none yet. It is checked without removals that die and without acceptances by a
  user who is being removed: see item 9.
- `InviteSeatsOne`: a link seats one user, the one its row records.
- `OneGeneration`: two streams never run one message's turn at once. Redis failures (the
  guard fails open) and a turn that outlives the TTL do break it, by design of the
  guard's comment, and are premises of the property; both faults are in the run.
- `ReplayIsRecent`: an answer that is replayed is to the message the stream was opened
  for, or to one that met it: one of the two was posted while a stream of the other was
  open. The code looks at the newest assistant row alone, so what the property excludes is
  the answer of an exchange that was over before, with nothing assumed of what is posted,
  noted or reset meanwhile. That the answer is the right one does not hold: item 10.
- `EveryRequestEnds`, `EveryStreamEnds`, `TurnComesFree`: nobody waits forever.

### Where the code and its documentation disagree

1. `job_cancel_overwrite`. `job-events.service.ts:136` says "First terminal writer
   wins: ... a zombie execution finishing late, and a user cancel all converge under
   this guard". Only the sweep uses the guarded transition. In TLC's trace a cancel has
   read the live row, a worker picks the job up and passes its pre-read, the cancel writes
   `cancelled` (`jobs.service.ts:227`), and the worker's opening transition
   (`jobs.worker.ts:207`) makes the row `active` again.
2. `seat_cap`. `sync-lock.service.ts:405` says that invite and accept are serialized,
   which "is what makes the tier seat cap impossible to overshoot". `acceptByToken`
   takes no seat lock: between its update of the invitation and its insert of the
   membership the user is in neither count, and an invitation admitted then is one
   too many.
3. `turn_again`. `portal-turn-guard.service.ts:33`: a reconnect "replays the persisted
   answer instead of re-generating". A stream that has read the message as pending
   claims the key after the turn that ran meanwhile stored its answer and deleted it;
   the history is not read again, and the model answers a second time.

Met while modelling, with no run of their own:

4. A publish failure after the `completed` write lands in the worker's catch
   (`jobs.worker.ts:245`), which rewrites the row to `pending` and lets BullMQ run the
   job again: what `jobs.worker.ts:180` wants to prevent ("repeat its work").
   `enqueueExclusive` resolves an instance's entities before it waits for the locks
   (`job-lock.service.ts:403`) and not again: an entity created meanwhile, and a job
   started on it, run beside the instance job that "also takes its entities exclusive"
   (`:397`) while the entity job "conflicts with instance-wide jobs" (`:399`).
5. The admission bound (`lock-gate.service.ts:37`) counts tools, but not the writers
   that wait on a tool's locks with a pooled connection each: when they fill the pool,
   the tool cannot get the connection it writes over, and there is no lock timeout.
   `cost-gate.service.ts:256` says the ledger "provably sums to the billed balance" and
   `:286` that a double commit is a no-op; only the ledger row is skipped, the balance
   was incremented before it in the same transaction.
6. The rollback of a draft's final failure runs after the lock was released
   (`layout-plan-commit.processor.ts:119`): a re-delivered pass of the same draft may
   hold it by then and loses its instance. It takes a lock lapse and a failing commit
   together; `WorkKeepsInstance` excludes the behaviours with both.
7. The echo (`layout-plan-commit.processor.ts:77`) reads the row after the holder
   unlocked, but the holder's worker writes `completed` later: a waiting pass may commit
   again. The records are the same (`SnapshotKept`), the work is done twice. A sync that
   gives way writes `completed` while the holder still works (`connector-sync.processor.ts:171`),
   which frees the scopes the job locks.
8. A sheet from which every record went names no target (`layout-plan-commit.service.ts:241`),
   so its old records are never reaped; `SnapshotKept` excludes it as `Emptied`.
9. A removal that dies between the membership's delete and `removeAllForUser`, or an
   acceptance that read the membership before it, leaves an `owner` row of a user who is
   no member; `countUsersWithRole` counts it, and the last owner can then be removed
   (`seat.service.ts:492` wants never zero). A resend of an expired invitation makes it
   reserve a seat again without a look at the cap (`seat.service.ts:343`). A revocation
   that read a pending row overwrites `accepted`. One user accepting two links at once
   gets two memberships. `db/client.ts:57` counts one reserved connection per running
   sync; every waiter for a seat lock holds one too.
10. `portal-turn-guard.service.ts:87` says the answer is "the only row that can appear on
    a pending turn (a new user row can't", because the input is locked while streaming.
    A bulk job's notice can, and so can a new message: Cancel and a lost connection unlock
    the input while the turn runs on (section 2). A user who posts `m1`, cancels and posts
    `m2` has two turns at once. If the answer of `m1` is stored after `m2` and before the
    stream of `m2` reads the history, that stream replays it and `m2` is never answered
    (`portal-events.router.ts:112`); if it is stored later, a reconnect that waits for the
    answer of `m2` takes it (`portal-turn-guard.service.ts:107`).
    After a TTL expiry, DEL removes another stream's key.
11. A cancelled job runs on, by design, but its row can also come back: by the step of
    item 1, or when its processor throws and the catch writes `pending`
    (`jobs.worker.ts:291`). Its scopes are as declared, and no advisory lock was
    asked for. A write, or a job on the same scopes, that was admitted while the row was
    over then runs beside it, which `job-lock.service.ts:343` and `:397` mean to exclude.
12. `layout-plan-draft.service.ts:396` wants no instance stranded in `pending` forever, but
    only the processor's catch cleans up. A draft whose process died, or whose cleanup
    cannot write, leaves it so. So does one whose only attempt waits in vain for the lock
    (held by a sync that was started meanwhile, after BullMQ had failed the draft for its
    stalls): the timeout skips the cleanup (`neverOwnedTheWork`,
    `layout-plan-commit.processor.ts:119`).

## 5. Fairness

`FairSpec` (jobs): weak fairness of every step of an execution, of dispatch, of the
second half of a cancel, of BullMQ's pick, promotion, stall check and expiry, of the
clock (`GrowStale`), of the sweep (a timer, `index.ts:230`) and of the scale-up after
a scale-down; strong fairness of the sweep's successful lookup, because an
unreachable queue makes it skip and try again on the next tick. A processor is
assumed to return or throw. Nothing obliges a user, an operator or a fault.

A job whose execution lives on as a zombie ends all the same: the callback, the
re-delivery or the sweep ends its row.

`FairSpec` (passes): weak fairness of a pass's next step, taken together; a pass that
is not killed goes on, and a waiting commit times out. `FairSpec` (seats): weak
fairness of each request's next statement, the driver serving its queue and the wait
having a deadline. `FairSpec` (turns): weak fairness of each handler's next step (the
polls are counted) and of each key's expiry. Requests, deliveries, faults and the
clock of an invitation are owed to nobody.

`GateSpec`: weak fairness of `Release` (the gated function settles). Timeouts are
possible, never required, so `NobodyStarves` does not lean on them.

`FairLockGateSpec`: weak fairness of transaction steps and ends, strong fairness of
taking a connection, because the driver serves its waiting callers in order.
`Grant` needs no more than weak fairness since the lock queue is in the model.

## 6. Proofs

TLAPS proves, for every value of the constants under the modules' named assumptions:

| Theorem | Statement |
|---|---|
| `TypeCorrect` | `Spec => []TypeOK` |
| `BudgetAlwaysKept` | `Spec => []BudgetKept` |
| `SettledForGood` | `"readError"` in no setting gives `Spec => SettledIsFinal` |
| `RunningAlwaysHoldsLock` | `Sheltered(F)` for each setting `F` gives `Spec => []RunningHoldsLock` |
| `ReapedAlwaysGone` | `Sheltered(F)` for each setting `F` gives `Spec => []ReapedIsGone` |
| `LockTypesHold` | `LockSpec => []LockTypeOK` |
| `WritesRunAlone` | `LockSpec => NoJobUnderWrite` |
| `RunningJobsDisjoint` | `LockSpec => []JobsDisjoint` |
| `LockersNeverDeadlock` | `LockSpec => []NoLockCycle` |
| `GateTypesHold` | `GateSpec => []GateTypeOK` |
| `SlotsAlwaysCounted` | `GateSpec => []SlotsCounted` |
| `NeverAnIdleSlot` | `GateSpec => []NoIdleSlot` |
| `NobodyOvertakes` | `GateSpec => NoOvertaking` |
| `LockUnderGate` | `LockGateSpec => LockSpec` |
| `LockGateTypesHold` | `LockGateSpec => []LockTypeOK` |
| `ToolConnectionsBounded` | `LockGateSpec => []ToolsBounded` |
| `CostTypesHold` | `CostSpec => []CostTypeOK` |
| `BalanceAlwaysCapped` | `CostSpec => []BalanceCapped` |
| `LedgerAlwaysEarned` | `CostSpec => []LedgerRowsEarned` |
| `SumsHoldUnlessRerun` | `CostSpec => []SumsUnlessRerun` |
| `ProviderAlwaysPays` | `CostSpec => []ProviderPays` |
| `SyncTypesHold` | `Spec => []SyncTypeOK` |
| `SnapshotAlwaysKept` | `Spec => []SnapshotKept` |
| `CompletedCommitIsDone` | `Spec => []CommitCompletedIsDone` |
| `PassesImplementOwnedTable` | `Spec => ImplementsOwnedTable` |
| `WorkAlwaysKeepsInstance` | `Spec => []WorkKeepsInstance` |
| `WorkedDraftAlwaysTold` | `Spec => []WorkedDraftIsTold` |
| `SeatTypesHold` | `Spec => []SeatTypeOK` |
| `InvitationsSeatOne` | `Spec => []InviteSeatsOne` |
| `InvitationsKeepTheCap` | `Spec => []InvitesKeepCap` |
| `AnOwnerAlwaysStays` | `RemovalsApart` gives `Spec => []LastOwnerStays` |
| `TurnTypesHold` | `Spec => []TurnTypeOK` |
| `OneGenerationAtATime` | `Spec => []OneGeneration` |
| `ReplaysAreRecent` | `Spec => []ReplayIsRecent` |

Every safety property that a passing run checks is stated by one of them. The
premises, all met by the runs' instances, and what the modules assume beyond types:

- `Sheltered`: the faults `job_retry` leaves out; section 4 says what each breaks.
- `RemovalsApart`: where members are removed, no request dies half-way; and where links
  are opened too, whoever opens them is no founder and no roles are set (item 9). TLC
  finds `LastOwnerStays` violated when a removal dies, and when a founder opens a link.
- `CostAssumption` has finitely many calls, because the properties sum over them;
  `SeatAssumption` has at least one founder: an organization begins with its owner.

*Budget.* `BudgetKept` is not inductive: `BudgetInv` adds that an entry that will run
has an attempt left, and that a lock holder's budget is its entry's. It holds under
every fault, zombies included, because a zombie's failure no longer reaches BullMQ.

*Settled.* An action property. With the auxiliary invariant that a row not yet
created is absent, each step keeps a settled row settled: executions at `read`
find it terminal, those at `event` leave it alone, and the other writers write only
terminal statuses.

*Running holds its lock.* `LockInv` says that an execution in the processor holds its
entry's lock, that the callback of a failed attempt runs while the entry is delayed
or failed, that the row of a running processor is `active`, that the sweep is about
to reap only rows without an entry, that a scaled-down API is quiet, and that a job
belongs to its dispatcher until the reference is stored.

*Job lock.* Neither locks nor check alone suffice. `LockInv` ties them: holders of one
key are compatible; past its check a transaction holds all its keys; a job start has
its declared scopes among its exclusive keys. So when a job row is inserted, nobody
else who passed the check can hold one of its scopes; and while a write holds its
keys, no row over them can be inserted. Which rows end, and which come back, is left
free: lemma `NoNewMeeting` goes through the steps and finds that only `Revive` puts a
job beside a write, and `JobsDisjoint` is part of the invariant because a start looks at
the revived jobs too.

*No deadlock.* `OrderInv` adds that a key in hand ranks below every key still lacking
(`InOrder`) and that the queue holds each waiter once (`WaitersQueue`). In a group of
waiters take those whose next key ranks highest, and of them the one that asked first.
No waiter of the group holds its key, because it would be waiting for a higher one;
none asked for that key earlier. The group is finite, however many transactions there
are, because it stands in the queue.

*Gate.* `GateInv` is the conjunction of the three invariants, with finitely many
holders. The work is the drain: lemma `Drained` says that after each round the counts
are those of the holders and the admitted, that nobody left behind could be admitted
(the counts only grow), and that nobody admitted has left an earlier waiter of its key.
It is an induction over the rounds. The library's induction theorems cannot be used
here, so it is written with the least number at which the claim fails (`LeastNumber`,
from `WFMin`): that number is not 0, the claim holds one before it, and one round
(`DrainRound`) carries it over.

*Lock gate.* `StepOfLock` and `StepOfGate`: each step of the composition is a step or a
stutter of each part, so their invariants hold with no new argument
(`AdmissionGateProofs` is instantiated with the tools as callers). `ToolsSeated`, that
an open tool transaction has a slot, ties the two; counting holders gives the bounds.

*Cost gate.* `BalanceCapped` is inductive with the types, because the conditional
increment leaves the balance within a plan. `LedgerRowsEarned` needs `SomethingPriced`:
a priced or charged run has at least one unit, so its row differs from no row; then one
lemma says that no step but `Charge` touches balance, ledger or charged runs. The sums
need the community modules' sum over a finite set to be what it says: it is defined by
recursion over the set, and the lemmas about it (what adding or changing one element
does) are proved by a least counterexample in the sets' sizes. With them `SumsOrTwice`
is kept by `Charge`: ledger and balance grow alike, or the row was there and the call
is charged twice; and `GeocodedPaid`: the units of all geocoding runs, charged or not,
are at most the provider's answers, since a unit is counted where an answer comes in.

*Sync passes.* `PassInv` says that a pass which is not idle has a job (`AtWork`), that
the lock's holder is the one pass inside it (`LockHeld`), and, of a pass at work
(`WorkRight`), that no stamp exceeds its watermark and the records stamped with it are
exactly those it has flushed; so when nothing older is left, the live records are
those it found. It holds for every combination of faults, those TLC leaves out too.
The refinement is `PassInv` and one lemma, `TableStep`: taking the lock is `TakeTable`,
a fetch `Aim`, a flush `Fill`, a reap `Trim`, `Mark` is `Publish`, every way to lose the
lock `GiveUp`, and every other step a stutter.

*Failed drafts.* `WorkKeepsInstance` holds for a different reason under each fault.
Without failing commits there is no cleanup (`NothingThrows`). Without stalls the pass in
hand is the only one of its job, and its job the only live one of the instance
(`OnlyPass`), so that a rollback takes the instance from nobody. `WorkedDraftIsTold`
needs neither: `Told` says that while the instance is `pending` no pass of a draft has
finished, and a draft whose work was begun still has a pass at the work or on its way
into the cleanup. Whoever gets the lock leaves it by `Mark`, which marks the instance, by
the echo of a commit that `CommitCompletedIsDone` says was finished, or by a throw, which
the draft's one attempt makes final.

*Seats.* `SeatInv` adds to the types who holds the lock at which statement and what a
request's fields are. `SpentInv`: an invitation with a membership, or about to give
one, is no longer pending and records the user it seats. `CapInv`: between the
count and the insert the memberships have only shrunk, since joining needs an
acceptance and every other invitation needs the lock; between admission and insert a
seat is free. `OwnerInv`: an owner is there, role rows belong to members, a member
without rows has the role of the membership, the founders sit unless removed; and, of a
request between its count of the owners and its write, that another owner was there
when it counted and is still.

*Turns.* `OneGeneration` follows from `KeyIsOwners`: while Redis works and no turn
outlives its key, the connection in a turn is the one that set the key.
`ReplayIsRecent` follows from `Recent`: any two open streams are for messages that met,
and each met the newest question; an answer that is the newest row is to a message that
met all of these. A post, or a reset, makes the newest question meet every open stream
as it replaces it; an answer comes from an open stream; and a stream that opens is for
the newest question. The lemmas `PostIsNewest` and `AnswerKeepsNewest` say what the
newest question of a longer history is.

Only model-checked: the liveness properties (`EventuallyTerminal`, `NobodyStarves`,
`EveryCallEnds`, `LockComesFree`, `EveryRequestEnds`, `EveryStreamEnds`,
`TurnComesFree`), which need fairness and ENABLED, out of the reach of the installed
provers; and the three violations. `JobLifecycle`, `JobLock`, `CostGate` and the others
are proved each on its own: that the four job steps of `JobLock` allow all that
`JobLifecycle` does to a row is argued in sections 1 and 2, not proved. Five hazards have
no property (`job-lock.service.ts:403`, `connector-sync.processor.ts:171`,
`layout-plan-commit.processor.ts:119`, `job-reconciliation.service.ts:73`,
`jobs.worker.ts:193`): there the code does what items 4, 6 and 7 of section 4 and the
notes on `ReapedIsGone` and `SettledIsFinal` say.

## 7. Not modelled

The model covers the parts of the API where several actors meet on shared state. The
repository is much larger; most of it computes, renders or forwards.

- *Web and site front ends, core models, spreadsheet parsing, tool packs, portal SQL,
  analytics, map tiles, permissions*: pure functions, data extraction and user
  interface. They have no interleavings, and a model would restate them.
- *Organization delete*: cancels, rechecks, then deletes in one cascade. Its race is
  the unconditional cancel of `JobLifecycle` (`organization-delete.service.ts:121`).
- *OAuth token caches*: whether two refreshes of one rotating token both succeed is the
  identity provider's choice, and nothing in the repository fixes it.
- *Job waiters and the event stream*: a waiter polls the row, which alone makes it end;
  the stream forwards.
- *Billing, tiers, grants*: the order of Stripe's webhooks is external; `CostGate` lets
  the plan change at any time.
- *Agent-turn ceiling, token bucket, caches*: counters and timers of one call.
- *Wide tables, curated views, dissolve precompute, entity delete, revalidation,
  uploads, provisioning, maintenance*: SQL building and best-effort mirrors; the locks
  they take are those of `JobLock` and the session locks of `SyncPass` and `Seats`, and
  their jobs are jobs of `JobLifecycle`.

`PROJECT.json` lists every component with its reason. Within the modelled parts, what
is left out is named in section 2.
