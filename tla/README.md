# Metered compute: formal models

The repository builds the same product five times: an HTTP API that takes a
metered task, charges a user's prepaid credits for it, runs it on a worker, and
lets the owner poll or cancel it. `src/solutions/0_solution` to `4_solution`
differ in where the credits, the tasks and the messages live. All of them must
keep one promise: a user pays once for each task that completes, pays for
nothing else, and gets back what was held for a task that failed, was cancelled
or was lost.

This directory holds TLA+ models of all five, an abstract specification of that
promise which the three that reserve credits before they spend them are shown to
implement, the TLC runs that check the models, and TLAPS proofs, for every value
of the constants, about all five.

Paths below are relative to `src/solutions/<n>_solution/src/solution<n>/`
unless they begin with `src/`.

## 1. Inventory

`PROJECT.json` lists every part with what is modelled of it, and every hazard with
its line and the properties that are about it.

### Solution 4: TigerBeetle and Restate (modelled)

| Part | State | Operations | Talks to |
|---|---|---|---|
| API, `app.py` | none of its own; requests are not durable | submit, poll, cancel, admin credits, start-up seeding | Postgres, TigerBeetle, Redis, Restate ingress |
| Workflow, `workflows.py` | Restate's journal of `execute_task` | mark running, compute, check for a cancel, capture, complete, fail, cancel | Postgres, TigerBeetle, Redis, compute gateway |
| Billing, `billing.py` | TigerBeetle accounts and pending transfers with a timeout | reserve, capture (POST), release (VOID), top-up, balance | - |
| `repository.py` | `users`, `tasks` | create under an idempotency key, guarded `UPDATE ... WHERE status =` | - |
| `cache.py` | Redis hash `task:{id}` with a TTL | cache the row, cache the result, evict | - |
| Compute gateway and worker | none | run the model | called by the workflow |

What makes it hard: a request runs through up to four stores with an await
before each and can end at any of them; Restate runs every step at least once,
so a step whose journal entry is lost is run again after it has taken effect;
the workflow, two cancels and TigerBeetle's own timeout all settle the same
transfer; the status is read before an await and used after it.

Correct means: COMPLETED tasks are charged and no other; a terminal status
stays; a retry under one key is charged once; whoever takes a hold settles it, and
only one who is cut off leaves it to the timeout; accepted tasks end; the cache never
shows an outcome the table does not have.

### Solution 2: reservations, outbox, RabbitMQ, projector (modelled)

| Part | State | Operations | Talks to |
|---|---|---|---|
| Admission, `services/billing.py` | `users.credits`, `cmd.task_commands`, `cmd.credit_reservations`, `cmd.outbox_events` | admit one, a batch, or an inline task, each one transaction | Postgres |
| Routes, `api/task_write_routes.py`, `api/task_read_routes.py`, admin | Redis hash `task:{id}` | submit, batch, cancel, poll, adjust credits | Postgres, Redis |
| Outbox relay, `workers/outbox_relay.py`, `services/rabbitmq.py` | `published_at`; one broker connection | publish unpublished rows | Postgres, RabbitMQ |
| Worker, `workers/worker.py` | lane queues, `cmd.inbox_events` | take a delivery, mark running, execute, persist success or failure, cache, ack or nack | RabbitMQ, Postgres, Redis |
| Watchdog, `workers/watchdog.py` | reservations past `expires_at` | expire, clean up Redis, expire results, purge | Postgres, Redis |
| Projector, `workers/projector.py` | `query.task_query_view`, its inbox rows | apply an event to the view, write the cache | RabbitMQ, Postgres, Redis |
| Webhooks, `services/webhooks.py`, `workers/webhook_dispatcher.py` | subscriptions; queue, schedule and dead letters in Redis | subscribe, announce a cancel, deliver, retry, dead-letter | Redis, Postgres, HTTP |

What makes it hard: worker, cancel, watchdog and an inline request race to end
one task; deliveries are repeated and lost with their consumer; outbox rows are
republished; four writers update one Redis hash without any order; the view
trails the command table; a webhook event is removed from its list before it is
told.

Correct means: status and reservation agree at every commit, balances add up,
limits hold for batches too, the outbox tells each task's story once, no
published task is lost, reservations settle, and no copy is ahead of the
command table.

### Solution 1: Lua admission and a Redis stream (modelled)

| Part | State | Operations | Talks to |
|---|---|---|---|
| Admission, `services/billing.py`, `utils/lua_scripts.py`, `api/task_write_routes.py` | Redis: balance, dirty set, active counter, idempotency keys, pending markers, `tasks:stream`, task hashes | one Lua script checks and deducts, takes key and slot, adds the message; marker, Postgres row, compensation | Redis, Postgres |
| Cancel, admin credits | `tasks`, `users`, `credit_transactions` | transaction, then refund, slot and hash in Redis, with retries | Postgres, Redis |
| Stream worker, `workers/stream_worker.py` | consumer group and its pending messages | `XREADGROUP`, `XAUTOCLAIM` of idle messages, guarded PENDING to RUNNING, outcome, refund, acknowledge | Redis, Postgres |
| Reaper, `workers/reaper.py` | snapshots, drift audit | refund orphan markers, fail stuck tasks, flush balances, expire results | Redis, Postgres |
| Poll | task hash, result hash | hash, else row, with expiry | Redis, Postgres |
| Webhooks | Redis list, schedule, dead letters; subscriptions | announce, deliver, retry, replay of dead letters | Redis, HTTP |
| Tokens and keys, `app.py`, `services/auth.py` | revocation buckets per day, `token_revocations`, cached JWKS | issue, verify, revoke, fall back to Postgres, rehydrate | Redis, Postgres, Hydra |

What makes it hard: two stores with no common transaction; a refund after the
commit it belongs to, repeated as a whole when its answer is lost; a message
claimed from a worker that is alive; a balance that is restored while an admission
runs; a reaper whose timeouts a slow request can outlast; midnight between a
revocation and the request it should refuse.

Correct means: one refund per deduction, no refund of a task that runs on, the
counter covers the open tasks, open tasks end, snapshots catch up, receivers are
told true outcomes, revoked tokens are refused.

### Solution 3: TigerBeetle, Redpanda and RabbitMQ (modelled)

| Part | State | Operations | Talks to |
|---|---|---|---|
| Routes, `api/`, `services/billing.py` | `cmd.task_commands`, `cmd.outbox_events`; pending transfers; active counter | submit with two gates, cancel, poll, top-up | Postgres, TigerBeetle, Redis |
| Relay and dispatcher, `workers/outbox_relay.py`, `workers/dispatcher.py` | `published_at`; offsets | outbox to Redpanda, Redpanda to hot and cold RabbitMQ queues | Postgres, Redpanda, RabbitMQ |
| Worker, `workers/worker.py` | delivery at hand | mark RUNNING, post or void, finalise, give the slot back, cache, ack | RabbitMQ, Postgres, TigerBeetle, Redis |
| Reconciler, `workers/reconciler.py` | - | align stale rows with their transfer | TigerBeetle, Postgres, Redis |
| Projector, rebuilder, `workers/projector.py`, `workers/rebuilder.py` | view, inbox, checkpoints | project events, rebuild the view | Redpanda, Postgres, Redis |
| Webhook worker | offsets, dead letters | tell outcomes | Redpanda, HTTP |

What makes it hard: the post and the row are two commits in two stores; worker,
reconciler, cancel and the transfer's own timeout settle the same transfer; the
counter is read before it is incremented; consumers skip a batch that fails; five
writers of hash and view follow no order.

Correct means: row and transfer agree at the end, slots are returned once, polls
and callbacks tell the row's outcome.

### Solution 0: Redis Lua and Celery (modelled)

| Part | State | Operations | Talks to |
|---|---|---|---|
| Routes, `api/`, `services/billing.py` | Redis: balance, counter, keys, markers; `tasks`, `credit_transactions`, `users` | submit (script, marker, row, `send_task`, two compensations), cancel, poll, adjust | Redis, Postgres, Celery |
| Worker, `workers/worker_tasks.py` | Celery messages with their retry count | guarded RUNNING and COMPLETED, retries, fail and refund, result hash | Celery, Postgres, Redis |
| Reaper, `workers/reaper.py` | - | orphan markers, stuck tasks, expiry | Redis, Postgres |

Hard and correct: as Solution 1, with Celery's redelivery and retry in place of the
stream's claims, and with the books balanced exactly: balance, slots and ledger are
those of the tasks.

### Left out

Authentication of Solutions 2, 3 and 4, settings, logging, metrics and tracing: see
section 7.

## 2. Modules

| Module | Is | Stands for |
|---|---|---|
| `CreditHold` | abstract specification | what a solution with holds promises: grant, hold, capture or return |
| `DurableTask` | Solution 4 | API, workflow, TigerBeetle, `tasks`, `users`, cache |
| `ReservedTask` | Solution 2, command side | admission, inline execution, cancel, admin, relay, worker, watchdog |
| `ProjectedTask` | EXTENDS `ReservedTask` and joins its steps | projector queue, projector, view, cache, poll |
| `ReservedCallbacks` | EXTENDS `ReservedTask` and joins its cancels | subscriptions, the cancel's event, dispatchers |
| `StreamTask` | Solution 1 | admission, cancel, admin, stream workers, reaper, poll |
| `Callbacks` | EXTENDS `StreamTask` and joins its outcomes | webhook queue, schedule, dispatchers, dead letters |
| `Tokens`, `SigningKeys` | Solution 1 | bearer tokens and their revocation; the JWKS cache |
| `StreamService` | composition of the last three | Solution 1 as it is deployed |
| `LedgerTask` | Solution 3, command side | routes, TigerBeetle, relay, dispatcher, workers, reconciler |
| `LedgerRead` | EXTENDS `LedgerTask` | projector, view, hash, webhook worker, rebuild, poll |
| `DeductedTask` | Solution 0 | routes, Celery workers, reaper, admin |
| `DeductedRead` | EXTENDS `DeductedTask` and joins the worker's cache write | result hash, poll, expiry |
| `MC...` | finite instances | - |
| `DurableTaskProofs` | theorems | about `DurableTask` |
| `ReservedTaskProofs`, `ProjectedTaskProofs`, `ReservedCallbacksProofs` | theorems | about `ReservedTask` and the two modules that extend it |
| `StreamTaskProofs`, `StreamServiceProofs` | theorems | about `StreamTask`; about `Callbacks`, `Tokens`, `SigningKeys` and their composition |
| `LedgerTaskProofs` | theorems | about `LedgerTask` and `LedgerRead` |
| `DeductedTaskProofs` | theorems | about `DeductedTask` and `DeductedRead` |

`DurableTask`, `ReservedTask` and `LedgerTask` each instantiate `CreditHold` under a
refinement mapping (`BillingSpec`, `Billing!Spec`): a pending transfer, or a RESERVED
reservation, is "held"; posted, or CAPTURED, is "captured"; voided or expired, or
RELEASED, is "returned". `CreditHold` says that a hold is taken only from available
credits, settles once, and that nothing else moves credits; a batch is one hold of
several amounts, taken entirely or not at all. Solutions 0 and 1 have no hold: they
deduct, and refund after the task has ended, in another store. A failure between the
two leaves them outside of `CreditHold`, so their promise is stated as `BooksBalance`
and `LedgerMatchesStatus`, `NothingRunsFree`.

### State and actions of `DurableTask`

A submission attempt `s` is its task id and its transfer id. `xfer[s]` is the
pending transfer, `status[s]` the row (`"none"`: no row), `cache[s]` the Redis
hash with or without the owner field the poll checks. `granted`, `topped` and
`mirror` are the accounts' credits, the top-up transfers and `users.credits`.
The rest are program counters: `spc` submit, `cpc` cancel, `ppc` poll, `tpc`
top-up, `wpc` workflow (with `site`, the caller of its cancel check).

Each handler is a family of actions with the handler's name, one action from one
await to the next:

* `Submit...` and `Handoff...`: `app.py` `submit_task` with
  `_handle_restate_handoff_failure`: reserve, create the row, give the transfer
  back if the key is taken or the insert fails, cache, send to Restate; when the
  send fails: mark FAILED, release, roll back to PENDING if the release was
  refused, evict. A send that fails may have been received.
* `Cancel...`: a PENDING task is marked CANCELLED, its transfer released, the row
  rolled back if the release was refused, the cache evicted; a RUNNING one is
  marked CANCEL_REQUESTED for the workflow.
* `Poll...`: cache, else table and fill.
* `Topup...`: the idempotent transfer, the balance, the mirror of it.
* `Restart`: start-up of the API, which seeds accounts again from the mirror.
* `Work...`: the durable steps of `execute_task`; `Journal` decides whether the
  effect was journaled (go on) or lost (do it again, `MaxLost`).
* `Expire`, `CacheExpire`: TigerBeetle's timeout and Redis' TTL.
* `SubmitAbort`, `CancelAbort`: an unguarded await fails or the process dies; the
  request is `"aborted"` then, which tells it from one that has answered.

### State and actions of `ReservedTask` and `ProjectedTask`

Each Postgres transaction is one step: its writes are guarded by the state they
expect (`UPDATE ... WHERE status IN`), so its effect is that of running alone at
its commit. Doing nothing, because it was aborted, is its other outcome (`Fault`).
`resv[t]` is the reservation row,
`"OVERDUE"` when RESERVED past `expires_at` (time is the action `Overdue`).
`events[t]` is the outbox, `published[t]` how far the relay has marked it,
`lane[t]` the copies in RabbitMQ, `inbox` the submissions a worker has applied,
`linked` whether the relay's connection is open.

* `Admit` is `_execute_admission_transaction` and its batch and inline variants:
  key, concurrency, credits, in the code's order, then rows, debits and (unless
  inline) the event. `AdmitError` is the rollback, `SubmitCache` and
  `RequestAbort` the rest of the request.
* `SyncMark`, `SyncFinish`, `SyncFail`, `SyncFinishError`: inline execution, its
  success, timeout or failure, and the failure of the finalisation itself.
* `CancelRead`, `CancelTransact`, `CancelSync`, `CancelAbort`; `Adjust`.
* `Publish` puts the next unpublished event on the broker and marks it, or fails
  to mark it, so that it is sent again. `Unlink` closes the connection.
* `WorkTake`, `WorkMark`, `WorkSucceed`, `WorkFail`, `WorkCache`, `WorkDrop`: the
  inbox row and RUNNING, the model, the terminal transaction, the cache and the
  acknowledgement, and a timeout, error or crash, after which the broker
  redelivers.
* `WatchExpire`, `WatchCache`, `WatchAbort`: the watchdog's transaction for an
  overdue reservation, in any order, and the cache write after it.

`ProjectedTask` joins each step that writes the cache, the view or the projector
queue with what it writes there (`SubmitCached`, `InlineViewed`, `CancelCached`,
`WorkCached`, `WatchCached`, `PublishFed`), keeps the others as `CommandOnly`, and
adds `Project` (inbox row and unconditional upsert in one transaction),
`ProjectCached`, `ProjectAbort`, `CacheExpire` and the poll, which looks in the
cache, then the view, then the command table, one await at a time.

### State and actions of `ReservedCallbacks`

`fate[c]` is what became of the event of cancel `c`: open while it is in the queue, the
schedule or with a dispatcher, then told, buried (dead letter), skipped (no enabled
subscription) or lost. `EnqueueCancel` queues the event after the CANCELLED state is
in the cache; dispatchers promote due events, take, look the subscription up, send,
and on failure retry or bury. Every hand-over removes before it adds, and a
dispatcher may fail between the two.

### State and actions of `StreamTask`, `Callbacks`, `Tokens` and `SigningKeys`

`bal`, `dirty`, `active`, `idem`, `marker`, `msg` and `hash` are Redis; `stored`,
`snap`, `status` and `ledger` Postgres. Each handler is again a family of actions.

* Submit: hydration of an absent balance (`Hydrate...`), the script, the marker, the
  transaction, the compensation, the clean-up. `GateLost`, `PersistError`,
  `UnadmitError`, `RequestAbort` are lost answers, failures and crashes.
* `Cancel...`, `Adjust...`: the transaction, and the Redis calls behind it with their
  retries.
* `WorkRead` takes a new message, `WorkClaim` one whose owner has been idle, alive or
  not; `Work` is the rest of a worker's handler, `WorkError` and what follows the
  path of an exception.
* `ReapMarker`, `ReapStuck`, `ReapStep`, `FlushRead`, `AuditRead`, `Expire`: the
  reaper's cycle, in any order and with its reads apart from its writes.

`suspect` collects the users to whom something has happened the code does not account
for (the module's header names each such event). Properties of balances speak of the
other users, and so say that nothing else leads astray. `missed` in `Callbacks` and
`gap` in `Tokens` are of the same kind: events lost by a list that removes before the
event is told, revocations that Redis has missed.

`Tokens` counts time in parts of a day, so that midnight can pass within a request
and a bucket can expire. `SigningKeys` has the clients a process has made, the key set
each holds and when it read it.

### State and actions of `LedgerTask` and `LedgerRead`

`transfer[t]` is TigerBeetle's pending transfer, `status[t]` the row, `active` the
counter in Redis, `outbox`, `log`, `sent` and `queue` an event on its way to a worker,
`cache` the hash and `view` the read model.

* Submit: count gate, idempotency gate, reserve, transaction (which may return the
  row of another request with the same key), count; each failure voids the transfer.
* `Cancel`, `Topup`, `Relay`, `Dispatch`, `Work`, and for the reconciler `Reconcile`
  (reads), `Align`, `AlignRelease`, `AlignCache`. `TimeOut` is TigerBeetle's
  timeout.
* `ProjectRead`, `ProjectApply`, `ProjectCache`; `Tell`; `RebuildReset`, `RebuildFill`;
  `ProjectMiss`, `TellMiss` are the batches a consumer skips.

`astray` collects the tasks whose counter step was cut off, whose commit's answer was
lost, or whose event was skipped.

### State and actions of `DeductedTask` and `DeductedRead`

`credits`, `active`, `keys`, `markers` are Redis, `status` and `ledger` Postgres,
`queue` the Celery messages with their retries, `syncs` adjustments not yet copied to
Redis. Submit, cancel, worker and reaper are families of actions as in the code;
`GiveSteps` is the common path of refund and slot. `DeductedRead` joins the worker's
write of the hash with the step that makes it, and adds polls and the end of an
outcome's life. `astray` and `rewritten` are the tasks a failure has hit that the
code does not account for, and the users whose balance a late hydration has reset.

### What is abstracted

* Payloads, models, results and error texts. One `Cost` per task: the model-class
  multiplier scales it and no property depends on it.
* The order of messages between tasks in one queue; copies of one message are
  counted.
* A hash in Redis is its status, in Solution 4 with or without the owner field.
* Time: a timeout is a step that may come at any moment the code allows it; only
  `Tokens` and `SigningKeys` have clocks.
* `EXPIRED` (Solution 2) is not a status any statement writes to
  `cmd.task_commands`; polls show it when the result's TTL is over.
* A TigerBeetle POST with amount 0 is taken as the code uses it: the whole pending
  amount.
* The hot and cold lanes of Solution 3 are one queue of which no message need ever be
  taken.

### Bounds and scenes

Faults are bounded in the guards of the fault steps only: `MaxLost`, `MaxAborts`,
`MaxRestarts` (Solution 4), `MaxFaults`, `MaxHookFaults` (Solution 2), `MaxMishaps`,
`MaxOutages`, and `failures`, `hookFailures`, `replays`, `rebuilds` of a scene. Requests,
tasks and workers are elements of finite sets; a request is made at most once, a
retry is another request with the same key. The proofs assume none of these bounds.

A scene is chosen in the initial state and never changes: which requests are made and
which workers run, how many failures there are, whether readers are active. One run
so covers several small instances, each with the bounds its question needs, instead
of one whose product no run could finish.

## 3. Runs

All runs use `CHECK_DEADLOCK FALSE`: requests are finite, and when they are done the
system rests. Every property of a passing run is shown to be refutable by a
mutated definition (`PROJECT.json` "mutants").

| Run | Instance | States | Shows |
|---|---|---|---|
| `DurableScenes` | one task with two cancels and a poll, one lost journal entry, one abort, one restart; a submission, its retry under one key and a cancel; the retry and a top-up; three top-ups of which two share an id and one is another user's; one credit; liveness | 187,868 | `CompletedIsCharged`, `CancelledIsFree`, `FailedIsFree`, `CacheNeverAhead`, `OneChargePerKey`, `TopupsGrantOnce`, `NoHoldForgotten`, `TerminalIsFinal`, `BillingSpec`, `AcceptedEnds`, `CancelDuringComputeEnds` |
| `ReservedRaces` | an inline task, a batch of two of which one is cancelled, two workers, the watchdog, a withdrawal, three credits, two slots, one fault; and two cancels of one task with two dispatchers, two attempts, one fault each; symmetric in workers and dispatchers | 1,974,386 | `HoldMatchesStatus`, `CreditsConserved`, `EventsMatchStatus`, `ActiveBounded`, `NotStranded`, `EventsHaveOnePlace`, `BillingSpec` |
| `ProjectedFaults` | a queued and an inline submission under one key, a cancel, a grant to an empty account, one worker; one fault; liveness | 263,682 | `OutcomesAreTrue`, `ViewKeepsOutcome`, `ViewCatchesUp`, `HoldsSettle` |
| `StreamRaces` | two submissions with one key or none, a cancel, a worker, the reaper, one failure; one submission with a worker and two failures; two credits | 5,915,348 | `LedgerMatchesStatus`, `NothingRunsFree`, `OpenTasksCounted`, `CachedOutcomesTrue` |
| `StreamRecovers` | a submission, a grant, two workers, the reaper, one failure; liveness | 189,573 | `TasksEnd`, `OrphansRefunded`, `SnapshotsCatchUp` |
| `ServiceScenes` | two dispatchers and one failure; a worker and a cancel that both have an outcome; a replayed dead letter; a token over two days of two parts each, one mishap; two signing keys, three ticks, one outage; liveness | 689,728 | `CallbacksTrue`, `CallbacksEnd`, `RevokedIsRefused`, `KeysFollowed` |
| `LedgerScenes` | nine scenes of up to two requests, a cancel, a top-up, two workers, the reconciler, one failure; four of them with projector, webhook worker and rebuild; two credits, one slot; liveness | 795,603 | `OutcomesArePaid`, `SlotsAccounted`, `PollsTellOutcomes`, `OutcomesReported` |
| `DeductedFaults` | seven scenes of up to three submissions, a cancel, a grant, two workers, the reaper, polls, up to two failures, one retry; two credits, two slots; liveness | 795,518 | `BooksBalance`, `TasksEnd`, `PollsKeepOutcome` |
| `DurableReplayCharges` | one task, one lost journal entry | violation | the replay of a capture fails a task it has charged |
| `DurableCancelStrands` | one task, one cancel, no fault | violation | a task stays CANCEL_REQUESTED |
| `RelayStopsForGood` | one task, one fault | violation | no event is published any more |
| `PollsGoBack` | one task, one cancel, no fault | violation | a poll answers COMPLETED, a later one PENDING |

Why the bounds are enough to be interesting. Two cancels are needed for one to
roll back over the other, and one lost entry, one abort and one restart for each
fault to meet each await; a second fault of a kind repeats a step from a state the
first one left. Two submissions under one key are a winner and a loser, one credit
makes them compete for it, and three top-ups hold a duplicate and a stranger. In
`ReservedRaces` three credits and two slots make both refusals happen, before and
after the withdrawal; a batch of two is refused as a whole; worker, watchdog and
cancel race for the same queued task, worker and watchdog for the other, the watchdog
and the request for the inline one. The one fault is spent where it meets the most:
a republished event gives two workers a copy each, a dropped delivery comes back, an
aborted transaction leaves its request to end. Two dispatchers can read the same due
event, and two attempts are one retry and one dead letter. In `ProjectedFaults` the
account is empty until the grant, so the retry under the key meets a refused, an
absent and an existing task.

In `StreamRaces` and `DeductedFaults` one failure meets every step of submit, cancel,
worker and reaper while the others run; the second failure is given to the life of one
task, where the compensation of the first can fail in turn (`DeductedFaults` also where a
worker, a cancel and a poll meet). Two workers are what a claimed or redelivered message
needs; `StreamRaces` has one, and what its invariants say of a second is shown by their
theorems. `OrphansRefunded` compares balance, counter and key with ledger and rows, so
neither a marker that merely expires nor a refund without its `INCRBY` satisfies it; one
failure is what makes the orphan, and a second one can lose its refund. One slot in `LedgerScenes` makes a
second request wait for the release of the first. Two parts per day are the least that
have a midnight inside a token's life and a bucket that outlives its day. Symmetry is
used in `ReservedRaces` only, which has no liveness property. What the instances
cannot show, larger ones, is what the proofs are for.

### Violations

Each refutes a sentence of the repository, quoted in `PROJECT.json` "findings".

* `ReplayChargesNoFailure`: "Each of these steps is journaled or idempotent"
  (`workflows.py:5-6`). `capture_credits` takes a fresh transfer id at each attempt.
  When it has taken effect and its journal entry is lost, the second attempt is
  refused, and the workflow fails the task and cannot release the posted transfer.
* `CancelRequestEnds`: "Cancellation at any point" (`src/README.md:15`). A cancel that
  commits between the workflow's check and its guarded `mark_failed` is never seen.
* `EventsArePublished`: "relay retries unpublished" (Solution 2, `data-ownership.md:300`
  under `src/.0_agentic_engineering/0_rfcs/`). The relay connects once.
* `PollsMoveForward`: "status only moves forward" (`data-ownership.md:213`). The
  projector writes the cache after its commit whatever the hash holds.

`FailedIsFree`, `AcceptedEnds` and `CancelDuringComputeEnds` are stated with the
exceptions these findings make (`lost > 0`, a cancel asked for, an expired transfer),
`ViewCatchesUp` with `~linked`, `NoHoldForgotten` with what `CutOff` lists (the request
or the cancel request was cut off, a journal entry was lost, a cancel stays requested),
`OrphansRefunded` with a second failure and `suspect`, and `TopupsGrantOnce` with `restarts = 0` because a
restart may seed an account again.

### Disagreements seen while modelling, without a run

Solution 4: a lost entry of `mark_running` leaves the task RUNNING
(`workflows.py:176-194`); start-up credits accounts again that lost their top-ups
to TigerBeetle's own mirror (`app.py:270-278`); a retry under a used key is refused
with 402 when the account is empty (`app.py:392`, against `README.md:177`); the
workflow caches a result without the owner's id, and polls are denied until the
entry expires (`workflows.py:374-384`, `app.py:478-480`); a poll's fill after a
cancel's eviction leaves an old status in the cache (`app.py:483-490`); a failing
cache write after admission fails the request without its hand-off (`app.py:420`).

Solution 2: an admitted task is answered 503 when the cache write fails
(`api/task_write_routes.py:650-663`); a cancel whose Redis write fails is answered 503
though it is committed, and its webhook is never sent, also not by a repeated cancel
(911-916); only cancels announce anything: worker, watchdog and inline requests end
tasks in silence; two racing cancels of one task both announce it; the dispatcher
loses an event it has popped or promoted when it crashes; a cached CANCELLED
entry is passed over for a view that may still say PENDING
(`api/task_read_routes.py:178-183`); overdue reservations do not count for
`max_concurrent`; one failing reservation ends a watchdog cycle; a batch has no
idempotency key.

Solution 1 (all reached in the model and put in `suspect`, `missed` or `gap`): a
worker that takes a message before its row is written, and meets an error,
acknowledges it, against the comment at `workers/stream_worker.py:464-465`; a refund is
retried as a whole after a lost answer and made twice (`services/billing.py:131`); the
reaper refunds again what an interrupted compensation has refunded; hydration and an
adjustment SET a balance that has changed since it was read (`services/billing.py:44`,
`api/admin_routes.py:74`); a lost answer to a commit refunds a task that runs on; webhook
events are lost with a crash or a failed call, and tasks the reaper fails are never
announced; a revocation that Redis missed is not enforced until Redis fails or a
process starts. The branch of `_load_jwt_claims` for a `PyJWKError`
(`app.py:334-362`) is not reached by an unknown key or a Hydra that is down, which
are refused with 401.

Solution 3: a CANCELLED task may be charged, when the worker posts before the cancel
voids (against RFC-0003's `data-ownership.md:281`); the reconciler never expires a
transfer that timed out, because a query still finds it pending (`workers/reconciler.py:154`);
`max_concurrent` is exceeded by requests that read the counter together
(`api/task_write_routes.py:230`); a decrement at zero is clamped by the reconciler only
(`workers/reconciler.py:81-85`); a batch that raises is skipped by projector and webhook worker
(`workers/projector.py:248`); the rebuild from SQL drops the results; a replay under a key
writes the status it read back to the cache.

Solution 0: the API dies between the commit of the row and `send_task`, and the task
is PENDING for ever (`api/task_write_routes.py:299`); an error of `send_task` after the
message went out, or along with a cancel, refunds twice; hydration as in Solution 1
(`services/billing.py:39-43`); a marker whose write failed is never refunded; refunds and the
worker's `INCRBY` are repeated after a lost answer; a retry that finds the task RUNNING
does nothing (`workers/worker_tasks.py:566`); an error in the last attempt's failure handler
leaves the task open to the reaper; an adjustment SETs `users.credits`, which no task
is debited from, over the live balance.

## 4. Fairness

Weak fairness of a handler's next step means that the event loop runs what has
begun unless it is aborted. First steps of clients, faults, crashes and losses are
never fair.

* `DurableTask`: a request's next step once started, the workflow's next step (Restate
  retries an invocation until it ends). Nothing is assumed of the transfer timeout.
* `ProjectedTask`: `Overdue` (time passes) and the loops that catch their errors:
  `WatchExpire` and `WatchCached`, `PublishFed`, `Project` and `ProjectCached`. Nothing is
  assumed of workers and requests: `HoldsSettle` holds because the watchdog needs
  neither. Once `linked` is FALSE, `PublishFed` is disabled, which is the finding.
* `StreamTask`: started requests, cancels and adjustments, workers, the reaper's next step (weak); that some
  worker comes to each message, and that the reaper's cycle comes to each marker, stuck
  task and dirty balance (strong: the loop visits other items in between, and the
  item may for a moment be held by another).
* `Callbacks`: a dispatcher's next step and the replay's (weak), and a pass that
  reads the whole schedule (strong: a dispatcher is busy with an event between passes).
* `LedgerRead`: started requests, cancels, the reconciler's look at each task and its
  next step, the relay, the projector, the webhook worker, the rebuild, the expiry of
  the hash, and a worker once it has a message (weak). That a message is ever taken is
  not assumed, since the dispatcher may put it in a lane no worker serves: then the
  transfer times out or a cancel ends the task.
* `DeductedTask`: started requests and cancels, workers with their cache writes, the
  reaper (weak).

## 5. Proofs

Assumptions: the `ConstantsOK` of each module (finite tasks, positive cost, functions
of the right type); for tokens also what the settings of Solution 1 say: a token lives
a day at most (`Life \in 1 .. OneDay`), a bucket outlives a token (`BucketsOutlast`: 36
hours, `core/settings.py:195`), and a behaviour lasts at least a day
(`OneDay <= Horizon`: it begins on the second day, so that there is a day before to
look up). No other. Every number of users, tasks, requests, workers and faults is
covered, and every scene.

**`DurableTaskProofs`.** `CompletedIsCharged` is not inductive: that a task is not
COMPLETED without a posted transfer depends on where the workflow and the cancels
are. `Safe` adds to `TypeOK`
what the program counters imply: before its INSERT a submission has no row and
after its reservation it has a transfer (`Admitted`); a row that is absent or PENDING
belongs to a workflow that has not got past its first step, and is not paid for
(`QueuedIsFree`); a hand-off or a cancel that is undoing owns the terminal status it
wrote (`UndoOwns`, `CancelOwns`, `OneCanceller`); only a captured task is marked
complete (`CapturedFirst`) and only a released one cancelled (`ReleasedFirst`);
with no lost entry a workflow before its last write still has a live row, so its
capture was its only settlement (`Lossless`); rows under one key differ
(`RowsDiffer`). `Safe` is
shown inductive action by action and gives `TypeCorrect`, `CompletedIsAlwaysCharged`,
`CancelledIsAlwaysFree`, `FailedIsAlwaysFree`, `KeyIsChargedOnce` and
`TerminalIsAlwaysFinal`. `CacheIsNeverAhead` adds that a poll about to fill the cache
and a workflow about to cache its result hold a COMPLETED that stays (`Copies`).
`NeverOverdrawn` splits steps into those that add credits or free transfers and the
reservation, which the balance covers; `TopupsAlwaysGrantOnce` counts ids.
`NoHoldIsEverForgotten` needs to know who is to settle a pending transfer, and that
depends on who wrote the status last: `Held` lists, status by status, the steps of
request, cancel requests and workflow that own it (a CANCELLED row with a pending
transfer is a cancel request's, a PENDING one the submission's or the workflow's first
step), and is inductive next to `Safe`. `ImplementsCreditHold` shows that every step maps to a
grant, a hold within the available credits, a settlement or a stutter.

**`ReservedTaskProofs`.** Every step does one of six things to tasks and money:
`Admits`, `Settles`, `Marks`, `Ages`, `Pays` or `Idles` (lemma `Effect`). The
invariant `Safe` is proved from these six and not from the forty actions:
`RowsAndMoney`, `RestTypes`, `Busy` (what a program counter says of its task),
`Fresh` (a request that has not been admitted has no rows), `HoldMatchesStatus` and
`Conserved`, whose step rests on lemmas about cardinalities of the charged sets.
`Story` (the outbox) and `Started` and `Delivered` (queued tasks and their copies)
come on top. Results: `TypeCorrect`, `HoldAlwaysMatches`, `CreditsAlwaysConserved`,
`EventsAlwaysMatch`, `ActiveAlwaysBounded`, `OneTaskAlwaysPerKey`, `NeverStranded`,
`ImplementsCreditHold`.

**`ProjectedTaskProofs`.** `ReadImplementsCommand`: `ReadSpec` implies `Spec`, so all
results about the command side hold with the read side in place. `ReadSafe` says that
every copy fits its task: a view row, a cache entry, an undelivered event and a
pending cache write each carry an outcome only if the command table has it. It needs
`HoldMatchesStatus` and the outbox's story from the command side, and gives
`ReadTypeCorrect` and `OutcomesAlwaysTrue`. `ViewAlwaysKeepsOutcome` needs to know in
which order the projector hears of a task, for it upserts whatever it gets (`Ordered`):
until it has applied the submission of a queued task, that submission is the head of
its queue, an inline task has none, and its inbox skips it ever after, so the only
event that can still be applied to an ended task is the outcome itself.

**`ReservedCallbacksProofs`.** `CallbacksImplementCommand`: `HookSpec` implies `Spec`.
`EventsHaveOnePlace` is about positions in a queue, on the schedule and in hands;
`HookSafe` makes it inductive: a dispatcher between taking an event and the end of
the hand-over holds one (`HandsFull`), no two places hold events of one cancel
(`OneOwner`, for each pair of kinds of place), an event's fate is open exactly while
it is somewhere (`UnderWay`), and only a cancel that has committed and has no fate yet is
about to announce, of a task that is CANCELLED (`Announcing`). Every step is one hand-over,
which takes the event out of a place before it puts it into the next. Results:
`EventsAlwaysHaveOnePlace`, `CallbacksTypeCorrect`.

**`StreamTaskProofs`.** `RowsMove` says what a step can do to a task's row and ledger.
`Safe` adds to `LedgerMatchesStatus` what each actor has found out and still relies on
(`RowsFollow`, `WorkersKnow`, `CancelsKnow`, `ReaperKnows`), that caches tell nothing but
the row's outcome (`CachesTrue`), and that one actor at most is to give back what a task
held (`OneEnds`). It gives `TypeCorrect`, `LedgerAlwaysMatches` and
`CachedOutcomesAlwaysTrue`. Two properties count tasks: `Owing(u)` are those whose cost is
charged in the ledger or in the hands of an actor that may still refund it, `Holding(u)`
those that are open or whose slot an actor is still to give back. `Accounts` says what a
step does in Redis: nothing, or it admits one task, refunds one, gives one slot back, or
fills in a balance. The invariant is `CreditsAndSlotsCovered`: a balance is at most
`users.credits` less the cost of the owing tasks, a value about to be written to it is at
most `users.credits` (`ReadsCovered`), and the counter is at least the number of holders.
As `suspect` excuses a user to whom a failure has happened that the code does not account
for, this is said of the others. Results: `NothingRunsFreeEver`,
`OpenTasksAlwaysCounted`.

**`StreamServiceProofs`.** Callbacks, tokens and keys leave the tasks alone
(`ServiceImplementsTasks`), so all of the above holds of the service. For its parts:

* `HookSafe`: every event, wherever it is, tells its task's outcome (`EventsGood`), is in
  one kind of place (`OneKind`) and there once (`Singles`). Hence `CallbacksAlwaysTrue`.
* `KeySafe`: the keys a client holds are published, or were withdrawn after the client
  was made; a verification searches in a client that was within its lifetime when the
  verification began, a tick ago at most. Hence `KeysAlwaysFollowed`, by what each end of
  a search for a key has read (`EndsFollow`).
* `TokenSafe`: a revocation that Redis has not missed is in the bucket of a day, that
  bucket outlives the token, and the day is still looked up when the token expires
  (`Bucketed`); a request that knew of the revocation when it began looks into that
  bucket (`FindsIt`). The arithmetic is that of two days: a token of at most a day,
  revoked on day d, expires on day d + 1 at the latest (`DayFacts`). Rehydration puts a row
  into the bucket of the day it was revoked, which is the same argument. Hence
  `RevokedAlwaysRefused`, for every `OneDay`, `Life` and `BucketTtl` as assumed.

**`LedgerTaskProofs`.** `RowsMove` says what a step can do to the row and the transfer
of a task. `Safe` adds to `OutcomesArePaid` what each actor has found out about its
task and still relies on: a request before its commit has no row (`RowsFollow`), a worker
about to complete has a posted transfer and one about to fail a voided one
(`WorkersKnow`), a cancel's task is CANCELLED (`CancelsKnow`), the reconciler's reading
of the transfer is final (`ReconKnows`). It is inductive because a settled transfer and
a terminal row do not change. `SlotsAccounted` is about cardinalities of three sets of
tasks (open, to be counted, to be released); it rests on `OneReleases`, that no two
actors are about to give back the same slot, and on `SlotEffect`, that a step concerns
one task in each set. `ImplementsCreditHold` maps what a step does to transfers and
top-ups (`BillEffect`) to a step of `CreditHold`. Results: `AlwaysSafe`, `TypeCorrect`,
`OutcomesAlwaysPaid`, `SlotsAlwaysAccounted`, `ImplementsCreditHold`.

For `LedgerRead`, in the same module: readers leave the command side alone, so its
results carry over (`OutcomesPaidWithReaders`, `SlotsAccountedWithReaders`,
`ImplementsCreditHoldWithReaders`). `CopiesTrue` says that hash, view and every status
an actor is about to write tell an outcome only if the row has it; with `Safe` it is
inductive and gives `PollsAlwaysTellOutcomes`.

**`DeductedTaskProofs`.** Solution 0's books balance exactly, but only for what no failure
has led astray, so the invariant is stated task by task. `Safe` has the types, what actors
rely on (`RowsFollow`, `WorkersKnow`, `CancelsKnow`), and for each task not in `astray` that
it is `Sane`: request, ledger and reaper agree about it (`RequestSane`, `LedgerSane`,
`ReaperSane`) and one actor at most is to give back its credits and slot (`OneEnds`). Its
credits and its slot are then held by exactly one of request, row, cancel, worker and
reaper; a step takes one task into the set of holders, out of it, or leaves it
(`Effect`: `Takes`, `Refunds`, `Frees`, `Keeps`), and balance and counter move with the size
of the set (`Balanced`). A hydration or an adjustment that arrives late writes a stale
balance only when nobody holds credits, or marks the user `rewritten`. Results:
`TypeCorrect`, `BooksAlwaysBalance`. For `DeductedRead`, `BooksBalanceWhenRead` carries this
over, and `ReadSafe` says that hash and answers tell the row's outcome (`ShownTrue`,
`ToldTrue`) and that when an outcome's life is over no worker is left that could show it
again (`AgedOver`, `Quiet`), which gives `PollsAlwaysKeepOutcome`.

The type invariants of these modules and `OneTaskPerKey` are proved and not run: the
theorems say more than a run would. Every safety invariant and every action property
of a passing run is the subject of a theorem.

Only model-checked: liveness, which needs fairness and ENABLED and is out of the
prover's reach (`HoldsSettle`, `AcceptedEnds`, `CancelDuringComputeEnds`,
`ViewCatchesUp`, `OutcomesReported`, `TasksEnd` twice, `OrphansRefunded`,
`SnapshotsCatchUp`, `CallbacksEnd`). What the four violation runs state is false, and has
no theorem. No module uses a RECURSIVE operator.

## 6. What could come next

Proofs: what is left of a promise after a failure the code does not account for, for
instance that the balance of a user in `suspect` is off by one cost per failure at most,
and the same of a counter.
Models: Solution 3's rebuild from the log, Solution 0's flush of balances to snapshots,
whose GET and SREM race with the worker's refunds, trimming of the stream and of webhook
queues.

## 7. Not modelled

* Settings, logging, metrics, tracing, migrations, `scripts/` and load generators: they
  keep no state of the protocol. The transactional variants of the admin update that
  only a benchmark calls are left out with them.
* The token code of Solution 2 is Solution 1's, which `Tokens` and `SigningKeys` model.
  Solution 3 decodes tokens without revocation; Solution 4 looks an API key up.
  OAuth scopes, the rate limit of token requests and the API-key exchange of Solution 1
  are independent of everything modelled.
* Solution 4: Restate's registration and the cache of API keys; the compute worker's own
  arithmetic. Its outcome is a choice of `WorkCompute`.
* Solution 3: the rebuild from the event log, the registry of warm models (which only
  chooses a lane), the single attempts of one webhook delivery, and the start of the
  webhook consumer's group at the end of the log (`auto_offset_reset="latest"`,
  `workers/webhook_dispatcher.py:280`), which passes over what was written before.
* Solution 2: deletion of old outbox and view rows, which nothing reads again; back-off
  times and trimming of webhook lists.
* Solution 1: stream checkpoints (written, never read), heartbeats, `MAXLEN` and `LTRIM`
  trimming (at sizes far from any instance), purges of old audit rows, TTLs of caches
  whose expiry only makes a poll read the row, the TTL of idempotency keys in Redis
  (after it a retry is admitted and refunded, because the unique index still has the
  row).
* Solution 0: the flush of balances to snapshots and the set of revoked ids, which only
  Celery reads.

## 8. Running

In this directory, `tlc -config DurableScenes.cfg MCDurableScenes` checks a run (the
module of each run is in `PROJECT.json`; the longest takes some minutes), and
`tlapm ReservedTaskProofs.tla` checks the proofs of a module.
