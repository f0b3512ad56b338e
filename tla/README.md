# MediaOS: specifications of the API's concurrent core

MediaOS is a multi-tenant business application: a NestJS API over PostgreSQL
(row-level security by company), several single-page applications, and shared
contract packages. The API runs in several instances at once. This directory
holds TLA+ specifications of the parts of the API whose correctness depends on
the order in which instances, transactions and clocks take their steps, the TLC
configurations that check them on small instances, and TLAPS proofs of their
main properties for every value of the constants.

Contents: [the system](#1-the-system), [modules](#2-modules),
[outbox](#3-outbox), [job scheduler](#4-job-scheduler),
[sequences](#5-sequences), [leave](#6-leave-requests),
[leave on attendance](#7-leave-on-attendance-records),
[idempotency](#8-idempotency-keys), [chat calls](#9-chat-calls),
[proofs](#10-proofs), [findings](#11-findings), [limits](#12-limits),
[plan](#13-plan), [running](#14-running).

## 1. The system

The paths below are relative to `src/apps/api/src`.

| Component | State it keeps | Operations | Hard because | Correct when |
|---|---|---|---|---|
| Event outbox (`events`) | `outbox_events`, `processed_events`, `dead_letter_events`; the batch of each instance | enqueue in a business transaction; reap, claim, dispatch, retry, dead-letter, finalize | every instance polls; `processBatch` is a sequence of autonomous statements; the reaper cannot tell a dead worker from a slow one | every consumer of an event is served or dead-lettered, nobody gives up early, closed events stay closed, every event is closed |
| Job scheduler (`scheduler`) | `system_job_locks`, `system_job_runs` | timer, acquire, run per tenant, log, release | leases expire under running jobs; any statement of the log may fail or lose its answer | one instance per job, a truthful log, every tenant served |
| Sequences (`foundation/sequences`, callers in `employees`, `tasks`, `leave`) | `sequence_counters`, `employee_code_configs` | allocate, provision on a miss, synchronise with the config, edit | row locks are taken after plain reads; creation races; the period is read before the transaction | no duplicate code, no code from an inactive counter, counter and config agree |
| Leave requests (`leave`) | `leave_requests`, `leave_balances`, `leave_balance_transactions`, policy | draft, submit, approve, reject, cancel, revoke; upsert, adjust, accrue | the request's row is locked, the balance's is not; the policy may change between submit and decision; cancel takes two transactions | the balance is the sum of the requests, the ledger explains each, a settled request stays settled |
| Attendance (`attendance`) | `attendance_records`, `leave_request_days.attendance_sync_status` | check in and out, adjust, project approved leave, revert it | the projection is an outbox consumer, the revert runs inside cancel | a day is on leave exactly while an approved request covers it |
| Idempotency of commands (`common/idempotency`) | a key per command in Valkey or in memory | begin, complete, release | TTL, outage, process death between command and completion | a command runs once, and again only for a lapse of the key; a replay is the answer of the same body |
| Chat calls (`chat`) | `chat_calls`, `chat_call_participants`, room members | invite, accept, reject, cancel, hang up, leave the room, two sweeping jobs | a room exit writes what it read without a lock; seven paths end a call | rows that tell how the call went, every end announced, no room blocked by a dead call |
| Sessions and access (`auth`, `permission`, `users`, ...) | sessions, refresh tokens, role tables, a cache | login, refresh, revoke, decide | rotation against reuse, cache staleness | a revoked token never works again |
| Tasks, goals, payroll, recruitment, assets, rooms, chat messages, files | rows of their own | CRUD and small workflows | mostly single-row updates | state machines of the rows |
| Notifications, dashboards | `notifications`, read models | consume events, read | duplicates of events | idempotent consumers |
| Tenant transactions (`db`) | none | `withTenant`: one READ COMMITTED transaction with the tenant set | it decides what a step is | atomicity, isolation by tenant |

How they interact:

- A service changes its rows, writes its audit row and calls
  `OutboxService.enqueue` inside one `withTenant` transaction. The outbox of
  every instance later calls the consumers registered with the `EventBus`:
  notifications, `attendance-leave-sync`, chat and others.
- `WorkerSchedulerService` finds the handlers that `@SystemJob` marks (leave
  accrual, carry-over, retention, ...) and runs them under leases.
- Whoever creates an employee, a task or a leave request takes its code from a
  sequence counter, in transactions of its own.
- Cancelling approved leave calls attendance directly, in the same transaction;
  approving it calls attendance through the outbox.

`PROJECT.json` lists every component, with a status and a reason for the ones
that are not modelled, and the hazards of the code, each with its line.

## 2. Modules

| Component | Specification | Instance for TLC | Proofs |
|---|---|---|---|
| Outbox | `Outbox`; promise `EventDelivery`; mapping `OutboxDelivery` | `MCOutbox` | `OutboxProofs`, `OutboxCostProofs` |
| Job scheduler | `JobScheduler` | `MCJobScheduler` | `JobSchedulerProofs` |
| Sequences | `SequenceCounter` | `MCSequence` | `SequenceProofs` |
| Leave requests | `LeaveRequest`; promise `LeaveAccount`; mapping `LeaveAccounting` | `MCLeave`, `MCLeaveAttendance` | `LeaveRequestProofs` |
| Leave requests with attendance | `LeaveAttendance`, which extends `LeaveRequest` | `MCLeaveAttendance` | `LeaveAttendanceProofs` |
| Idempotency keys | `Idempotency`; promise `CommandOnce` | `MCIdempotency` | `IdempotencyProofs` |
| Chat calls | `ChatCalls` | `MCChatCalls` | `ChatCallsProofs` |

Conventions. A step is one SQL statement, one call of a handler, or a whole
transaction when nothing it reads can be changed by another before it commits.
Row locks are sets of holders or are derived from the stage of the calls. Time
is kept as ages in ticks, so that the state space is finite without a bound on
the clock. Budgets (`MaxCrashes`, `MaxErrors`, `MaxStalls`, `MaxOverruns`,
`MaxStraddles`, `MaxEdits`, `MaxAborts`, `MaxChanges`, `MaxOutages`,
`MaxUncached`, `MaxSinkErrors`, `MaxRunning`) count what the environment may do; they are constants of the specification, and the proofs
hold for all of their values. Operators that stand next to a definition and
vary it (`IsStale` / `StaleAtAnyAge`) are plausible mistakes; nothing refers to
them, and `PROJECT.json` pairs each with a property that notices it.

## 3. Outbox

`Outbox.tla` is `OutboxWorker.processBatch` of any number of instances. The
variables `status`, `attempts`, `age`, `backoff` are the row of an event (`age`
stands for `now() - updated_at`, `backoff` for `available_at - now()`),
`processed` and `dead` the other two tables, and `pc`, `batch`, `cur`, `todo`,
`cons`, `allOk` the local variables of an instance. `handled`, `failures`,
`alerted` and `logged` record what consumers, the alert sink and the log have
seen. `Rank` is the order in which consumers registered with the `EventBus`,
which is the order of their visits.

| Code | Action |
|---|---|
| `OutboxService.enqueue`, at commit | `Enqueue` |
| reaper UPDATE | `Reap` |
| claim with SKIP LOCKED and LIMIT | `ClaimBatch` |
| `processEvent`: look up consumers, `isProcessed` | `PickEvent`, `VisitConsumer` |
| `consumer.handle` returns; throws | `HandleOk`; `CatchError` (also when `markProcessed` throws, its row written or not) |
| `markProcessed` | `MarkProcessed` |
| `deadLetter`: insert; alert sink, which may throw | `DeadLetter`; `Alert` |
| `finalizeStatus`, `setStatus` | `Finalize` |
| death of the instance, or an exception outside the `try` | `Abandon` |
| time | `Tick` |

`Tick` counts a *stall* when it makes a row stale that a live worker still
holds. Without stalls claims are exclusive; with them two instances dispatch the
same event concurrently, and the last `Finalize` wins whatever the row holds.

`EventDelivery.tla` is what the rest of the application may rely on: every
consumer of a published event is settled once, by a delivery or a dead letter,
an event is closed only when all are settled, and a settled consumer never hears
of the event again. `OutboxDelivery` maps the tables to it.

Giving up is not the opposite of delivering. `markProcessed` stands inside the
`try`: if its INSERT commits and the answer is lost, the `catch` counts a failure
of a consumer that was served, and on the last attempt writes a dead letter for it.
`EventDelivery` therefore lets a consumer that has heard the event be given up on
too, settled or not. It is the only case in which a settled consumer is; and the
lost answer never leads to another call of the handler.

A sink that throws loses its alert for good, because the row of the dead letter is
there already; the `catch` writes it to the log, and `logged` remembers it. A dead
letter is *silent* when it reached neither the sink nor the log.

Runs:

- `outbox_timely`: two instances, two events (one with two consumers), batches
  of two, two attempts, one crash at any step, no stall. `ExclusiveDispatch`,
  `DuplicatesArePaidFor` (each repeated handler call is paid for by a crash or a
  failed visit), `TerminalIsFinal`, and `ImplementsDelivery`.
- `outbox_stalls`: one event with two consumers, one stall and one crash.
  `NoConsumerSkipped`, `ProcessedIsAccountedFor`,
  `DeadLetterOnlyAfterMaxFailures`,
  `SilentDeadLettersCostCrashes` (one crash makes at most one dead letter silent;
  a throwing sink, lost answers and concurrent dispatch make none), and
  `EveryEventTerminates`. One alert throws in the sink (`MaxSinkErrors`).
- `outbox_silent_done`: a finding, see section 11.

Bounds: two workers give every pairwise race, and there is no statement in which
three meet that two do not already reorder; two attempts distinguish the first,
the last and the overwritten attempt; two consumers distinguish the one that
failed from the one that did not. Throwing sinks are left to `outbox_stalls`:
nothing but the dead letters depends on them, and the proof of the refinement
includes them. The proofs remove the bounds for everything but liveness. A crash
loses the answer of any statement, since the instance may die after each; what is
left out is a statement that takes effect only after its caller has gone on.

Fairness: `WF(ProcessBatch(w))`, because the poll loop runs again after every
batch and the model assumes that a consumer returns or throws, and `WF(Tick)`.
Enqueue and crashes are not fair. A consumer that never returns stops its
instance's loop; the code has no timeout for it.

## 4. Job scheduler

`JobScheduler.tla` is a round of the timer over the jobs, in every instance.
`until` and `lockedBy` are the row of `system_job_locks`; `lease` is what the
instance would know if it looked at the clock (the code does not, and never
renews). `row`, `verdict` and `orphaned` are the run log. Any statement may
fail, applied or not: the answer can be lost after the commit.

| Code | Action |
|---|---|
| `WorkerSchedulerService.tick`, `runSystemJobs` | `StartRound`, `NextJob` |
| `JobLockService.acquire`, `release` | `Acquire`, `Skip`, `AcquireError`; `Release` |
| `JobRunner.runJob`, tenant enumeration | `List`, `NextTenant` |
| `runForTenant`, `JobRunLogger.start` and `finish` | `Start`, `StartError`, `HandlerReturns`, `HandlerThrows`, `Finish`, `FinishFailed` |
| process death and restart, time | `Crash`, `Restart`, `Clock` |

Runs:

- `job_scheduler`: two instances, one job, two tenants, a crash, a failing
  statement, and a run that outlives its lease. `OverlapIsPaidFor` bounds the
  number of concurrent runs of a job by the number of overruns, plus one while a
  lease is in force; `RowIsTruthful`, `NoForgottenRun` and `RunStatusIsFinal` are
  about the log; `LockedForAReason` says that no tick is skipped for a run that
  is over, unless something failed; `EveryTenantIsServed` is `[]<>` for every
  job and tenant.
- `job_fresh_overlap`: a finding, with three instances.

Bounds: TTL 2 leaves room for a clock tick inside and at the end of a run; two
instances show takeover, and three are needed only to show the chain in the
finding. Jobs have rows of their own and meet only in the round of an instance,
which the proofs cover for any number of them; one job is enough for every race
on a row. Fairness: timers fire, calls return, a dead instance is restarted, the
clock advances; crashes, errors and overruns are finite in number, because no
tenant can be served if every run is interrupted.

## 5. Sequences

`SequenceCounter.tla` is one counter with three kinds of callers: requests that
allocate a code and provision the counter when it is missing, PATCHes of the
employee-code configuration that are synchronised into the counter, and direct
edits. `counter` and `config` are the committed rows, `rowLock` and `configLock`
who holds them, `row` and `draft` what a caller has read, `asked` the period
taken from `now` before the transaction opens.

| Code | Action |
|---|---|
| `nextCode`: `now`, lock, compute, write | `NextCode`, `LockRow`, `WriteValue`; `RowMissing` |
| `ensureEmployeeCodeCounterFromConfig`, `ensureCounterTx` | `ReadConfig`, `FindCounter`, `InsertRow`, `CommitEnsure` |
| `updateConfig`, `syncCounterConfigTx` | `PatchConfig`, `SyncCounter`, `UpdateRow`, `CommitPatch` |
| `updateSequence` | `UpdateSequence` |
| rollback | `Abort` |

Prefix, suffix, pattern and padding are one `Format`. Within a format a code
determines its number and, for a counter that resets, its period, so that
`NoDuplicateCode` compares those; codes of two formats may coincide as strings,
which is a decision of the administrator who edits them. A behaviour starts with
no counter, with one that does not reset, or with one that resets by period
(`Start`); no counter that the application provisions resets by itself, so the
last stands for one whose policy an administrator set, and the policy is constant
in a behaviour. A configuration row is assumed to exist.

Runs:

- `sequences`: two requests, two PATCHes with increments of one and two, one
  direct edit, one failing transaction and one change of period, from each of the
  three starts. `NoDuplicateCode`; `EnsureIsEnough` (a request that provisions
  the counter finds it afterwards); `NoCodeFromInactive`; `SeededFollowsConfig`
  (a counter that existed from the start and was edited through the configuration
  only agrees with it whenever no PATCH is under way); `EveryCallEnds`, under weak fairness of every caller: a
  server answers the calls it has accepted.
- `seq_drift`: a finding.

Two requests race for the creation of the row and for its value; the proofs cover
any number. Two PATCHes are what it takes for one to overwrite the other.

The run sets `MaxStraddles = 0`: no period ends between a request's reading of
the time and its commit. With `MaxStraddles = 1` and a counter that resets,
uniqueness fails: a request that read the time before midnight and got the row
after a request of the new day finds a reset "in another period" and sets the
counter back, and the next two requests repeat codes. That is the assumption
under which the theorem is stated, and it is in its statement.

## 6. Leave requests

`LeaveRequest.tla` is the requests of one employee for one type and year and the
balance row they draw on. `call` holds the HTTP calls in progress with their
local variables. A call holds its request's row from `SELECT ... FOR UPDATE` to
its commit, and never the balance: that is what the interleavings are about.

| Code | Action |
|---|---|
| `createDraft`, `updateDraft` | `CreateDraft`, `UpdateDraft` |
| `submit`, also `submitNow` of `createDraft`: lock and policy; overlap; limit; writes | `StartSubmit`, `CheckOverlap`, `ReadBalance`, `CommitSubmit` |
| `approve` | `StartApprove`, `CommitApprove` |
| `reject` | `Reject` |
| `cancel`: status in one transaction, act in another | `PeekCancel`, then `CancelOpen` or `CancelApproved` |
| `revoke` | `Revoke` |
| rollback | `Abort` |
| `upsertBalance`, `adjustBalance`, accrual job, `updatePolicy` | `UpsertBalance`, `AdjustBalance`, `Accrue`, `EditPolicy` |

Days are integers: the columns are `numeric(5,1)`, and a model unit is a tenth.
The rules a call uses are those it has read, while an administrator may change
them. The ledger is per request, in order. `upsertBalance` writes no ledger row
and the accrual and adjustment rows belong to the total, so that the ledger of
the total is not part of this model.

`LeaveAccount.tla` is what the rest of the application may rely on, without locks,
calls, policies or administrators: a request takes its days of the row once, when
it is submitted, an approval turns exactly those days into used ones, and whatever
closes the request gives back exactly what it has, each in one step with its rows
of the ledger. `LeaveAccounting` maps the workflow to it: a request is open
(absent or draft), pending, approved or closed, and has the days its effect says
(`Reserved` or `Used`).

Runs:

- `leave_workflow`: two requests, three periods (two overlap), two calls, four
  policies, one administrative change, composed with attendance (section 7).
  `BalanceIsSumOfRequests` (the pending and used days of the row are those of the
  requests that hold them), `EffectMatchesStatus`, `SettledIsFinal`, and
  `ImplementsAccount`, the refinement of `LeaveAccount`.
- `leave_parallel_submits`, `leave_debt`: findings, without administrative
  changes.

Bounds: two requests are what it takes for one to invalidate what the other has
read; more calls than two add no new pair. One administrative change is a policy
edited between submit and decision, or a total that shrinks after the check; every
property of this run is also a theorem for any number of changes (section 10).
There is no liveness here: a request waits for people.

`CHECK_DEADLOCK FALSE`: when all requests are settled and the budget is used the
system stops.

Two behaviours a reader may find surprising are in the model because they are in
the code: a request of a type that deducts but does not reserve is approved
without ever touching the balance; and the overlap check reads without a lock,
so that two overlapping requests submitted together both become Pending.

## 7. Leave on attendance records

`LeaveAttendance.tla` extends `LeaveRequest`: the steps that approve, cancel and
revoke are those of the workflow, conjoined with what the code does to the days
of the request in the same transaction. `event` is `leave.request.approved` for
the one consumer that matters here, `sync` the `attendance_sync_status` of the
days, `running` the runs between their reading and their writing, `recorded` and
`leaveOn` the attendance records, `punch` a clock-in or clock-out between its
checks and its write. `raced` is history: what each request has met.

| Code | Action |
|---|---|
| `approve`: `markDaysSyncPendingTx`, `outbox.enqueue` | `Approve` = `CommitApprove` and `PublishApproval` |
| `undoApprovedTx` of `cancel` and `revoke`: `revertRequestTx` | `CancelLeave`, `RevokeLeave`, with `RevertDays` |
| `syncApprovedRequestTx`, from the consumer or from `recalculate`: read the days; write the records; fail | `StartRun`; `CommitRun`; `AbortRun` |
| the consumer finds no day to synchronise | `NothingToDo` |
| the outbox gives up | `Bury` |
| `checkIn`, `checkOut`: checks; write; fail | `StartPunch`; `CommitPunch`; `AbortPunch` |

The outbox is used through its promise: as in `EventDelivery`, an event is owed
until it is done or dead, and one that was handled may be handled again. A run
locks nothing of the request, so the request can be undone between its reading
and its commit.

The `catch` around one day has two outcomes. After a database error PostgreSQL has
aborted the transaction: what the `catch` writes fails too, the whole run rolls back
(`AbortRun`) and the event stays owed. After any other error (no user of the request
is found, a write returns no row) the transaction is healthy: the day is recorded as
`Failed`, the run commits with the other days and the event is done. `CommitRun`
chooses the days that fail in this way. No later run takes such a day up again:
`findSyncableDaysTx` is asked for `Pending` days only, by the recalculation too,
though the comment of `AttendanceInternalController` says that it takes
"Pending/Failed" ones; and the revert leaves it alone, since it looks for `Synced`
days. All days are whole working days, and the rule in force
blocks clocking in on approved leave (`blockWhenLeaveApproved`, the default). Two
clock-ins on one date are settled by the unique key on the record.

Run: `leave_workflow`, with one date that both overlapping periods contain.

- `GhostLeaveIsPaidFor`: leave that was cancelled or revoked shows on a record
  only if a run was writing it when it was undone, or if a second run, which had
  read the day before the first one committed, has marked it `Failed`. The code does
  leave such ghosts: a run does not look at the request again before it writes, and
  the revert passes over a `Failed` day whose record an earlier run has written.
- `ApprovedLeaveShows`: the synchronised days of an approved request are on
  leave, unless the employee was clocking in when it was approved, or another
  request for the same date was undone since (the revert clears the date,
  whoever's leave it showed).
- `NoApprovedDayForgotten`: each day of an approved request is synchronised, or
  stands as `Failed` where a person can see it, or waits with an event that is owed
  or a dead letter.

Bounds: besides those of section 6, two runs at a time (`MaxRunning`) and the
restriction `Apart` of `MCLeaveAttendance`: records are written only in behaviours
without administrative changes, under the strict policy and beside one HTTP call at
a time, and the employee clocks in, and runs overlap, only while one of the two
requests does not exist. The restriction keeps apart parts of the state that do not meet (policies and totals on one side,
records on the other); the proofs are about the specification without it.

## 8. Idempotency keys

`Idempotency.tla` is the calls that carry one `Idempotency-Key`, each with a body
of its own. `key` and `record` are what the store holds, `pc` where each call is,
`ran` the calls whose command was committed, `answers` who was answered with whose
response. The store is Valkey, or the memory of the only instance; a command to
Valkey may fail, applied or not, and `ValkeyService` turns the error into a value
that the store takes for an answer.

| Code | Action |
|---|---|
| `begin`: SET NX; GET; SET | `Claim`, `ClaimFails`; `Read`, `ReadFails`; `Mark` |
| the handler commits; throws before; throws after | `Commit`; `Throw`; `ThrowLate` |
| the interceptor's `tap` and `catchError` | `Respond`, then `Complete`; `Release` |
| TTL of the marker (900 s) and of the record | `Expire` |
| death of an instance, with the memory when the key is there | `Crash` |

Between SET NX and GET the key may disappear, and the marker is then written
without NX; `complete` and `release` never look whose key it is; nothing renews
the marker of a slow handler. `CommandOnce.tla` is what a client may rely on all
the same: a run beyond the first is paid for by a *lapse* of the key (an expiry, a
key that vanished between two commands, the loss of the memory, a failed store
command, a response that was not kept), and every answer comes from a run of the
same body.

Run `idempotency`: three calls, two of them with the same body, one outage, one
crash, one response not kept. `ImplementsOnce` is the refinement;
`CalmMeansOnce` needs no count: with no lapse and no failed handler the command
runs once, dead instances included; `KeyComesFree` is liveness: a marker whose
holder died does not refuse retries for ever. Three calls are one that holds, one
that takes over and one that comes late; the proofs cover any number. Fairness:
`WF(Expire)`, because a TTL runs out whatever happens, and `WF(Step(c))`, because
the server answers.

## 9. Chat calls

`ChatCalls.tla` is the calls of one room. `status`, `initiator`, `answered` are
the row of a call; `outcome`, `joined`, `departed` those of its participants;
`members` the room's. `age` is the last threshold the live call has passed
(ring time-out, grace for an orphan, maximum duration). `exit` holds what a
transaction that removes a member has read, `late` who left with a request perhaps
under way. `owed`, `told` and `lost` are the events that say how a call ended:
committed and not yet emitted, handed to the emitter, gone.

| Code | Action |
|---|---|
| `ChatCallsService.invite` with `expireStaleTx` and `capInvitees` | `Invite` |
| `lifecycleTx`: `accept`, `reject`, `cancel`, `hangup` | `Accept`, `Reject`, `Cancel`, `Hangup` |
| a request that is refused after its actor left | `Refused` |
| `leaveRoom`, `removeMember` with `closeCallParticipationOnRoomExit`: read; write | `StartExit`; `CommitExit` |
| `ChatDerivedRoomsSyncService.applyLeavesTx`, `applyOffboardLeavesTx` | `DerivedLeave` |
| `addMember` | `AddMember` |
| `emitLifecycle`, `emitExpired`, `emitAutoEnded`, after the commit: the emitter takes the event; it throws, or the process died before | `Emit`; `Lose` |
| `chat-call-ringing-timeout`, `chat-call-stale-active-sweep` | `RingingTimeout`, `StaleActiveSweep` |
| time | `Grow` |

The UPDATE of a call's row makes its writers wait for each other, so that the
writes of a transaction are one step. A room exit takes no such lock: what it read
(was the call answered, had the person joined) may be stale when it writes.
Membership is read early in a request; `Admitted` lets the request of somebody who
has left meanwhile go on. Who leaves a derived room with the department or the
company keeps an open row in its call, which only the sweeps close.

These events do not go through the outbox. They are emitted once, after the commit,
each in a step of its own, so that other requests and jobs come in between, and a
process that dies before, or an emitter that throws, loses them for good: the other
side goes on ringing. The model has that loss. What must hold all the same is that
each end is handed over once, by one path, with the right action.

Run `chat_calls`: three people, of whom two may leave and one may join, and two
calls, so that the second can start when the first is stale.
`OutcomesTellTheTruth` (nobody left undecided in a call that is over; `left` goes
with a time stamp; who talked is not recorded as having missed it, unless a room
exit wrote what it had read before the answer; an answered call has somebody who
answered it), `EndIsAnnounced` (the end of a call, and nothing else, is told, about
to be told, or lost, and only one of these, whichever of the seven paths brought it
about), `HistoryIsFinal`, and `RoomComesFree`:
again and again no call is live, because the index that admits one live call would
otherwise lock the room. `CHECK_DEADLOCK FALSE`: the calls run out.

Bounds (`Apart` of `MCChatCalls`): no property tells the two people who may leave,
or the two calls, apart, so that one of the twins never starts the first call, and
the first call is always the same; people leave one after the other; and the second
call begins with both of them in the room. None of this holds up time or a job. The
proofs are about the specification without it. Fairness: time passes and the scheduler runs the two jobs; nobody has to press a button.

Left out: the rate limit of invitations, archived rooms, roles and the rule about
the last administrator, the relay of media signalling. Who left is not added
again. Events that a call rings or was answered are emitted in the same way; only
those of its end are followed, because only an end has no later event to correct it.

## 10. Proofs

All theorems are checked by TLAPS to the leaves, for every value of the
constants under the named assumptions of each module (`SubsAssumption`,
`LimitsAssumption`, `JobSchedulerAssumption`, `SequenceCounterAssumption`,
`LeaveAssumption`, `LeaveAttendanceAssumption`, `IdempotencyAssumption`,
`ChatCallsAssumption`). TLC evaluates those assumptions in the runs. They give
constants their types and say that the sets of instances, calls, requests and users
are finite where something is counted; no theorem bounds them.

**Outbox** (`OutboxProofs`).

- `TypeCorrect` needs `AttemptsLeft` (a row that may still be claimed has
  attempts below the maximum), because a claim copies `attempts` into the batch.
- `NothingSkipped`, `ProcessedAccounted`, `FailedExplained` follow from
  `OutcomeInv`: what an instance knows in the middle of a pass
  (`PassKnowledge`: the consumers already visited are processed, unless one
  failed with attempts left; `ServiceKnowledge`: what each stage has done). None
  of it assumes that a single instance holds the event.
- `DeadLettersEarned` follows from `FailureInv`: the `attempts` a row, a claim or
  a pass carries is at most the number of failures of each consumer that is not
  processed. This survives a late `Finalize`, which may lower `attempts`.
- `ClaimsAreExclusive` and `TerminalStatesAreFinal` follow from `OwnershipInv`:
  without stalls a held event is `processing`, younger than the limit, with the
  attempts the claim has read, and held once.
- `OutboxImplementsDelivery` is the refinement for `MaxStalls = 0`, step by step:
  each action is a step of `EventDelivery` or leaves the mapped state alone. A mark
  whose answer is lost settles its consumer like one that is answered, and a dead
  letter of a settled consumer is one of a consumer that has handled the event
  (`ServiceKnowledge`).

**What crashes cost the outbox** (`OutboxCostProofs`). `DeadLettersAreHeard`:
no step but a crash adds to the silent dead letters, and a crash adds one, the pair
its instance was serving; an alert that throws is logged. `RepeatsArePaidFor` is about the calls of a consumer that
has no `processed_events` row yet: they are at most the attempts of the row, plus
the crashes, plus one while a pass has called it (`CallBounds`). A pass that ends
leaves such a consumer only by counting an attempt or by dying, attempts are at
most failures (`FailureInv`), and once the row is there nobody calls again,
because the claim is exclusive (`OwnershipInv`).
`SilentDoneNeedsACrashOrStall` is the positive side of the first finding: until an
instance dies or stalls, a done event was handled by each of its consumers. Its
invariant `SilentInv` follows a consumer that was given up on: while the event is
open, the instance that holds it is still in the pass that did so, and this pass
will write `failed`.

**Job scheduler** (`JobSchedulerProofs`). `LogInv` (what each stage knows of its
row) gives `LogIsTruthful`, `NoRunIsForgotten` and `StatusesAreFinal`.
`OverlapsArePaidFor` is an argument about cardinalities: `OverlapInv` counts,
for each job, the *intruders*, the runs that the row in force does not name, and
bounds them by the overruns; `HolderKnowsLease` ties the row to the lease its
holder still believes in. The property itself is not inductive, because a row
may name an instance that has gone. `JobsAreSingleActive` is its consequence for
zero overruns, and `FreshRunsExcludeUntilAnOverrun` says the same of the property
that the second finding refutes: crashes and lost answers alone never make two
runs within their leases overlap. `LocksHaveReasons` is inductive as it stands: only an acquisition
puts a row in force, and only a release or a failure ends a run.

**Sequences** (`SequenceProofs`). `EnsureInv` (after its first miss a request
finds the row) gives `EnsuringSuffices`; `LockInv` (one holder, and the holder's
copy is the committed row) gives `NoCodeAfterSwitchOff`. `CodeInv` adds that
every issued number is below the counter, within its period; with it
`NumbersAreUnique` holds for every counter that does not reset, and for one that
does when no period ends under a waiting request. `SeededCounterFollowsConfig`
is about a counter that existed before its first PATCH and is edited through the
configuration only; `seq_drift` shows why the first is needed, and
`OnlyRequestsCauseDrift` that nothing else goes wrong: if only PATCHes provision
the counter, counter and configuration agree whenever no PATCH is under way.

Two more theorems are about the waiting of calls. `NobodyWaitsInACircle`: whenever
a call waits for a row, somebody who holds a row is in the middle of a transaction
and waits for nobody (requests and PATCHes lock the configuration before the
counter, or only one of the two). `EveryCallIsShort` gives each call a variant,
`StatementsLeft`, at most nine, that falls with each of its statements; the loop of
ensure-on-miss turns once. They are what `EveryCallEnds` rests on; the step from
there to liveness, which needs ENABLED, is left to TLC.

**Leave** (`LeaveRequestProofs`). `LeaveInv` adds two facts to the properties:
`OneHolder` (a request's row is held by one call) and `StatusHeld` (while it is
held the status stays what the holder has seen). It gives `EffectsFitStatus`,
`LedgersAreExact` (no run checks that ledger property by itself; the refinement
covers it) and, per action, `SettledStaysSettled`.

`BalanceIsExact`: the sums of `BalanceIsSumOfRequests` are written as the
cardinality of a set that holds each day of each request once, so that the theorems
of the library about finite sets apply and no induction is needed: `SumMoves` says
how a sum moves when one request changes. The sum is a part of `LeaveInv` because
`RefundFits` needs it: the WHERE clause of a refund (`used_days >= days`) never
fails for a request that was deducted, for otherwise the code would mark it
cancelled and keep its days. `PendingNeverNegative` follows, although neither the
code nor a constraint of the table looks at the sign of `pending_days`.

`WorkflowImplementsAccount` is the refinement, one lemma per move
(`AccountSubmit`, `AccountApprove`, `AccountRelease`, `AccountRefund`); every other
action is a stutter.

`SerialSubmitsStayWithinCeiling` and `StrictApprovalsFit` are the positive sides of
the leave findings. The first assumes `[]OneReservation` (no two submissions
stand between the limit check and the reservation at once) and concludes
`PendingWithinCeiling`: its invariant `CeilingInv` says that a call about to
reserve has just found the room for it, and that only a reservation uses up room.
The second needs no hypothesis on the calls: if no policy permits debt, whatever
passes the WHERE clause of an approval passes the CHECK constraint.

**Leave with attendance** (`LeaveAttendanceProofs`). `AttendanceKeepsWorkflow`:
every behaviour of the composition is one of `LeaveRequest`, so that the
workflow's theorems carry over (`SettledStaysSettledWithAttendance`,
`BalanceIsExactWithAttendance`, `AttendanceImplementsAccount`). The
invariant `Traces` joins the three properties with what a run or a punch under way
implies (`RunsAreRaced`, `PunchesAreRaced`: if its request was undone, or approved,
since it read, that is recorded) and with what days, runs and records say of their
request (`DaysFit`, `RunsFit`: only one that was approved has any; `LeaveFits`: leave
shows on its days that are `Synced` or `Failed`). It gives
`UndoneLeaveIsGone`, `SynchronisedLeaveShows` and `ApprovedDaysAreAccountedFor`.

**Idempotency** (`IdempotencyProofs`). `OnceInv` is an account (`Charged`): the runs
made, the calls that may still run or release, and the run a free key would allow
are at most one more than the lapses. It gives the refinement
`IdempotencyImplementsOnce` for any number of calls. `CalmInv` adds that in a calm
history the key is taken from the first claim on, which gives
`IdempotencyCalmMeansOnce`.

**Chat calls** (`ChatCallsProofs`). One inductive invariant, `ChatInv`, says what a
participant's row may be for each status of the call, what a pending room exit has
read about a call that may have moved on, and which events are owed, told or lost; the four
safety properties follow. For `ChatEndIsAnnounced` it suffices that calls end
together with what becomes owed (`AnnouncedTogether`): an end that is new was
neither owed nor told nor lost before.

Checked by TLC only: liveness (`EveryEventTerminates`, `EveryTenantIsServed`,
`EveryCallEnds`, `KeyComesFree`, `RoomComesFree`), which needs fairness and ENABLED
and is outside the prover's reach. Every invariant and every other action or
refinement property of the passing runs has a theorem.

## 11. Findings

Each is a run that TLC refutes. `PROJECT.json` quotes the sentence it disagrees
with. Each has a theorem (section 10) that names the only way into it.

1. `outbox_silent_done` / `NoSilentDone`: an instance dies after it marked the
   dead-lettered consumer processed and before it wrote `failed`. The next pass
   skips every consumer, finds nothing wrong and writes `done`. Without a crash or
   a stall it cannot happen (`SilentDoneNeedsACrashOrStall`).
2. `job_fresh_overlap` / `FreshRunsExclude`: `release` does not look at
   `locked_by`. A run that overran frees the lease of its successor, and a third
   instance starts while the second is within its time. It takes an overrun
   (`FreshRunsExcludeUntilAnOverrun`).
3. `seq_drift` / `CounterFollowsConfig`: a PATCH that finds no counter leaves
   the one a concurrent request provisions from the old configuration. It takes a
   request that provisions (`OnlyRequestsCauseDrift`).
4. `leave_parallel_submits` / `PendingWithinCeiling`: the limit is checked on an
   unlocked read, and the update that reserves has no predicate. It takes two
   submissions in that window at once (`SerialSubmitsStayWithinCeiling`).
5. `leave_debt` / `DebtIsApprovable`: a request may be reserved into permitted
   debt and can then never be approved, because a CHECK constraint of the table
   still forbids `used_days > total_days`. It takes a policy that permits debt
   (`StrictApprovalsFit`).

## 12. Limits

Not modelled, beyond the components listed as such: the hourly monitor that
counts dead letters; the order within a batch;
tenants (each model is one tenant's rows, and row-level security keeps them
apart) except as the loop of the scheduler; foreign-key and index locks;
deadlock detection of PostgreSQL other than as an abort; statement timeouts;
contents of events, codes and audit rows; rounding, and the calculation of
working days; the width of `bigint` counters, which no counter approaches. A
dead instance's connection is assumed to be closed, so that its open transaction
is rolled back and its row locks are freed.

## 13. Plan

In order:

1. The yearly carry-over and expiry job and the ledger of the total, which
   `upsertBalance` bypasses; a property of overlapping requests.
2. The hourly threshold monitor of the outbox, and the other events that the chat
   emits after commit without the outbox.
3. Candidates after that: rotation of refresh tokens, the state machine of a
   payroll run, overlapping room bookings, task workflow, retention, and the rest
   of attendance (adjustments, shifts, the lock of a period).
4. Proofs: variants for the other components as for the calls of the sequences
   (`EveryCallIsShort`), so that of every liveness property only the fairness is
   left to TLC; the ledger of the total with the balance.

## 14. Running

In this directory: `tlc -workers 2 -config OutboxTimely.cfg MCOutbox` and so on,
one `.cfg` per run as listed in `PROJECT.json`; `tlapm OutboxProofs.tla` and the
other seven `*Proofs` modules. The larger runs (about a million states each) take
two to three minutes, the others seconds.
