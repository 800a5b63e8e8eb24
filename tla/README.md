# A verification model of FieldDesk V3

FieldDesk V3 is a multi-tenant back end (Node, Express, Postgres) for craftsmen's
firms: it copies projects, hours and people from the source system E-Komplet,
lets employees ask for absence, checks their registered hours ("Timekontrol"),
checks whether project managers have approved them ("approval control"), and
sends mail about all of it.  This directory holds TLA+ modules of the parts whose
correctness depends on the order of things, TLC configurations that check them
on small instances, and proofs of the most important theorems.

Everything is translated from the code under `src/`; `PROJECT.json` says for
every definition which lines it stands for, lists the hazards at the lines where
they bite, and names one plausible bug (a *mutant*) that breaks each checked
property.  Mutants are definitions of the modules too; each carries a comment
saying "A mutant of ..." or "Mutated: ..." and is used by no specification.

## 1. The system

Several server processes run the same program against one Postgres database.
They share nothing but that database: every coordination is a row lock
(`FOR UPDATE`, `FOR UPDATE SKIP LOCKED`, `FOR SHARE`), an advisory lock, a unique
index, or a conditional `UPDATE`.  Work is started by HTTP requests, by timers
inside the server processes (Timekontrol's and approval control's schedulers, the
sync worker), and by jobs the host starts (the outbox processor, Timekontrol's
monitor).  Transactions run at READ COMMITTED through `db/tx.js`; a call to the
mail provider or to E-Komplet is never rolled back with them.

| Component | State it keeps | Operations | Hard because | Modelled |
|---|---|---|---|---|
| Email outbox (`modules/notifications/emailOutbox.*`, `services/mailService.js`) | `email_outbox` rows: status, attempts, due times, error code | enqueue, claim a batch, call the provider, mark sent / retry / dead letter | runs overlap, die and are slow; the provider call lies between two transactions | yes |
| Approval control (`modules/approvalControl`) | audit events of control and runs; four advisory locks | activate, pause, preview, scheduled run, change of routing | at most one mail a day with nothing but an event log; changes during a run | yes |
| Timekontrol scheduler and watchdog (`timeControl.scheduler/observability/monitor`) | `time_control_execution`, `time_control_status_report` | claim a slot, record evidence, give up on it, freeze and send the report | watchdog and scheduler judge one row from stale reads; report retries | yes |
| Timekontrol runs (`timeControl.service/dataset/orchestration/operation/dispatch/weekly`) | runs, results, dataset heads, operations, receipts | capture, publish, evaluate, record checks, dispatch | capture against invalidation, pause against dispatch | in part |
| Absence requests and windows (`modules/absence`, `calendar/approvedAbsence.*`) | `absence_request`, `absence_special_window`, `approved_absence` | create, edit, submit, submit split, cancel, approve, reject, promote, update or archive a window | a quota over many rows, guarded by one advisory and several row locks | yes, one employee |
| Calendar and direct absence | `resource_absence` | feed, direct registration | overlap check without a lock on what is not there yet | no |
| Notifications | internal notifications, templates | written with the event | none of its own; its mail is the outbox | no |
| Sync worker (`services/syncWorker.js`) | `sync_job`, endpoint state, page log, failure backlog, access sources | schedule, claim, process, retry, backlog rounds, passes, reconciliation | crashes, two processes, failing pages, a listing that moves under a pass | in part |
| Fitter hours refresh | `fitter_hour`, refresh runs | plan, apply | plan is stale when applied | no |
| Tenant users, invitations, reactivation | `tenant_user`, invitation tokens | create, patch, invite, accept, deactivate, reactivate | mail between two transactions; lock order; reads without a lock | in part |
| Sessions and authentication | JWT, `session_version` | login, check, revoke | revocation against requests under way | in part |
| Tenant invitations and onboarding | invitation, onboarding session | wizard steps, completion | each step locks the session row | no |
| Host resolution, rate limits | one row, one counter | per request | - | no |
| Project equipment, restarbejde, Q&A, resource groups, worksheets | records, attachments | CRUD in single transactions | blobs beside rows | no |
| IGVA | summaries, manager's completion | calculation, upsert | decimals | no |
| Migration runner, maintenance scripts | `schema_migration` | apply, retry | two runners | no |
| Browser clients | - | - | - | no |

How they meet: absence, invitations, Timekontrol and approval control produce
mail.  Absence and Timekontrol put it into the outbox in their own transaction;
Timekontrol's scheduler then works off exactly its own rows and reads from them
whether a control was delivered; the watchdog reads the same rows.  Approval
control and the watchdog's report call the provider themselves, with a durable
row of their own in place of the outbox.  Approving an absence materialises
`approved_absence`, which the calendar shows and Timekontrol takes into account.
Fitter hours are written by the sync worker and the refresh and read by
everything else.

What makes each part correct:

- *Outbox*: an attempt is spent once, a Timekontrol mail is called once, "sent"
  means accepted, an accepted mail never looks unsent, every mail ends.
- *Approval control*: one call a slot; a result never denies what went out; mail
  only leaves under the control and routing in force, and not for a slot the control
  has let pass.
- *Scheduler and watchdog*: one runner a slot; "missed" means never run;
  "completed" means delivered; a verdict stays and always comes; the report is
  frozen when all that the operation in force reaches is settled, taken at most once, and its status is true.
- *Timekontrol runs*: the head of a day is its newest reading; a mail goes out only
  on facts that still hold; nobody keeps the day's locks.
- *Absence*: the quota holds, answers stand, nobody decides about what he did not
  see, promotion loses no date and jumps no queue, keys create once.
- *Sync worker*: a job has one worker, attempts are bounded, a full pass loses
  nothing that is not in the backlog, an entry leaves the backlog only when its
  page is stored, reconciliation takes no listed worksheet's access, every job ends.
- *Users and sessions*: one open link at most, and one the account waits for;
  nobody is locked out by a late answer; an administrator with a password of his own
  remains; a session from
  before a deactivation is never accepted again.

## 2. The modules

| Module | What it is |
|---|---|
| `MailDelivery` | abstract: what a sender of mail promises its callers |
| `EmailOutbox`, `MCEmailOutbox`, `EmailOutboxProofs` | the outbox, its instances, its theorems |
| `ApprovalControl`, `MCApprovalControl`, `ApprovalControlProofs` | approval control |
| `TimeControlWatch`, `MCTimeControlWatch`, `TimeControlWatchProofs` | Timekontrol's scheduler and watchdog |
| `TimeControlDispatch`, `MCTimeControlDispatch`, `TimeControlDispatchProofs` | Timekontrol's daily control: reading of the day, head, operation, mail |
| `AbsenceRequest`, `MCAbsenceRequest`, `AbsenceProofs` | absence requests around one special window |
| `SyncJobs` | the queue of synchronisation jobs and its poll loops; abstract about what a job does |
| `SyncWorker`, `MCSyncWorker`, `SyncProofs`, `SyncPassProofs` | what a worker does with a job: retry rounds and passes; the refinement of `SyncJobs`, and what a pass leaves behind |
| `TenantAccess`, `MCTenantAccess`, `AccessProofs` | users, links, login and sessions of a tenant |

### MailDelivery

Each mail is absent, pending, sent or dead, and has a set of delivered copies.  A
mail becomes *sent* only when a copy exists; one marked `Once` gets at most one
copy, and only while it is pending; any other gets at most `Limit`.  `sent` and
`dead` are final.  Both `EmailOutbox` (with `Once` the Timekontrol mails and
`Limit` the attempts) and `ApprovalControl` (with every mail `Once`) implement it:
`DeliveryPromise` is its specification under the refinement mapping `Outcome`.

### EmailOutbox

`status`, `attempts`, `addressed` and `errorCode` are columns of `email_outbox`;
`due` and `expired` are its time comparisons (`next_attempt_at <= now()`,
`last_attempt_at` older than the processing timeout), which time makes true
(`FallsDue`, `TimeoutPasses`) and statements make false.  `step`, `batch`, `row`
and `reply` are the local variables of concurrent `processDueEmails` calls.
`ClaimDueBatch` and `ClaimTimeControlBatch` are the two `UPDATE ... FOR UPDATE SKIP
LOCKED` statements; `NextRow`, `Refuse`, `CallProvider`, `Settle`, `Fail` follow the
loop; `Crash` ends a run anywhere.  A claim returns a copy of the row: the run
goes on with that copy, however the row has changed since.  Histories: `called`
and `accepted` attempts, mails that met a `fault`, mails `abandoned` by a crash.

Not distinguished: templates, suppression and configuration errors beyond
"local refusal"; several tenants (rows are independent).

### ApprovalControl

Time runs in half days: a slot's minute is at an even tick, and between it and
the day's end there is one tick in which the two-minute limit has passed.  The
audit log is kept as its fold: `control` (latest change), `activation` (first),
`run` (started, attempt and completed events of each slot and mode).  `step`, `job`,
`transport` and `verdict` are `runDue`'s progress and its locals.  `Due`, `Claim`,
`Admit`, `StartCapture`, `EndCapture`, `Simulate`, `Attempt`, `Preflight`,
`LockControl`, `LockRouting`, `StartTransport`, `Answer`, `Finish`, `Catch` follow
`runDue`; `GiveUp` and `Abandon` are every exception on the way.  Locks 6125 and
6124 are held in the steps `SendLockHeld` and `RouteLockHeld` name.  The history `off`
collects the slots whose minute the control has met, or left behind, while it was off.  `Change`,
`ChangeRouting`, `ChangeScope`, `StartPreview`, `EndPreview` and `PreviewNothing` are
other people's calls.

Abstractions: the protected window of the admission never meets a slot's minute
and is one of the reasons of `GiveUp`; the first reads of `runDue` are one step;
the catch block's read and its write are one step; the loss of the database
connection while the send lock is held is not modelled.

### TimeControlWatch

One day with its slots (09:00, and on Fridays a later one).  Ticks are of unequal
length, only the order of deadlines counts: a slot may be claimed in its own
tick; it is missed one tick later (two minutes), overdue two ticks later
(fifteen); the report is due at least three ticks after every slot (twenty
minutes).  `exec` and `run` are the rows, `mail` the outbox row of the run as the
evidence query classifies it, `report` the report row, `lockedBy` its row lock.
`worker` and `watcher` hold where each scheduler and monitor pass stands and the
rows it has read: every statement is a step of its own, so anything may happen
between a read and the write that relies on it.  Of `started_at` a row keeps only
whether the claim came after the slot's own tick (`late`), and a pass looks at a run's
mails only where the code would use them (`Examined`).  `StepFails`, `WatchFails` are
failed statements, `WorkerDies`, `WatcherDies` ends of process; with `Pause` and
`SwitchOff` they are the `upsets` that `MaxUpsets` bounds.

`operation` is the operation in force (or paused), `enabled` the other switches that
`activePolicy` reads: monitor policy, settings, tenant.  `Pause` keeps the operation,
`StartOperation` inserts a new one with a new id, and so changes what
`ensureExecution` gives: nothing for a slot before the operation's start or before
the day it covers from (`admits`), and not the row that another operation has
inserted (`Given`).  A scheduler then stops with "operation_not_admitted"; a monitor
pass skips the slot, neither marks it nor keeps the report back for it.  `OutOfReach`
names these slots.  Schedulers and passes work with the operation they read first,
which may no longer be in force.

Abstractions: one mail a run; the policy read is one step with the read of the
list; one group a tenant; an operation started in a slot's own tick is taken to
start after the slot's time; several days do not interact except through the list
of due reports; the loss of the connection that holds the report's row lock is not
modelled.

### TimeControlDispatch

One day of one group with one employee.  `head` and `invalidated` are the row of
`time_control_hours_dataset_head`, `op` the operation's state with its current start,
`run` and `result` the rows of the control, `receipts` the operational checks, `mail`
the outbox row with the facts it was written from (`payload_json`).  `step`, `stamp`
and `data` are the local variables of each caller: the scheduled run, manual test
runs of the same control, and catch-ups, which only capture.  `runLock` and
`captureLock` are session advisory locks: no transaction ends them.
`BeginCapture`, `Invalidate`, `Read`, `Store`, `StoreRefused`, `CaptureFails`, `Abort` follow
`captureAndPublish`, which commits the withdrawal of the head before it reads the
source system and publishes in another transaction; `Begin`, `Prepare`, `Evaluate`,
`EvaluateStale`, `Block`, `Dies` follow `runTimeControlWithPool`.  `Claim`, `Call`, `Settle`
are the outbox processor with the two validations that precede a mail of
Timekontrol; they lock what they read `FOR SHARE` and keep it until the provider has
answered, which is `Sharing`: every action that writes one of those rows waits for
it.  `Import` and `ImportRefused` are the administrator's evidence; `Pause`,
`StartOperation`, `SetMode`, `Approve` his other acts; `Book` is the employee.  Time
moves only when somebody looks at it, and may stand still between two looks.
Histories: `newest` and `disproved` (the head's observation and the last instant at
which a capture withdrew it).

Abstractions: the scheduler runs its slot once (that is `OneRunner` of
`TimeControlWatch`), so the branch that reuses a completed slot is left out; so are
disabled settings, results that are uncertain (a configuration error and the like
queue no mail), the weekly control, diagnostic and test mails, the import of the very
same evidence, the catch-up's own evaluation (another row), and the skew between
the clocks of server and database.  The freshness limit and the comparison of the
mail's text only refuse, and refusal is always possible in `Settle`.

Seen while modelling, and true of the model as of the code: `invalidated_at` is the
instant at which the withdrawing transaction began, and overwrites a later one.  An
import that is refused after having waited can therefore lower it, and a reading
older than a withdrawal be published afterwards; `newest` starts afresh there.  A
manual test run that is blocked hides the receipts of the scheduled run from the
weekly gate, which joins runs that are completed.

### AbsenceRequest

One employee, one window, vacation days.  `request`, `absence` and `window` are the
tables, `phase` is where today lies among the window's dates, `call` is the set of
server calls with what their client had seen and what they have read.  A call is
one READ COMMITTED transaction, cut where it may wait: for its idempotency key
(`keyHolder`), its row and other rows (`rowHolder`), the quota (`quotaHolder`).  Since
nobody sees uncommitted writes, a call changes the tables in its last step
(`SubmitPlainly`, `SubmitDraft`, `SubmitSegments`, `End`, `Approve`, `Promote`,
...).  `Repeat` is a client sending a call again, the first one still under way
included; `Crash` rolls back; `Victim` is the database ending a call on a circle
of waits.

Abstractions: an exempt request is one with `special_window_id` NULL; the window's
dates are fixed; `approved_absence` is a set of dates for each request; identifiers
are random, so creation picks any free one; `now()` ticks with each committed
submission; the foreign key's lock makes an administrator's update atomic against
the commit of a submission; a repeated split with another number of segments,
the manager look-up and windows that forbid early approval are left out.

### SyncJobs

`job` is `sync_job`, `worker` each process's poll loop with the row its claim
returned, `now` counts delta intervals.  `Poll` and `ScheduleDelta` are the two halves
of the `INSERT ... SELECT` that schedules delta jobs (another process may see the
same in between), `Claim` the `FOR UPDATE SKIP LOCKED` claim with its order, `Succeed`
and `Fail` the two updates that settle a job whatever its row says by then, `Lose`
a process that dies or whose failing job cannot even be recorded.  `AskSync` and
`InsertManual` are the manual requests (look, then insert), `RequeueBootstrap` the
script.  What happens in between is open: `Stumble` is any error survived.

### SyncWorker

It extends `SyncJobs` by the work.  `remote` is the source system's listing with
the time of each row's last change, `store` what is in the tables, `source` the
mark of each worksheet's access source, `endpoint` the table of last pages and
watermarks, `backlog` the failed pages, `run` the locals of the job.  `ReadDue`,
`RetryFetched`, `RetryStored`, `RetryResolved`, `RetryFailed`, `RoundDone` are the retry
round; `StartPass`, `FetchPage`, `StorePage`, `LogPage`, `PageFailed`, `EndPass` the pass;
`FinishJob`, `FailJob`, `LoseJob` settle the job.  Three endpoints stand for the three
ways of the code: v4 stores and logs in one transaction, v3 adds to what v4 has
stored and never fails its job (`SkipEnrichment`), worksheets are stored and logged
in two transactions and reconciled after a full pass.  `Change` and `TakeAway` are
the source system.  Two histories, `alone` and `still`, tell whether another job or
a moving listing disturbed the run: offsets into a listing are not held fast, and
properties of completeness speak of undisturbed runs.

Abstractions: the fitter endpoints read like worksheets without reconciliation;
a row of v3 that fails by itself is skipped by the code and not modelled; the
smaller page size after a 429, several base URLs and the passes of manual jobs
are left out; so are rows the mapping drops (a v4 row without a status shortens
its page and may end the pass, since the mapped rows are counted, where
`backend/docs/queries/sync_bootstrap_flow.md:25` says the rows of the response are).

### TenantAccess

`users` and `links` are `tenant_user` and `tenant_user_invitation_token`, `mailed` the
links that have reached a mailbox, `sessions` the access tokens issued, `holds` the
locks of each call: the tenant's advisory lifecycle lock, rows of users, rows of
links.  A call is cut where it may wait and writes in its last step.
`SendLocksUser`, `SendCommits`, `Mail`, `CompletionLocksLink`, `CompletionCommits` are an
invitation or a reactivation with the mail between its two transactions;
`StartAccept`, `AcceptCommits` follow a link; `DeactivateLocksTenant`,
`DeactivateLocksUser`, `DeactivateCommits` the deactivation; `PatchReads`, `PatchCommits`
the PATCH with its unlocked read; `LoginReads`, `LoginIssues` the login, whose
password comparison lies between; `Catch` and `Break` are failures.

Abstractions: one tenant; project leaders count as technicians (neither is an
administrator); a link's expiry only adds refusals and is left out, as is the
expiry of access tokens; the `FOR UPDATE` of a join locks the link before the
user; a circle of waits between a completion (link, then user) and a revocation
(user, then links) is broken by `Break`; audit rows, e-mail texts and the fitter's
own row are not there.

Seen while modelling, and true of the model as of the code: a PATCH of the status
counts no administrators, so it can suspend or delete the last one; a user created
or patched "active" has a random password and cannot be invited, and as an
administrator is counted all the same: his creator may demote himself, after which
nobody can log in (`LastAdminStays` excuses both); a suspension leaves `session_version` alone, so
that a released user's old session is accepted again; a mail that was delivered
may be recorded as `send_failed`.

## 3. What is checked

The runs, with the bound each uses and why it is enough.  A run marked *symmetric*
identifies interchangeable actors; runs with liveness never do.

| Run | Instance | Shows |
|---|---|---|
| `outbox_safety` | 2 runs, one ordinary and one Timekontrol mail, 2 attempts, batches of 2; symmetric | calls and outcomes agree, a Timekontrol mail is called once, an accepted mail is visible, `MailDelivery` is implemented |
| `outbox_liveness` | 2 runs, 1 mail, 3 attempts | `EventuallySettled` |
| `approval_safety` | 2 processes, 1 slot, live and simulated, an activation, a pause and a reactivation, a change of routing and of scope; symmetric | one call a slot, no run forgotten, mail under current control, no mail for a slot passed while off, never denied, `MailDelivery` |
| `watch_executions` | 2 schedulers, 1 pass, 1 slot, 1 upset (fault, death, pause or switching off), any restart | one runner; missed, completed and frozen mean what they say; verdicts stay and come |
| `watch_report` | 2 passes, 1 upset (fault, death, pause or switching off), any restart | the report is taken once, its status is true, a stop is immediate, a report that is being sent gets an outcome |
| `absence_quota` | 2 calls, 3 days as 2 or 3 segments, quota 1 or 2, all phases; symmetric | quota, calendar, promotion |
| `absence_drafts` | 2 calls, 2 drafts for one exempt day, repeats, window changes; symmetric | answers stand, keys create once, nobody decides blindly, waits in a circle are only endings |
| `sync_worker` | 1 process, a bootstrap job and its successor, 3 endpoints with a full and an empty page, 1 fault, 1 change of the source system, 1 run of the script | full passes are complete, entries leave the backlog only when stored, access is kept, every job settles |
| `sync_delta` | 1 process, v4 and v3, a bootstrap and a delta job, 1 change, no fault | finding: see below |
| `tenant_access` | 2 accounts, 2 calls at a time, 2 links, 1 deactivation each; symmetric | links and accounts agree, nobody is locked out, an administrator with a password of his own stays, sessions end |
| `access_undone` | as `tenant_access` | finding: see below |
| `dispatch_mail` | the scheduled run, 1 test run, 1 catch-up, 2 acts of others, 3 instants, 2 starts of the operation, 2 approvals | the head is the newest reading, the mail leaves on facts that hold, locks come free |

Why these bounds.  Two actors are what every hazard needs: one that has read and
one that writes in between; a third is either after both or behind a lock.  The
outbox needs two attempts for a reclaim and three for a retry after one.  Approval
control needs a third revision for a reactivation after a pause, and would need a
second slot for a run that outlives its day; its theorems hold for every number of
slots, and so cover that.  Absence needs three requests for a
promotion past a waiting request, and two callers.  The sync worker needs two
jobs, since what one leaves in the backlog the next one takes up, and a page that
is full beside one that is not; two processes on one job are the business of
`SyncJobs`, whose properties are proved for any number.  Access needs two accounts
because administrators count each other, and two links because a new one revokes
an old one.  Timekontrol's dispatch needs three readers (the one whose facts the mail
rests on, one that replaces the run, one that replaces the head), three instants
(older, equal, newer), and two acts for a pause with a restart; its safety
properties also held with three acts.  The watchdog's runs have one upset, so that a
stop with its restart, a fault and a death are each met alone; their safety
properties are theorems for any number.  `watch_executions` has its slot after the
first tick: an operation can begin before, at and after it.  Revisions, versions, ticks and
faults are bounded by constants (`MaxRevision`, `MaxRouting`, `MaxScope`, `LastSlot`,
`MaxVersion`, `MaxWindow`, `LastTick`, `MaxFaults`, `MaxUpsets`, `MaxJobs`, `MaxRetries`,
`MaxTime`, `MaxManual`, `MaxResets`, `MaxTries`, `MaxClock`, `MaxEndings`, `MaxEpochs`,
`MaxApprovals`, `MaxChanges`), each in the
guard of the action that would pass it.

Type invariants are theorems and are left out of the runs: outbox, approval
control, watchdog, dispatch, job queue, absence, access, and the shapes of the sync
worker's tables and locals (`DataShape`, `RunShape` in `SyncPassProofs`).

Deadlock is not checked where the story ends: approval control after the last day,
absence when the keys are used up and every request has ended, the sync worker
when the rows of its job table are used up, access when the links are used up and
nobody is left who can log in, Timekontrol's dispatch when every caller is done and
the window has closed.  In the other
modules TLC would report it.

The conditions in properties.  `NoDuplicateWithoutFault` excuses mails with a lost
answer, a failed settling transaction, a crash or a slow run: the provider has no
idempotency, so the code cannot do better.  `EventuallySettled` excuses a row whose
run died on its last attempt, which no claim takes again.  `QuotaRespected` speaks of calls
whose window is still as they read it before they waited for the quota lock; a
call that waits while an administrator lowers the quota decides by the old value.
`FrozenIsSettled` excuses a scheduler held up between its window check and its
claim; like `EverySlotSettles` it speaks of the slots that the operation in force
reaches, since the code leaves the others as they are.  `NoRunForgotten` excuses runs whose process died or could not write; so
does `JobSettles`.  `FullPassIsComplete`, `BacklogHeals` and `AccessKept` speak of runs
that no other job and no moving listing disturbed; `BacklogHeals` leaves out v3,
whose retry round stores nothing (below).  `CapturedHeadIsNewest` speaks of heads the
server itself has read (only those can be mailed from), since the last import
that withdrew the head.  `LastAdminStays` speaks of tenants
where no PATCH has set a status and no administrator counted now was created active
(the code promises an administrator who can log in only there: the others are
counted by their flags); the second half of `OpenLinkIsCurrent` of accounts whose
status no PATCH has set.

### Fairness

- Outbox: weak fairness of each run (the host keeps starting the job) and of time.
  No fairness of acceptance: the provider may refuse for ever.
- Watchdog: weak fairness of monitor passes and of time.  None of schedulers: the
  watchdog is there because a scheduler may hang.
- Sync worker: weak fairness of each process's own steps (its poll loop sets its
  timer again whatever happens) and of the back-off's end.  None of failures, of
  the source system or of the script.
- Timekontrol's dispatch: weak fairness of each caller that has begun (its
  statements return, the reading of the day has a deadline of 120 seconds) and of
  the mail (the provider's call has one of 15 seconds).  None of beginning, of the
  others' acts or of time.
- Approval control, absence and access have no liveness properties.  Absence and
  access end their calls by locks alone: waits are Postgres's, circles are broken by
  the database, and `VictimsAreEndings` says which calls of absence can be on one.
  A claimed run of approval control has a result or somebody at work on it
  (`NoRunForgotten`), which is what can be said without fairness.

### Findings

- `sync_delta`: after a bootstrap a delta job asks for the rows changed since the
  watermark, but from the page behind the last one of the full listing.  It finds
  an empty page, succeeds, and the watermark moves past changes it never read.  Two
  documents say that v4 is always scanned in full.
- `access_undone`: a PATCH of the status reads the row without a lock; a deactivation
  that commits in between is undone by it, without the link and the new password the
  security model asks for.

Other disagreements between documents and code, read and not run:

- `docs/modules/calendar/RESOURCE_ABSENCE_CALENDAR_ARCHITECTURE_PR1.md:1101` says that
  changes to a window's active state are blocked once it has requests beyond
  drafts; archiving does not count them.
- `docs/modules/calendar/ABSENCE_NOTIFICATIONS_OUTBOX_PR4.md:83` says that stuck
  `processing` rows can be recovered; a row whose run died on its last attempt is
  excluded from every claim (`EventuallySettled` excuses it).
- `backend/docs/queries/sync_delta_flow.md:23-24` has failed pages retried; the retry
  round of v3 keeps rows with a status (`syncWorker.js:4025`), which no v3 row has
  (`syncWorker.js:2037-2040`): the page is fetched, nothing is stored, and the entry is
  resolved.
- `backend/docs/integrations/ek/worksheets_project_access.md:68-76` speaks of
  reconciliation by a complete pass; two processes with bootstrap jobs mark the same
  sources, and the properties here except such runs (`Undisturbed`).
- `docs/runbooks/TIME_CONTROL_ACTIVATION.md:418-422` says of the watchdog that it marks
  a never-started slot missing and includes it in the normal status report.  After
  a pause and a restart between the planning of a slot and its time, the row is the
  former operation's: it is neither started (`timeControl.observability.js:132-133`,
  which `test/timeControlMonitorPostgres.integration.js:617-649` confirms) nor marked
  (`timeControl.monitor.js:158`), and the report shows it as planned.  `FrozenIsSettled`
  without `OutOfReach` is false for that reason.

## 4. What is proved

The theorems hold for every value of the constants under the `ASSUME`s of the
modules they speak of:

| Proofs | Assumed of the constants |
|---|---|
| `EmailOutboxProofs` | attempts and batch limit positive, Timekontrol mails among the mails |
| `ApprovalControlProofs` | at least one slot, "live" among the modes, bounds natural |
| `TimeControlWatchProofs` | lock holders distinct from processes and passes; slots lie at least three ticks before the report is due |
| `TimeControlDispatchProofs` | the scheduled run, tests and catch-ups are different callers; `None` is no caller and no dataset; bounds natural |
| `AbsenceProofs` | finitely many requests and days, numbered; every ask has a day; `None` is no request, call or key |
| `SyncProofs` | finitely many workers |
| `SyncPassProofs` | the same; at least one endpoint, rows finite and numbered, page size and limits positive |
| `AccessProofs` | at least one first administrator, names of rows and locks distinct |

*Outbox.*  `TypeOK` is inductive.  No other property is: that an attempt is not
called twice needs to know that no two runs hold the same attempt of a mail.
`IInv` therefore treats `attempt_count` as a dispenser of tickets: every held ticket
was issued (`TicketsIssued`), no two runs hold the same one (`TicketsDistinct`), a
ticket still to be used is unspent (`TicketsUnspent`), called attempts were issued,
a Timekontrol mail has one ticket, and what is about to be recorded as sent was
accepted (`AcceptedFirst`).  From it: `AttemptsAreSpentOnce`, `TimeControlIsCalledOnce`,
`SentWasAccepted`, and with one step lemma for each action `OutboxDelivers`.
Two more invariants stand on it.  `Visible`: an accepted Timekontrol mail stands in
a status that says so, and a run that fails after the acceptance knows only of a
lost or conflicting answer, which is what the row will say (`AcceptedStaysVisible`).
`NoFaultNoCopy`: the one ticket of a mail that has met no fault is held by one run, which
has it either yet to use or used and not yet settled; a mail on offer has no copy
(`NoCopyWithoutFault`).

*Approval control.*  `IInv` relates each working process to the row of its run: the
run is started, no two processes work on the same run (`Apart`), the local state
fits the durable one (`Phase`, `Inside`, `Told`), and each slot's calls and acceptance
fit its row (`SlotOK`).  From it: `OneCall`, `NeverDenied`, `ApprovalDelivers`, and
`NothingForgotten`: a run leaves the hands of its process only with a result or as
lost;
`PeriodNeverMoves` from the actions; `NothingOvertaken` from an
invariant of its own about the two send locks (`LocksHold`); `PassedStaySilent` from
that and from `OffBefore`: a slot the control has let pass lies before its latest
activation.

*Scheduler and watchdog.*  Three invariants on top of the types.  `Runners`: who runs a
slot's control finds its row "running", or "failed" by the watchdog; a row that is
absent, planned or missed has no run; who is about to record "completed" has seen
the run completed and its mail taken.  `SendInv`: at most one pass is between claim
and result, as long as it is, the report is not for sending, and who holds the
row lock is who calls.  `FreezeInv`: a pass that began when the report was due, three
deadlines after every slot, leaves each slot ended, running because it was
claimed late, or out of reach, whatever the others do to the slots it has left behind.
That needs two facts about restarts: an operation that begins after the report is due
admits no slot of the day (`OperationStep`), so the operation a pass has read is still
in force or reaches nothing (`SameOp`); and a row keeps the operation it was inserted
for (`ReachStays`).  From them and
`VerdictStep` (what each step may make of a row): all the safety properties of the
module.

*Dispatch.*  Three invariants.  `Places`: where each caller stands and which of the
two session locks it holds there; from it `OneAtWorkHolds`.  `Readings`: a caller that
has the day in hand began to read it after the last withdrawal of the head, and
every later publication is the head's; from it `HeadIsNewest`.  `Facts`: as long as the
mail is open, mail and receipts come from one evaluation of the scheduled run, on a
dataset that run read; and while the provider is called the validated rows are
those the evaluation was made on, because `Sharing` holds them; from it
`MailStandsOnFacts`.

*Absence.*  `Inv` has three parts: the shapes of tables and calls (`Base`); what a
call may rely on because of its locks (`Locked`: its row, its idempotency key, the use
of the quota it has counted); what its client's page knows of the row (`Knows`).  What a step
makes of a request is one of four things (`RowStep`): `Kept`, `Created`, `Shortened` by a
promotion, or `Moved` to another status; each property is then proved against these
four.  From it: `AnswersStand`, `CalendarHolds`, `KeysCreateOnce`, `OnlyEndingsAreVictims`,
`SeenBeforeDone`, `NoDateLost`.  `PromotionsInOrder` adds that the lines promoted are chosen
from the front of the queue.
`QuotaHolds` adds that a call's count of the quota's use is still the table's when it
writes (`Reckons`), and has a hypothesis, `StaysArchived`: nobody puts an archived window
to use again.  It is needed, see *Seen while proving* below.

*Sync.*  The queue's invariant ties each row to the worker that holds it
(`HeldRuns`: a held row is running, or was failed by the script under its worker)
and counts the processes that have seen a delta job due (`DeltasReserved`: they and
the active delta jobs are together at most as many as there are processes).  From
it: `OneHolderAtMost`, `AttemptsAreBounded`, `DeltaJobsBounded`.  `WorkerIsAQueueUser`
shows that every step of `SyncWorker` is a step of `JobsSpec` or a stutter, so
that `OneWorkerPerJob` holds of the worker too.

*Sync passes.*  `SInv` says what a run knows of the pages behind it, if no other job and
no moving listing disturbed it (`Story`): each page it has passed is stored as listed
when the pass began, or in the backlog; the page in hand fits the listing; each listed worksheet behind
it is marked as seen, or a page is missing and no reconciliation follows.  The heart
is the pagination: positions of the listed rows are distinct and without gaps, so that a short
page is the last one and no row lies behind it.  The provers cannot use induction
over data, so this is counted by injections and surjections between sets of rows
and intervals.  `RowsStand` carries it over the changes of other runs and of the source system.
From it: `FullPassesComplete`, `ResolvedIsStored`, `AccessIsKept`, for any number of
processes, jobs, endpoints, rows and any page size.

*Access.*  `Discipline` says which locks a call holds at each place and that no two
hold the same (`LocksAreKept`); `Accounts` says what a call may rely on because of
them: nobody changes a row while it is held, the open links of a user are those of
the flow he waits for, and sessions carry versions no newer than the row's.  From it:
`OneCurrentLink`, `DeactivationEndsSessions`, `NobodyIsLockedOut`, and, with `OwnPasswords`
(an active account whose status nobody set by hand has a password its user chose),
`AdministratorStays`.

*Seen while proving*, and true of the model as of the code: the quota of a window can be
exceeded when an archived window is put to use again.  A split submission begins
while the window is archived, and so neither takes the quota lock nor counts; it
stops before it inserts.  The window is made active again, which is allowed while no
request waits for it.  Another call submits one date that is exempt and one that waits, then
cancels the first and takes stock of what uses the quota.  Now the split inserts its date, which
uses quota, and the cancellation promotes the waiting date by the older count.  That
takes two changes of the window, three requests and two calls, more than
`absence_quota` has; `StaysArchived` excludes exactly the reactivation.

Only model-checked: the liveness properties `EventuallySettled`, `EverySlotSettles`,
`ReportSettles`, `JobSettles` and `LocksComeFree`.  They rest on fairness and ENABLED,
which are out of the prover's reach.  `QuotaRespected` without `StaysArchived` is
checked within the bounds of `absence_quota` only, and is not claimed beyond them.
`ProjectsAreScanned` and `ReactivatedByLink` are what documents say and runs refute.
Every other property of a run is a theorem.

## 5. Not modelled

See the table and `PROJECT.json`.  In short: what is one transaction with no waiting
inside and one row (most of the CRUD modules), what is arithmetic on decimals
(IGVA), what is text (templates, reports, mails), cryptography, the browser, and
the mapping of remote rows.  Loss of a database connection is modelled as the
end of the actor that held it, except where section 2 says otherwise.

Known hazards without a module: the refresh of fitter hours applies a plan read
before its transaction; a test mail claimed by a process that died stays "sending"; two direct
registrations of absence for one fitter lock only what exists already; a
blob deleted although the commit that refers to it succeeded; two migration
runners.  Each is at the edge of a component that the plan below takes up, except
the last.

## 6. Plan

1. The weekly control of Timekontrol with its snapshot and gate, and an abstract
   `CurrentDataset` for it and `TimeControlDispatch` to refine.
2. The bounds of `SyncWorker`'s clock and tries as theorems (its shapes are), and the
   passes of manual jobs.
3. Fitter hours refresh beside the sync worker's fitter endpoints.
4. A second employee and direct registration beside `AbsenceRequest`; blobs beside
   rows (`projectEquipment`).
