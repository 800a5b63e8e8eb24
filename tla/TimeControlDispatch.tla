-------------------------- MODULE TimeControlDispatch --------------------------
(***************************************************************************)
(* One controlled day of Timekontrol, from the reading of the hours to the  *)
(* mail that says hours are missing (modules/timeControl: orchestration,    *)
(* dataset, service, operation, dispatch).  The scheduled control, manual   *)
(* test runs of the same control and catch-ups re-read the day from EK and  *)
(* publish what they read as the head of the day; an administrator imports  *)
(* evidence, pauses and starts the operation, changes approvals and leaves  *)
(* live mode.  The mail is sent inside a transaction that holds the rows it *)
(* rests on until the provider has answered.                                *)
(*                                                                         *)
(* One tenant, one group, one employee.  An evaluation, a publication and   *)
(* the checks before a mail each read and lock their rows in a single       *)
(* transaction and are one action each.                                     *)
(***************************************************************************)
EXTENDS Naturals

CONSTANTS
  Scheduled,     \* the run of the scheduler in the day's slot
  Tests,         \* manual test runs and maintenance runs of the same control
  CatchUps,      \* captures by a catch-up of the week
  MaxClock,      \* bound on the clock
  MaxEpochs,     \* bound on the starts of the operation
  MaxApprovals,  \* bound on the versions of the employee's approval
  MaxChanges,    \* bound on what administrators and the employee do meanwhile
  None           \* no dataset, nobody

ASSUME BoundsAssumption == MaxClock \in Nat \ {0} /\ MaxEpochs \in Nat /\ MaxApprovals \in Nat \ {0} /\ MaxChanges \in Nat
ASSUME CallersAssumption ==
  /\ Scheduled \notin Tests \cup CatchUps /\ Tests \cap CatchUps = {}
  /\ None \notin {Scheduled} \cup Tests \cup CatchUps

Runs    == {Scheduled} \cup Tests
Callers == Runs \cup CatchUps
Times   == 1..MaxClock

\* A snapshot of the day: when its reading began (0: not known), whether the
\* employee's hours were missing in it, whether the server itself read it.
Dataset == [at : 0..MaxClock, missing : BOOLEAN, server : BOOLEAN]

ASSUME NoneAssumption == None \notin Dataset

Steps == {"idle", "locked", "prepared", "invalidating", "reading", "storing",
          "captured", "aborting", "failed", "done"}

VARIABLES
  clock,        \* time; instants that are compared may also fall together
  missing,      \* EK: the employee's hours of the day are missing
  inTime,       \* the window of the slot is open
  live,         \* time_control_settings.mode = 'live'
  approval,     \* version of the employee's identity, address and pay code rules
  op,           \* time_control_operation_state and its current operation
  head,         \* time_control_hours_dataset_head.dataset_id
  invalidated,  \* time_control_hours_dataset_head.invalidated_at, 0 for NULL
  run,          \* the time_control_run of the day
  result,       \* the employee's time_control_result
  receipts,     \* time_control_operational_check
  mail,         \* the mail to the employee, and what it was written from
  step,         \* where each caller stands
  stamp,        \* the instant its last transaction or reading began
  data,         \* what it has read or published
  startedAt,    \* execution.startedAt of the scheduled run
  admitted,     \* execution.operationIds of the scheduled run, 0 for none
  runLock,      \* session advisory lock of the run
  captureLock,  \* session advisory lock of the day's captures
  changes,      \* what administrators and the employee have done, for the bound
  newest,       \* history: the newest observation since an import withdrew the head
  disproved     \* history: the last instant from which a capture re-read the day

world   == <<missing, inTime, live, approval, op>>
day     == <<head, invalidated, newest, disproved>>
control == <<run, result, receipts, mail>>
callers == <<step, stamp, data, startedAt, admitted>>
locks   == <<runLock, captureLock>>
vars    == <<clock, changes, world, day, control, callers, locks>>

NoMail == [state |-> "none", dataset |-> None, approval |-> 0, epoch |-> 0]

Init ==
  /\ clock = 1 /\ changes = 0
  /\ missing = TRUE /\ inTime = TRUE /\ live = TRUE /\ approval = 1
  /\ op = [epoch |-> 1, active |-> TRUE, started |-> 1, cohort |-> 1]
  /\ head = None /\ invalidated = 0 /\ newest = 0 /\ disproved = 0
  /\ run = [mode |-> "none", by |-> None, status |-> "none"]
  /\ result = [status |-> "none", dataset |-> None, approval |-> 0]
  /\ receipts = {}
  /\ mail = NoMail
  /\ step = [c \in Callers |-> "idle"]
  /\ stamp = [c \in Callers |-> 0]
  /\ data = [c \in Callers |-> None]
  /\ startedAt = 0 /\ admitted = 0
  /\ runLock = None /\ captureLock = None

-----------------------------------------------------------------------------
\* The dispatcher's transaction is open: it shares the run, its result, the
\* operation, the settings, the approval and the head of the day, and whoever
\* writes one of them waits.
Sharing == mail.state = "calling"

\* Something an administrator or the employee does while the day is controlled.
Changes == changes < MaxChanges /\ changes' = changes + 1

\* A caller takes the time, which may have moved on.
TakesTime(c) ==
  /\ clock' \in {clock, clock + 1} \cap Times
  /\ stamp' = [stamp EXCEPT ![c] = clock']

Goes(c, s) == step' = [step EXCEPT ![c] = s]

\* A mutant of the release: the lock of the captures stays with the connection.
FreesTheRun(c) ==
  /\ runLock' = IF runLock = c THEN None ELSE runLock
  /\ UNCHANGED captureLock

\* What a caller holds when it ends, or its connection is lost, is free again.
Frees(c) ==
  /\ runLock' = IF runLock = c THEN None ELSE runLock
  /\ captureLock' = IF captureLock = c THEN None ELSE captureLock

\* What follows the capture of a run, and of a catch-up.
After(c, s) == IF c \in CatchUps THEN "done" ELSE s

\* What a caller has read is of no use once it has failed or ended.
Forgets(c) ==
  /\ stamp' = [stamp EXCEPT ![c] = 0]
  /\ data' = [data EXCEPT ![c] = None]

\* The last statements of a run.
Ends(c) ==
  /\ Frees(c)
  /\ Goes(c, "done")
  /\ Forgets(c)
  /\ IF c = Scheduled THEN startedAt' = 0 /\ admitted' = 0 ELSE UNCHANGED <<startedAt, admitted>>

-----------------------------------------------------------------------------
(* The head of the day *)

\* invalidateHoursDataset, begun at the given instant.
Invalidated(begun) ==
  /\ head' = None
  /\ invalidated' = begun

\* A mutant of the comparison: it looks at the invalidation only.
NewerThanInvalidation(at) == invalidated # 0 => at > invalidated

\* storeHoursDataset: only a newer observation replaces a head or follows an
\* invalidation.
Newer(at) ==
  /\ invalidated # 0 => at > invalidated
  /\ head # None => at > head.at

Published(d) ==
  /\ head' = d
  /\ invalidated' = 0
  /\ newest' = IF d.at > newest THEN d.at ELSE newest
  /\ UNCHANGED disproved

\* importHoursEvidence: stores evidence that proves complete coverage, observed
\* at any earlier instant or none ...
Import(at) ==
  /\ ~Sharing
  /\ Changes
  /\ at <= clock
  /\ Newer(at)
  /\ Published([at |-> at, missing |-> missing, server |-> FALSE])
  /\ UNCHANGED <<clock, world, control, callers, locks>>

\* ... and withdraws the head for evidence that does not, in a transaction that
\* may have waited for the head.
ImportRefused(begun) ==
  /\ ~Sharing
  /\ Changes
  /\ begun <= clock
  /\ Invalidated(begun)
  /\ newest' = 0
  /\ UNCHANGED <<clock, world, disproved, control, callers, locks>>

-----------------------------------------------------------------------------
(* captureAndPublish *)

\* The try-lock of the day, and BEGIN of the invalidation.
BeginCapture(c) ==
  /\ step[c] = IF c \in CatchUps THEN "idle" ELSE "prepared"
  /\ IF captureLock = None
       THEN captureLock' = c /\ TakesTime(c) /\ Goes(c, "invalidating")
       ELSE Goes(c, After(c, "failed")) /\ UNCHANGED <<clock, stamp, captureLock>>
  /\ UNCHANGED <<changes, world, day, control, data, startedAt, admitted, runLock>>

\* "Commit invalidation before any network read"; then the reading begins.
Invalidate(c) ==
  /\ step[c] = "invalidating"
  /\ ~Sharing
  /\ Invalidated(stamp[c])
  /\ disproved' = stamp[c]
  /\ TakesTime(c)
  /\ Goes(c, "reading")
  /\ UNCHANGED <<changes, world, newest, control, data, startedAt, admitted, locks>>

\* Both passes over the pages of the day agree.
Read(c) ==
  /\ step[c] = "reading"
  /\ data' = [data EXCEPT ![c] = [at |-> stamp[c], missing |-> missing, server |-> TRUE]]
  /\ Goes(c, "storing")
  /\ UNCHANGED <<clock, changes, world, day, control, stamp, startedAt, admitted, locks>>

\* The reading fails, is unstable or too slow, or a statement fails.
CaptureFails(c) ==
  /\ step[c] \in {"invalidating", "reading", "storing"}
  /\ TakesTime(c)
  /\ Goes(c, "aborting")
  /\ UNCHANGED <<changes, world, day, control, data, startedAt, admitted, locks>>

\* Publishes what was read; if the trace of that fails, the catch block follows.
Store(c) ==
  /\ step[c] = "storing"
  /\ ~Sharing
  /\ Newer(stamp[c])
  /\ Published(data[c])
  /\ \/ /\ Goes(c, After(c, "captured"))
        /\ captureLock' = None
        /\ stamp' = [stamp EXCEPT ![c] = 0]
        /\ data' = IF c \in CatchUps THEN [data EXCEPT ![c] = None] ELSE data
        /\ UNCHANGED clock
     \/ /\ Goes(c, "aborting")
        /\ TakesTime(c)
        /\ UNCHANGED <<captureLock, data>>
  /\ UNCHANGED <<changes, world, control, startedAt, admitted, runLock>>

\* "replacement_requires_newer_observation"
StoreRefused(c) ==
  /\ step[c] = "storing"
  /\ ~Sharing
  /\ ~Newer(stamp[c])
  /\ TakesTime(c)
  /\ Goes(c, "aborting")
  /\ UNCHANGED <<changes, world, day, control, data, startedAt, admitted, locks>>

\* The catch block withdraws the head; that may fail as well.
Abort(c) ==
  /\ step[c] = "aborting"
  /\ \/ /\ ~Sharing
        /\ Invalidated(stamp[c])
        /\ disproved' = stamp[c]
     \/ UNCHANGED <<head, invalidated, disproved>>
  /\ captureLock' = None
  /\ Goes(c, After(c, "failed"))
  /\ Forgets(c)
  /\ UNCHANGED <<clock, changes, world, newest, control, startedAt, admitted, runLock>>

-----------------------------------------------------------------------------
(* runTimeControlWithPool *)

\* The try-lock of the run; a second run of the control gives up.
Begin(c) ==
  /\ c \in Runs
  /\ step[c] = "idle"
  /\ c = Scheduled => inTime
  /\ IF runLock = None
       THEN /\ runLock' = c
            /\ Goes(c, "locked")
            /\ IF c = Scheduled
                 THEN clock' \in {clock, clock + 1} \cap Times /\ startedAt' = clock'
                 ELSE UNCHANGED <<clock, startedAt>>
       ELSE Goes(c, "done") /\ UNCHANGED <<clock, runLock, startedAt>>
  /\ UNCHANGED <<changes, world, day, control, stamp, data, admitted, captureLock>>

\* The preparation: admitOperations, and the run row is overwritten.
Prepare(c, d) ==
  /\ step[c] = "locked"
  /\ ~Sharing
  /\ run' = [mode |-> IF c = Scheduled /\ live THEN "live" ELSE "dry_run", by |-> c, status |-> "running"]
  /\ admitted' = IF c = Scheduled /\ live /\ op.active THEN op.epoch ELSE admitted
  /\ IF d = None
       THEN Goes(c, "prepared") /\ UNCHANGED data
       ELSE Goes(c, "captured") /\ data' = [data EXCEPT ![c] = d]
  /\ UNCHANGED <<clock, changes, world, day, result, receipts, mail, stamp, startedAt, locks>>

\* requireActiveIdentity and requireCurrentCohorts of the scheduled run: the
\* operation admitted at its start is still the active one, for this cohort.
Eligible ==
  /\ op.active /\ op.epoch = admitted /\ op.started <= startedAt
  /\ op.cohort = approval

\* The evaluation, in one transaction with the mail it queues.  The key of the
\* mail is the employee's day: one that exists already stays as it is.  The
\* receipt of the control looks at the time once more.
Evaluate(c) ==
  LET eligible == run.mode = "live" => Eligible
      queues == run.mode = "live" /\ data[c].missing /\ eligible /\ inTime /\ mail.state = "none"
  IN
  /\ step[c] = "captured" /\ c \in Runs
  /\ ~Sharing
  /\ data[c] = head
  /\ result' = [status |-> IF data[c].missing THEN "missing_hours" ELSE "ok",
                dataset |-> data[c], approval |-> approval]
  /\ run' = [run EXCEPT !.status = IF eligible THEN "completed" ELSE "blocked"]
  /\ mail' = IF queues
               THEN [state |-> "queued", dataset |-> data[c], approval |-> approval, epoch |-> admitted]
               ELSE mail
  /\ \/ receipts' = receipts
     \/ /\ run.mode = "live" /\ eligible /\ inTime
        /\ receipts' = receipts \cup {[epoch |-> op.epoch, approval |-> approval]}
  /\ Ends(c)
  /\ UNCHANGED <<clock, changes, world, day>>

\* The head is no longer what this run published: loadHoursDataset throws, and
\* the run row stays 'running'.
EvaluateStale(c) ==
  /\ step[c] = "captured" /\ c \in Runs
  /\ data[c] # head
  /\ Ends(c)
  /\ UNCHANGED <<clock, changes, world, day, control>>

\* The capture failed: the run is blocked and its results say nothing.
Block(c) ==
  /\ step[c] = "failed"
  /\ ~Sharing
  /\ result' = IF result.status = "none" THEN result
                 ELSE [result EXCEPT !.status = "data_incomplete", !.dataset = None]
  /\ run' = [run EXCEPT !.status = "blocked"]
  /\ Ends(c)
  /\ UNCHANGED <<clock, changes, world, day, receipts, mail>>

\* The process dies, or a statement outside every catch block fails.
Dies(c) ==
  /\ step[c] \notin {"idle", "done"}
  /\ Ends(c)
  /\ UNCHANGED <<clock, changes, world, day, control>>

-----------------------------------------------------------------------------
(* The mail: dispatchRun or a later run of the outbox *)

Dispatched ==
  UNCHANGED <<clock, changes, world, day, run, result, receipts, callers, locks>>

Claim ==
  /\ mail.state = "queued"
  /\ mail' = [mail EXCEPT !.state = "processing"]
  /\ Dispatched

\* A mutant of the checks: any active operation will do.
SendableUnderAny ==
  /\ live /\ inTime
  /\ run = [mode |-> "live", by |-> Scheduled, status |-> "completed"]
  /\ result = [status |-> "missing_hours", dataset |-> mail.dataset, approval |-> mail.approval]
  /\ op.active /\ op.cohort = approval /\ approval = mail.approval
  /\ head = mail.dataset /\ head.server

\* validateAutomatic and validateDaily.
Sendable ==
  /\ live /\ inTime
  /\ run = [mode |-> "live", by |-> Scheduled, status |-> "completed"]
  /\ result = [status |-> "missing_hours", dataset |-> mail.dataset, approval |-> mail.approval]
  /\ op.active /\ op.cohort = approval /\ approval = mail.approval
  /\ [epoch |-> op.epoch, approval |-> mail.approval] \in receipts
  /\ head = mail.dataset /\ head.server

\* "Keep current run/results and dataset heads stable until the provider call
\* completes."
Call ==
  /\ mail.state = "processing"
  /\ Sendable
  /\ mail' = [mail EXCEPT !.state = "calling"]
  /\ Dispatched

\* It is sent, refused by one of the checks, or unclear: a mail of Timekontrol
\* is attempted once.  The process may also die.
Settle ==
  /\ mail.state \in {"processing", "calling"}
  /\ mail' = [NoMail EXCEPT !.state = "over"]
  /\ Dispatched

-----------------------------------------------------------------------------
(* Administrators, and the world *)

\* setOperation: each start is an epoch of its own.
Pause ==
  /\ op.active
  /\ ~Sharing
  /\ op' = [op EXCEPT !.active = FALSE]
  /\ UNCHANGED <<clock, missing, inTime, live, approval>>

StartOperation ==
  /\ ~op.active /\ op.epoch < MaxEpochs
  /\ ~Sharing
  /\ clock' \in {clock, clock + 1} \cap Times
  /\ op' = [epoch |-> op.epoch + 1, active |-> TRUE, started |-> clock', cohort |-> approval]
  /\ UNCHANGED <<missing, inTime, live, approval>>

SetMode ==
  /\ ~Sharing
  /\ live' = ~live
  /\ UNCHANGED <<clock, missing, inTime, approval, op>>

Approve ==
  /\ ~Sharing
  /\ approval < MaxApprovals
  /\ approval' = approval + 1
  /\ UNCHANGED <<clock, missing, inTime, live, op>>

\* The employee books or withdraws hours in EK.
Book == missing' = ~missing /\ UNCHANGED <<clock, inTime, live, approval, op>>

World ==
  /\ Changes
  /\ Pause \/ StartOperation \/ SetMode \/ Approve \/ Book
  /\ UNCHANGED <<day, control, callers, locks>>

WindowCloses ==
  /\ inTime /\ inTime' = FALSE
  /\ UNCHANGED <<clock, changes, missing, live, approval, op, day, control, callers, locks>>

-----------------------------------------------------------------------------
\* The ids a test run may be given: the stored snapshot that is the head.
Given(c) == IF c \in Tests THEN {None, head} ELSE {None}

Capture(c) ==
  \/ BeginCapture(c) \/ Invalidate(c) \/ Read(c) \/ CaptureFails(c)
  \/ Store(c) \/ StoreRefused(c) \/ Abort(c)

Control(c) ==
  \/ Begin(c) \/ \E d \in Given(c) : Prepare(c, d)
  \/ Evaluate(c) \/ EvaluateStale(c) \/ Block(c)

Dispatch == Claim \/ Call \/ Settle

Evidence ==
  \/ \E at \in 0..MaxClock : Import(at)
  \/ \E begun \in Times : ImportRefused(begun)

Next ==
  \/ \E c \in Callers : Capture(c) \/ Control(c) \/ Dies(c)
  \/ Dispatch \/ Evidence \/ World \/ WindowCloses

Spec == Init /\ [][Next]_vars

\* A caller that has begun goes on: statements, the reading of the day (120
\* seconds) and the provider call (15 seconds) have deadlines.
FairSpec ==
  /\ Spec
  /\ \A c \in Callers : WF_vars(step[c] # "idle" /\ (Capture(c) \/ Control(c)))
  /\ WF_vars(Dispatch)

-----------------------------------------------------------------------------
(* Properties *)

TypeOK ==
  /\ clock \in Times /\ missing \in BOOLEAN /\ inTime \in BOOLEAN /\ live \in BOOLEAN
  /\ approval \in 1..MaxApprovals
  /\ op \in [epoch : Nat, active : BOOLEAN, started : Times, cohort : 1..MaxApprovals]
  /\ head \in Dataset \cup {None} /\ invalidated \in 0..MaxClock
  /\ changes \in 0..MaxChanges /\ newest \in 0..MaxClock /\ disproved \in 0..MaxClock
  /\ run \in [mode : {"none", "live", "dry_run"}, by : Runs \cup {None},
              status : {"none", "running", "completed", "blocked"}]
  /\ result \in [status : {"none", "missing_hours", "ok", "data_incomplete"},
                 dataset : Dataset \cup {None}, approval : 0..MaxApprovals]
  /\ receipts \subseteq [epoch : Nat, approval : 1..MaxApprovals]
  /\ mail \in [state : {"none", "queued", "processing", "calling", "over"},
               dataset : Dataset \cup {None}, approval : 0..MaxApprovals, epoch : Nat]
  /\ step \in [Callers -> Steps] /\ stamp \in [Callers -> 0..MaxClock]
  /\ data \in [Callers -> Dataset \cup {None}]
  /\ startedAt \in 0..MaxClock /\ admitted \in Nat
  /\ runLock \in Runs \cup {None} /\ captureLock \in Callers \cup {None}

\* A head read by the server is the newest observation published since an import
\* last withdrew the head, and was begun after the last capture had withdrawn it,
\* completed or not: interrupted, failed, slow and overlapping reads never leave
\* or bring back a head that a mail could be sent from.
CapturedHeadIsNewest ==
  head # None /\ head.server => head.at = newest /\ head.at >= disproved

\* While the provider is called with a mail, nothing has happened since it was
\* written that would forbid it: its reading of the day is the head, the run is
\* the scheduled one and no test run has replaced it, the operation is the one
\* admitted at the run's start, never paused in between, the mode is live and
\* the employee's approval unchanged.
MailedOnCurrentFacts ==
  mail.state = "calling" =>
    /\ head = mail.dataset /\ head.server /\ head.missing
    /\ run.by = Scheduled /\ run.status = "completed"
    /\ live /\ op.active /\ op.epoch = mail.epoch
    /\ approval = mail.approval

\* Nobody keeps a session lock: a pooled connection would keep it for good, and
\* every later control or capture of the day would find it taken.
LocksComeFree == []<>(runLock = None /\ captureLock = None)
================================================================================
