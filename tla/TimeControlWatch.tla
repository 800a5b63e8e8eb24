---------------------------- MODULE TimeControlWatch ----------------------------
(***************************************************************************)
(* The scheduled controls of Timekontrol on one day and their watchdog      *)
(* (modules/timeControl: scheduler, observability, monitor).  Schedulers of *)
(* several server processes claim the execution row of each slot and run    *)
(* the control; independent monitor passes give up on executions that did   *)
(* not start or finish in time, freeze the day's status report and send it. *)
(* Any of them may stall between two statements, fail, or die.              *)
(*                                                                         *)
(* Time is counted in ticks whose lengths differ: only the order in which   *)
(* the deadlines of a slot and of the report pass matters.                  *)
(***************************************************************************)
EXTENDS Naturals

CONSTANTS
  Slots,      \* ticks at which a control of the day is scheduled
  Workers,    \* scheduler processes
  Watchers,   \* monitor passes that may overlap
  ReportDue,  \* tick at which the day's report is due (reportDueAt)
  Expires,    \* tick from which the report is no longer sent (expires_at)
  LastTick,   \* bound on time
  MaxUpsets,  \* bound on failed statements, crashes and stops of the control
  Nobody      \* nobody holds the row lock of the report

ASSUME SlotsAssumption  == Slots \subseteq Nat /\ Slots # {}
ASSUME DueAssumption    == ReportDue \in Nat /\ \A s \in Slots : s + 3 <= ReportDue
ASSUME ExpiryAssumption == Expires \in Nat
ASSUME BoundsAssumption == LastTick \in Nat /\ MaxUpsets \in Nat
ASSUME NobodyAssumption == Nobody \notin Watchers

\* The start window of a slot is its own tick.  Two minutes, fifteen minutes
\* and, for a report, two and five minutes after an attempt, in ticks.
MissedAfter  == 1
OverdueAfter == 2
AbandonAfter == 1
RetryAfter   == 1
MaxAttempts  == 3

Finished  == {"completed", "partial", "failed", "missed"}
Outcomes  == {"completed", "partial", "failed"}
Statuses  == {"absent", "planned", "running"} \cup Finished
RunStates == {"none", "running", "completed", "blocked"}
Mails     == {"none", "pending", "processing", "accepted", "rejected", "unclear"}
Causes    == {"none", "missing", "deadline", "unprocessed", "other"}
WorkerSteps  == {"idle", "policy", "ensure", "claim", "prepare", "bind", "evaluate",
                 "dispatch", "evidence", "finish"}
WatcherSteps == {"idle", "ensure", "mark", "evidence", "partial", "overview", "insert",
                 "abandon", "list", "claim", "lock", "call", "save", "failed"}

VARIABLES
  now,       \* the time
  enabled,   \* monitor policy, settings and tenant are switched on
  operation, \* the operation in force, or paused
  exec,      \* time_control_execution, per slot
  run,       \* time_control_run, per slot
  mail,      \* the outbox row of the run's mail, per slot
  report,    \* time_control_status_report of the day
  lockedBy,  \* the monitor whose transaction holds the report's row lock
  worker,    \* where each scheduler stands and what it has read
  watcher,   \* where each monitor pass stands and what it has read
  taken,     \* history: how often the provider took the report
  upsets     \* how often something failed, died or was stopped

policy == <<enabled, operation>>
rows   == <<exec, run, mail>>
vars   == <<now, policy, rows, report, lockedBy, worker, watcher, taken, upsets>>

\* An operation and the slots of the day that are not before its start and do
\* not control a day before covered_from; the first began on an earlier day.
FirstOperation == [id |-> 1, active |-> TRUE, admits |-> Slots]
NoOperation    == [id |-> 0, active |-> FALSE, admits |-> {}]

Absent   == [status |-> "absent", op |-> 0, bound |-> FALSE, cause |-> "none", late |-> FALSE]
NoReport == [status |-> "none", attempts |-> 0, last |-> 0, next |-> 0,
             message |-> [s \in Slots |-> "absent"]]
IdleWorker  == [step |-> "idle", slot |-> 0, last |-> LastTick + 1, op |-> NoOperation,
                error |-> FALSE, outcome |-> "failed"]
IdleWatcher == [step |-> "idle", op |-> NoOperation, todo |-> {}, slot |-> 0, seen |-> Absent,
                since |-> 0, message |-> [s \in Slots |-> "absent"], reply |-> "none"]

Init ==
  /\ now       = 0
  /\ enabled   = TRUE
  /\ operation = FirstOperation
  /\ exec      = [s \in Slots |-> Absent]
  /\ run       = [s \in Slots |-> "none"]
  /\ mail      = [s \in Slots |-> "none"]
  /\ report    = NoReport
  /\ lockedBy  = Nobody
  /\ worker    = [p \in Workers |-> IdleWorker]
  /\ watcher   = [w \in Watchers |-> IdleWatcher]
  /\ taken     = 0
  /\ upsets    = 0

\* activePolicy.
active == enabled /\ operation.active

\* ensureExecution under the operation o that was read: INSERT ... ON CONFLICT,
\* an existing row stays as it is.
Ensured(s, o) ==
  IF s \in o.admits /\ exec[s].status = "absent"
    THEN [exec[s] EXCEPT !.status = "planned", !.op = o.id] ELSE exec[s]

\* Whether it returns the row: not that of another operation.
Given(s, o) == s \in o.admits /\ Ensured(s, o).op = o.id

\* deliveryState.
Delivery(m) == IF m = "processing" THEN "unclear" ELSE m

\* A mutant: a mail in the provider's hands counts as delivered.
OutcomeOptimistic(r, m) ==
  IF r # "completed" THEN "failed"
  ELSE IF Delivery(m) \in {"pending", "rejected"} THEN "partial"
  ELSE "completed"

\* outcome.
Outcome(r, m) ==
  IF r # "completed" THEN "failed"
  ELSE IF Delivery(m) \in {"pending", "rejected", "unclear"} THEN "partial"
  ELSE "completed"

-----------------------------------------------------------------------------
(* A scheduler: tick, runTenantControls, beginExecution, finishExecution *)

Goto(p, step) == worker' = [worker EXCEPT ![p].step = step]

\* Back to waiting for the next tick; lastKey stays, the rest is forgotten.
Rest(p) == worker' = [worker EXCEPT ![p] = [IdleWorker EXCEPT !.last = worker[p].last]]

\* tick: once per minute key and process, and one run at a time.
Tick(p) ==
  /\ worker[p].step = "idle"
  /\ now \in Slots
  /\ worker[p].last # now
  /\ worker' = [worker EXCEPT ![p] = [IdleWorker EXCEPT !.step = "policy", !.slot = now, !.last = now]]
  /\ UNCHANGED <<now, policy, rows, report, lockedBy, watcher, taken, upsets>>

\* runTenantControls and beginExecution check the window once more, and keep
\* the operation that was in force.
AdmitStart(p) ==
  /\ worker[p].step = "policy"
  /\ IF active /\ now = worker[p].slot
       THEN worker' = [worker EXCEPT ![p].step = "ensure", ![p].op = operation]
       ELSE Rest(p)
  /\ UNCHANGED <<now, policy, rows, report, lockedBy, watcher, taken, upsets>>

\* "time_control_monitor_operation_not_admitted" unless the row is given.
EnsureStart(p) ==
  LET s == worker[p].slot
      o == worker[p].op
  IN
  /\ worker[p].step = "ensure"
  /\ exec' = [exec EXCEPT ![s] = Ensured(s, o)]
  /\ IF Given(s, o) THEN Goto(p, "claim") ELSE Rest(p)
  /\ UNCHANGED <<now, policy, run, mail, report, lockedBy, watcher, taken, upsets>>

\* A mutant of the claim: any execution that has not finished is taken.
ClaimSlotShared(p) ==
  LET s == worker[p].slot IN
  /\ worker[p].step = "claim"
  /\ IF exec[s].status \in {"planned", "running"}
       THEN /\ exec' = [exec EXCEPT ![s].status = "running", ![s].late = now > s]
            /\ Goto(p, "prepare")
       ELSE UNCHANGED exec /\ Rest(p)
  /\ UNCHANGED <<now, policy, run, mail, report, lockedBy, watcher, taken, upsets>>

\* UPDATE ... WHERE status='planned': one scheduler wins the slot.
ClaimSlot(p) ==
  LET s == worker[p].slot IN
  /\ worker[p].step = "claim"
  /\ IF exec[s].status = "planned"
       THEN /\ exec' = [exec EXCEPT ![s].status = "running", ![s].late = now > s]
            /\ Goto(p, "prepare")
       ELSE UNCHANGED exec /\ Rest(p)
  /\ UNCHANGED <<now, policy, run, mail, report, lockedBy, watcher, taken, upsets>>

\* runTimeControl up to commitPreparation: the run row is published, or closed
\* as blocked when Timekontrol has been switched off.
Prepare(p) ==
  /\ worker[p].step = "prepare"
  /\ \/ run' = [run EXCEPT ![worker[p].slot] = "running"]
     \/ ~enabled /\ run' = [run EXCEPT ![worker[p].slot] = "blocked"]
  /\ Goto(p, "bind")
  /\ UNCHANGED <<now, policy, exec, mail, report, lockedBy, watcher, taken, upsets>>

\* recordStep run_binding: run_id is set once, whatever the execution's status.
Bind(p) ==
  LET s == worker[p].slot IN
  /\ worker[p].step = "bind"
  /\ exec' = [exec EXCEPT ![s].bound = TRUE]
  /\ Goto(p, IF run[s] = "blocked" THEN "dispatch" ELSE "evaluate")
  /\ UNCHANGED <<now, policy, run, mail, report, lockedBy, watcher, taken, upsets>>

\* The evaluation transaction: results, mails and the run's end together.  A
\* blocked run mails the internal error, a completed one its reminders, if any.
Evaluate(p) ==
  LET s == worker[p].slot IN
  /\ worker[p].step = "evaluate"
  /\ \E r \in {"completed", "blocked"}, m \in {"none", "pending"} :
       /\ r = "blocked" => m = "pending"
       /\ run'  = [run EXCEPT ![s] = r]
       /\ mail' = [mail EXCEPT ![s] = m]
  /\ Goto(p, "dispatch")
  /\ UNCHANGED <<now, policy, exec, report, lockedBy, watcher, taken, upsets>>

\* dispatchRun returns: every mail of the run has been worked off, or sending
\* is switched off and they stay queued.
Dispatched(p) ==
  /\ worker[p].step = "dispatch"
  /\ mail[worker[p].slot] # "processing"
  /\ Goto(p, "evidence")
  /\ UNCHANGED <<now, policy, rows, report, lockedBy, watcher, taken, upsets>>

\* The outbox works on a mail of the run: one attempt, never a second.
MailMoves(s) ==
  /\ \/ /\ mail[s] = "pending"
        /\ mail' = [mail EXCEPT ![s] = "processing"]
     \/ /\ mail[s] = "processing"
        /\ \E m \in {"accepted", "rejected", "unclear"} : mail' = [mail EXCEPT ![s] = m]
  /\ UNCHANGED <<now, policy, exec, run, report, lockedBy, worker, watcher, taken, upsets>>

\* finishExecution, first half: the state to record.
ReadEvidence(p) ==
  LET s == worker[p].slot IN
  /\ worker[p].step = "evidence"
  /\ worker' = [worker EXCEPT ![p].step = "finish", ![p].outcome =
                  IF worker[p].error \/ ~exec[s].bound THEN "failed" ELSE Outcome(run[s], mail[s])]
  /\ UNCHANGED <<now, policy, rows, report, lockedBy, watcher, taken, upsets>>

\* A mutant of the write: the watchdog's verdict is overwritten.
FinishAlways(p) ==
  /\ worker[p].step = "finish"
  /\ exec' = [exec EXCEPT ![worker[p].slot].status = worker[p].outcome, ![worker[p].slot].cause = "none"]
  /\ Rest(p)
  /\ UNCHANGED <<now, policy, run, mail, report, lockedBy, watcher, taken, upsets>>

\* Second half: UPDATE ... WHERE status='running'.
Finish(p) ==
  LET s == worker[p].slot IN
  /\ worker[p].step = "finish"
  /\ exec' = IF exec[s].status = "running"
               THEN [exec EXCEPT ![s].status = worker[p].outcome,
                       ![s].cause = IF worker[p].outcome = "completed" THEN "none" ELSE "other"]
               ELSE exec
  /\ Rest(p)
  /\ UNCHANGED <<now, policy, run, mail, report, lockedBy, watcher, taken, upsets>>

\* A statement or a trace insert fails.  Until beginExecution has returned
\* nobody finishes the execution; after that the catch block does, and gives up
\* when that fails too.
StepFails(p) ==
  /\ upsets < MaxUpsets
  /\ worker[p].step # "idle"
  /\ \/ /\ worker[p].step \in {"policy", "ensure", "claim", "prepare"}
        /\ Rest(p)
     \/ /\ worker[p].step \in {"prepare", "bind", "evaluate", "dispatch", "evidence", "finish"}
        /\ IF worker[p].error
             THEN Rest(p)
             ELSE worker' = [worker EXCEPT ![p].step = "evidence", ![p].error = TRUE]
  /\ upsets' = upsets + 1
  /\ UNCHANGED <<now, policy, rows, report, lockedBy, watcher, taken>>

\* The process dies and comes back with no memory of the minute it has served.
WorkerDies(p) ==
  /\ upsets < MaxUpsets
  /\ worker[p] # IdleWorker
  /\ worker' = [worker EXCEPT ![p] = IdleWorker]
  /\ upsets' = upsets + 1
  /\ UNCHANGED <<now, policy, rows, report, lockedBy, watcher, taken>>

-----------------------------------------------------------------------------
(* A monitor pass: the executions *)

Advance(w, step) == watcher' = [watcher EXCEPT ![w].step = step]

\* The pass keeps the time it started at and the operation that was in force.
StartPass(w) ==
  /\ watcher[w].step = "idle"
  /\ active
  /\ watcher' = [watcher EXCEPT ![w] = [IdleWatcher EXCEPT !.step = "ensure", !.op = operation,
                                                           !.todo = Slots, !.since = now]]
  /\ UNCHANGED <<now, policy, rows, report, lockedBy, worker, taken, upsets>>

\* The step after the slots of todo.
NextSlot(todo) == IF todo = {} THEN "overview" ELSE "ensure"

\* The slots in order; a slot whose row is not given is skipped.
EnsureSlot(w) ==
  LET o == watcher[w].op IN
  /\ watcher[w].step = "ensure"
  /\ \E s \in watcher[w].todo :
       /\ \A t \in watcher[w].todo : s <= t
       /\ exec' = [exec EXCEPT ![s] = Ensured(s, o)]
       /\ watcher' = IF Given(s, o)
            THEN [watcher EXCEPT ![w].step = "mark", ![w].slot = s,
                                 ![w].todo = @ \ {s}, ![w].seen = Ensured(s, o)]
            ELSE [watcher EXCEPT ![w].step = NextSlot(watcher[w].todo \ {s}), ![w].todo = @ \ {s}]
  /\ UNCHANGED <<now, policy, run, mail, report, lockedBy, worker, taken, upsets>>

\* A mutant: an execution that has started is left alone.
VerdictMissedOnly(seen, age) ==
  IF seen.status = "planned" /\ age >= MissedAfter THEN "missed" ELSE "none"

\* What the pass makes of the row it has read.
Verdict(seen, age) ==
  IF seen.status = "planned" /\ age >= MissedAfter THEN "missed"
  ELSE IF seen.status = "running" /\ age >= OverdueAfter THEN "failed"
  ELSE "none"

Age(w) == IF watcher[w].since < watcher[w].slot THEN 0 ELSE watcher[w].since - watcher[w].slot

SlotDone(w) ==
  watcher' = [watcher EXCEPT ![w].step = NextSlot(watcher[w].todo), ![w].slot = 0, ![w].seen = Absent]

\* The run's mails are looked at when the row that was read names a run, the
\* deadline has passed and they have not been found pending before.
Examined(seen, age) == seen.bound /\ age >= OverdueAfter /\ seen.cause # "unprocessed"

\* A mutant of the mark: the row is no longer compared with what was read.
MarkSlotBlindly(w) ==
  LET s == watcher[w].slot
      v == Verdict(watcher[w].seen, Age(w))
  IN
  /\ watcher[w].step = "mark"
  /\ exec' = IF v # "none"
               THEN [exec EXCEPT ![s].status = v, ![s].cause = IF v = "missed" THEN "missing" ELSE "deadline"]
               ELSE exec
  /\ IF Examined(watcher[w].seen, Age(w)) THEN Advance(w, "evidence") ELSE SlotDone(w)
  /\ UNCHANGED <<now, policy, run, mail, report, lockedBy, worker, taken, upsets>>

\* UPDATE ... WHERE status is the one that was read.
MarkSlot(w) ==
  LET s == watcher[w].slot
      v == Verdict(watcher[w].seen, Age(w))
  IN
  /\ watcher[w].step = "mark"
  /\ exec' = IF v # "none" /\ exec[s].status = watcher[w].seen.status
               THEN [exec EXCEPT ![s].status = v, ![s].cause = IF v = "missed" THEN "missing" ELSE "deadline"]
               ELSE exec
  /\ IF Examined(watcher[w].seen, Age(w)) THEN Advance(w, "evidence") ELSE SlotDone(w)
  /\ UNCHANGED <<now, policy, run, mail, report, lockedBy, worker, taken, upsets>>

\* runEvidence: the run's mails at this moment.
ReadMails(w) ==
  /\ watcher[w].step = "evidence"
  /\ IF Delivery(mail[watcher[w].slot]) = "pending"
       THEN Advance(w, "partial") ELSE SlotDone(w)
  /\ UNCHANGED <<now, policy, rows, report, lockedBy, worker, taken, upsets>>

MarkUnprocessed(w) ==
  LET s == watcher[w].slot IN
  /\ watcher[w].step = "partial"
  /\ exec' = IF exec[s].status \in {"completed", "partial"}
               THEN [exec EXCEPT ![s].status = "partial", ![s].cause = "unprocessed"]
               ELSE exec
  /\ SlotDone(w)
  /\ UNCHANGED <<now, policy, run, mail, report, lockedBy, worker, taken, upsets>>

-----------------------------------------------------------------------------
(* A monitor pass: the report *)

\* A mutant: the report is written two deadlines after the slot, not three.
OverviewEarly(w) ==
  /\ watcher[w].step = "overview"
  /\ watcher' = IF watcher[w].since + 2 >= ReportDue
                  THEN [watcher EXCEPT ![w].step = "insert", ![w].message = [s \in Slots |-> exec[s].status]]
                  ELSE [watcher EXCEPT ![w] = [IdleWatcher EXCEPT !.step = "abandon"]]
  /\ UNCHANGED <<now, policy, rows, report, lockedBy, worker, taken, upsets>>

\* enqueueReport: getOverview reads the executions in one statement.
Overview(w) ==
  /\ watcher[w].step = "overview"
  /\ watcher' = IF watcher[w].since >= ReportDue
                  THEN [watcher EXCEPT ![w].step = "insert", ![w].message = [s \in Slots |-> exec[s].status]]
                  ELSE [watcher EXCEPT ![w] = [IdleWatcher EXCEPT !.step = "abandon"]]
  /\ UNCHANGED <<now, policy, rows, report, lockedBy, worker, taken, upsets>>

\* INSERT ... ON CONFLICT: the first message stays; the conflicting update
\* waits for the row lock.
InsertReport(w) ==
  /\ watcher[w].step = "insert"
  /\ lockedBy = Nobody
  /\ report' = IF report.status = "none"
                 THEN [NoReport EXCEPT !.status = "queued", !.next = now, !.message = watcher[w].message]
                 ELSE report
  /\ watcher' = [watcher EXCEPT ![w] = [IdleWatcher EXCEPT !.step = "abandon"]]
  /\ UNCHANGED <<now, policy, rows, lockedBy, worker, taken, upsets>>

\* A mutant: an abandoned report goes back to the queue.
AbandonToQueue(w) ==
  /\ watcher[w].step = "abandon"
  /\ lockedBy = Nobody
  /\ report' = IF report.status = "sending" /\ now >= report.last + AbandonAfter
                 THEN [report EXCEPT !.status = "queued"] ELSE report
  /\ Advance(w, "list")
  /\ UNCHANGED <<now, policy, rows, lockedBy, worker, taken, upsets>>

\* A mutant: only the last attempt is given up.
AbandonLastAttempt(w) ==
  /\ watcher[w].step = "abandon"
  /\ lockedBy = Nobody
  /\ report' = IF report.status = "sending" /\ report.attempts = MaxAttempts /\ now >= report.last + AbandonAfter
                 THEN [report EXCEPT !.status = "unclear"] ELSE report
  /\ Advance(w, "list")
  /\ UNCHANGED <<now, policy, rows, lockedBy, worker, taken, upsets>>

\* A report in 'sending' for two minutes is nobody's: unclear for good.
Abandon(w) ==
  /\ watcher[w].step = "abandon"
  /\ lockedBy = Nobody
  /\ report' = IF report.status = "sending" /\ now >= report.last + AbandonAfter
                 THEN [report EXCEPT !.status = "unclear"] ELSE report
  /\ Advance(w, "list")
  /\ UNCHANGED <<now, policy, rows, lockedBy, worker, taken, upsets>>

Sendable ==
  /\ report.status \in {"queued", "rejected"}
  /\ report.attempts < MaxAttempts
  /\ report.next <= now
  /\ now < Expires

PassEnds(w) == watcher' = [watcher EXCEPT ![w] = IdleWatcher]

\* The list of sendable reports, and the first look of sendReport at the policy.
ListDue(w) ==
  /\ watcher[w].step = "list"
  /\ IF Sendable /\ active THEN Advance(w, "claim") ELSE PassEnds(w)
  /\ UNCHANGED <<now, policy, rows, report, lockedBy, worker, taken, upsets>>

\* sendReport: the claim is committed before anything else.
ClaimReport(w) ==
  /\ watcher[w].step = "claim"
  /\ lockedBy = Nobody
  /\ IF Sendable
       THEN /\ report' = [report EXCEPT !.status = "sending", !.attempts = @ + 1, !.last = now]
            /\ Advance(w, "lock")
       ELSE UNCHANGED report /\ PassEnds(w)
  /\ UNCHANGED <<now, policy, rows, lockedBy, worker, taken, upsets>>

Throws(w, reply) == watcher' = [watcher EXCEPT ![w].step = "failed", ![w].reply = reply]

\* The sending transaction locks the report, then shares a lock on the policy.
LockReport(w) ==
  /\ watcher[w].step = "lock"
  /\ lockedBy = Nobody
  /\ IF report.status # "sending" THEN UNCHANGED lockedBy /\ PassEnds(w)
     ELSE IF active THEN lockedBy' = w /\ Advance(w, "call")
     ELSE UNCHANGED lockedBy /\ Throws(w, "not_started")
  /\ UNCHANGED <<now, policy, rows, report, worker, taken, upsets>>

\* "lost": taken, but no usable answer; "conflict": 408 or 409, taken or not;
\* "error": 5xx or no connection.
Replies == {"accepted", "lost", "conflict", "rejected", "error"}

CallProvider(w, reply) ==
  /\ watcher[w].step = "call"
  /\ \E took \in BOOLEAN :
       /\ reply \in {"accepted", "lost"} => took
       /\ reply \in {"rejected", "error"} => ~took
       /\ taken' = IF took THEN taken + 1 ELSE taken
  /\ IF reply = "accepted"
       THEN Advance(w, "save") /\ UNCHANGED lockedBy
       ELSE Throws(w, reply) /\ lockedBy' = Nobody
  /\ UNCHANGED <<now, policy, rows, report, worker, upsets>>

SaveReport(w) ==
  /\ watcher[w].step = "save"
  /\ report'   = [report EXCEPT !.status = "accepted"]
  /\ lockedBy' = Nobody
  /\ PassEnds(w)
  /\ UNCHANGED <<now, policy, rows, worker, taken, upsets>>

\* A mutant: every 4xx answer is a rejection.
FailureStatusConflict(reply) ==
  IF reply = "not_started" THEN "queued"
  ELSE IF reply \in {"rejected", "conflict"} THEN "rejected"
  ELSE "unclear"

\* classifyStatusFailure.
FailureStatus(reply) ==
  IF reply = "not_started" THEN "queued"
  ELSE IF reply = "rejected" THEN "rejected"
  ELSE "unclear"

\* The catch block, after the ROLLBACK: UPDATE ... WHERE status='sending'.
RecordFailure(w) ==
  /\ watcher[w].step = "failed"
  /\ lockedBy = Nobody
  /\ report' = IF report.status = "sending"
                 THEN [report EXCEPT !.status = FailureStatus(watcher[w].reply), !.next = now + RetryAfter]
                 ELSE report
  /\ PassEnds(w)
  /\ UNCHANGED <<now, policy, rows, lockedBy, worker, taken, upsets>>

Unlock(w) == lockedBy' = IF lockedBy = w THEN Nobody ELSE lockedBy

\* A statement fails.  Before the claim, and in the catch block, the whole pass
\* ends; between them the catch block is next.  A COMMIT that fails may have
\* committed.
WatchFails(w) ==
  /\ upsets < MaxUpsets
  /\ \/ /\ watcher[w].step \notin {"idle", "lock", "call", "save"}
        /\ PassEnds(w)
        /\ UNCHANGED report
     \/ /\ watcher[w].step \in {"lock", "call"}
        /\ Throws(w, "not_started")
        /\ UNCHANGED report
     \/ /\ watcher[w].step = "save"
        /\ Throws(w, "lost")
        /\ report' \in {report, [report EXCEPT !.status = "accepted"]}
  /\ Unlock(w)
  /\ upsets' = upsets + 1
  /\ UNCHANGED <<now, policy, rows, worker, taken>>

\* The process dies: its transaction is rolled back.
WatcherDies(w) ==
  /\ upsets < MaxUpsets
  /\ watcher[w].step # "idle"
  /\ PassEnds(w)
  /\ Unlock(w)
  /\ upsets' = upsets + 1
  /\ UNCHANGED <<now, policy, rows, report, worker, taken>>

-----------------------------------------------------------------------------
(* Administrators and time *)

\* A mutant: the sending transaction does not share a lock on the policy.
PauseAtOnce ==
  /\ operation.active /\ upsets < MaxUpsets
  /\ operation' = [operation EXCEPT !.active = FALSE]
  /\ upsets' = upsets + 1
  /\ UNCHANGED <<now, enabled, rows, report, lockedBy, worker, watcher, taken>>

\* setOperation 'paused': waits for those who share a lock on the policy.
Pause ==
  /\ operation.active /\ upsets < MaxUpsets
  /\ lockedBy = Nobody
  /\ operation' = [operation EXCEPT !.active = FALSE]
  /\ upsets' = upsets + 1
  /\ UNCHANGED <<now, enabled, rows, report, lockedBy, worker, watcher, taken>>

\* setOperation 'active': a new operation, which admits the slots to come;
\* covered_from may lie behind the day that the first of them controls.
StartOperation ==
  /\ ~operation.active
  /\ \E whole \in BOOLEAN :
       operation' = [id |-> operation.id + 1, active |-> TRUE,
                     admits |-> {s \in Slots : s > now /\ (whole \/ \E t \in Slots : t < s)}]
  /\ UNCHANGED <<now, enabled, rows, report, lockedBy, worker, watcher, taken, upsets>>

\* setMode, settings, tenant and monitor policy: off, and on again with the
\* operation as it was.
SwitchOff ==
  /\ enabled /\ upsets < MaxUpsets
  /\ lockedBy = Nobody
  /\ enabled' = FALSE
  /\ upsets' = upsets + 1
  /\ UNCHANGED <<now, operation, rows, report, lockedBy, worker, watcher, taken>>

SwitchOn ==
  /\ ~enabled
  /\ enabled' = TRUE
  /\ UNCHANGED <<now, operation, rows, report, lockedBy, worker, watcher, taken, upsets>>

TimePasses ==
  /\ now < LastTick
  /\ now' = now + 1
  /\ UNCHANGED <<policy, rows, report, lockedBy, worker, watcher, taken, upsets>>

-----------------------------------------------------------------------------
Schedule(p) ==
  \/ Tick(p) \/ AdmitStart(p) \/ EnsureStart(p) \/ ClaimSlot(p)
  \/ Prepare(p) \/ Bind(p) \/ Evaluate(p) \/ Dispatched(p)
  \/ ReadEvidence(p) \/ Finish(p)

Watch(w) ==
  \/ StartPass(w) \/ EnsureSlot(w) \/ MarkSlot(w) \/ ReadMails(w) \/ MarkUnprocessed(w)
  \/ Overview(w) \/ InsertReport(w) \/ Abandon(w) \/ ListDue(w)
  \/ ClaimReport(w) \/ LockReport(w) \/ SaveReport(w) \/ RecordFailure(w)
  \/ \E reply \in Replies : CallProvider(w, reply)

Next ==
  \/ \E p \in Workers : Schedule(p) \/ StepFails(p) \/ WorkerDies(p)
  \/ \E w \in Watchers : Watch(w) \/ WatchFails(w) \/ WatcherDies(w)
  \/ \E s \in Slots : MailMoves(s)
  \/ Pause \/ StartOperation \/ SwitchOff \/ SwitchOn \/ TimePasses

Spec == Init /\ [][Next]_vars

\* As long as monitor passes keep being started and end; a scheduler may hang
\* for ever.
FairSpec ==
  /\ Spec
  /\ \A w \in Watchers : WF_vars(Watch(w))
  /\ WF_vars(TimePasses)

-----------------------------------------------------------------------------
(* Properties *)

OperationType == [id : Nat, active : BOOLEAN, admits : SUBSET Slots]
ExecType == [status : Statuses, op : Nat, bound : BOOLEAN, cause : Causes, late : BOOLEAN]
ReportType ==
  [status : {"none", "queued", "sending", "accepted", "rejected", "unclear"},
   attempts : 0..MaxAttempts, last : 0..LastTick, next : 0..(LastTick + RetryAfter),
   message : [Slots -> Statuses]]
WorkerType == [step : WorkerSteps, slot : Slots \cup {0}, last : 0..(LastTick + 1),
               op : OperationType, error : BOOLEAN, outcome : Outcomes]
WatcherType == [step : WatcherSteps, op : OperationType, todo : SUBSET Slots,
                slot : Slots \cup {0}, seen : ExecType, since : 0..LastTick, message : [Slots -> Statuses],
                reply : Replies \cup {"none", "not_started"}]

ExecutionsOK ==
  /\ exec \in [Slots -> ExecType]
  /\ run  \in [Slots -> RunStates]
  /\ mail \in [Slots -> Mails]
ReportOK ==
  /\ report \in ReportType
  /\ lockedBy \in Watchers \cup {Nobody}
  /\ taken \in Nat
WorkersOK == worker \in [Workers -> WorkerType]
WatchersOK == watcher \in [Watchers -> WatcherType]

\* Every variable keeps its shape; attempt_count never passes three.
TypeOK ==
  /\ now \in 0..LastTick /\ enabled \in BOOLEAN /\ operation \in OperationType
  /\ ExecutionsOK /\ ReportOK /\ WorkersOK /\ WatchersOK
  /\ upsets \in 0..MaxUpsets

RunningSteps == {"prepare", "bind", "evaluate", "dispatch", "evidence", "finish"}

\* No two schedulers ever run the control of the same slot, in whatever order
\* the processes start, stall, die and come back ("durable_slot_already_claimed").
OneRunner ==
  \A p, q \in Workers :
    p # q /\ worker[p].step \in RunningSteps /\ worker[q].step \in RunningSteps
      => worker[p].slot # worker[q].slot

\* A slot recorded or reported as missed was never run and never will be: the
\* watchdog's verdict and a late start exclude each other.
MissedNeverRan ==
  \A s \in Slots :
    exec[s].status = "missed" \/ report.message[s] = "missed" => run[s] = "none"

\* An execution shown as completed has a completed run whose mails the provider
\* took, although the outbox moved on while the evidence was being read.
CompletedMeansDelivered ==
  \A s \in Slots :
    exec[s].status = "completed" => run[s] = "completed" /\ mail[s] \in {"none", "accepted"}

\* A verdict stays: neither a slow scheduler nor a second pass reopens or
\* overwrites it, but a finished control may still be found to be partial.
VerdictStays ==
  [][\A s \in Slots :
       exec[s].status \in Finished =>
         \/ exec'[s].status = exec[s].status
         \/ exec[s].status = "completed" /\ exec'[s].status = "partial"]_vars

\* The operation in force, or paused, does not reach a slot it does not admit,
\* nor one whose row an earlier operation has planned.
OutOfReach(s) ==
  s \notin operation.admits \/ (exec[s].status # "absent" /\ exec[s].op # operation.id)

\* The day's report is frozen when every control the operation reaches has
\* ended, unless a scheduler was held up between the window check and the claim
\* of its slot.
FrozenIsSettled ==
  report.status # "none" =>
    \A s \in Slots :
      \/ report.message[s] \in Finished
      \/ report.message[s] = "running" /\ exec[s].late
      \/ OutOfReach(s)

\* The provider takes the day's report at most once, whatever passes overlap,
\* fail or die, and however often a rejected report is sent again.
ReportTakenOnce == taken <= 1

\* A report shown as accepted was taken; one shown as queued or rejected, which
\* a later pass may send again, was not.
ReportTellsTheTruth ==
  /\ report.status = "accepted" => taken = 1
  /\ report.status \in {"queued", "rejected"} => taken = 0

\* "Honor the immediate database stop": no pass is in a provider call, or about
\* to record its answer, once the control has been stopped.
StopIsImmediate == \A w \in Watchers : watcher[w].step \in {"call", "save"} => active

\* Unless the control stays stopped, every slot that the operation reaches ends
\* with a verdict, although schedulers may never start it or hang in the middle
\* of it.
EverySlotSettles ==
  <>[]active => \A s \in Slots : <>[](exec[s].status \in Finished \/ OutOfReach(s))

\* Unless the control stays stopped, the report is written and ends accepted,
\* unclear, rejected or queued with no attempt left or past its expiry.
ReportSettles ==
  <>[]active =>
    <>[]( \/ report.status \in {"accepted", "unclear"}
          \/ /\ report.status \in {"queued", "rejected"}
             /\ report.attempts = MaxAttempts \/ now >= Expires)
=============================================================================
