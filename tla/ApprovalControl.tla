---------------------------- MODULE ApprovalControl ----------------------------
(***************************************************************************)
(* Approval control (modules/approvalControl): on every weekday slot the   *)
(* scheduler of each server process claims the day's run, captures the      *)
(* open registrations from the source system and mails a summary, at most   *)
(* once, while tenant administrators pause and reactivate the control,      *)
(* change its mail routing and run previews.                                *)
(*                                                                         *)
(* The durable state is a log of audit events; a run is the row of its     *)
(* started, attempt and completed events.  Mail leaves only under two       *)
(* advisory locks, shared with nobody who changes the control or routing.   *)
(***************************************************************************)
EXTENDS Naturals

CONSTANTS
  Processes,    \* server processes, each with its own scheduler
  LastSlot,     \* days considered
  MaxRevision,  \* bound on administrators' changes of the control
  MaxRouting,   \* bound on changes of the mail routing
  MaxScope,     \* bound on changes of the recipient's projects
  Modes,        \* run modes in use
  Nobody, Preview  \* the admission lock is free, or held by a user's preview

ASSUME SlotsAssumption   == LastSlot \in Nat \ {0}
ASSUME BoundsAssumption  == MaxRevision \in Nat /\ MaxRouting \in Nat /\ MaxScope \in Nat
ASSUME ModesAssumption   == "live" \in Modes /\ Modes \subseteq {"live", "simulation"}
ASSUME HoldersAssumption == Nobody \notin Processes /\ Preview \notin Processes /\ Nobody # Preview

Slots == 1..LastSlot

\* Time in half days: slot d has its minute at 2d; the day is over at 2d + 2.
SlotTime(d) == 2 * d
LastTime == SlotTime(LastSlot) + 2

Sent    == {"provider_accepted", "provider_rejected", "provider_unclear"}
Results == Sent \cup {"none", "no_open", "simulated", "blocked", "failed"}
Steps == {"idle", "due", "claimed", "admitted", "capturing", "prepared", "attempted",
          "cleared", "locked", "routed", "sending", "finishing", "caught"}

VARIABLES
  now,         \* the time
  control,     \* the latest tenant_config_changed event of the control
  activation,  \* the day of the first activation, 0 before it
  routing,     \* revision of the operational mail routing
  scope,       \* version of the recipient's projects, bindings and address
  run,         \* the run of each slot and mode
  admission,   \* holder of advisory lock 6121
  recent,      \* a capture was admitted or previewed in the last 60 seconds
  step,        \* where each process stands in runDue
  job,         \* what a process has read: slot, mode, revision, scope, route
  transport,   \* transportStarted
  verdict,     \* the result a process is about to record
  called,      \* history: provider calls per slot
  accepted,    \* history: slots whose mail the provider took
  lost,        \* history: runs whose process died or could not write
  off          \* history: slots since whose time the control has been off

tenant  == <<control, activation, routing, scope>>
lock    == <<admission, recent>>
local   == <<step, job, transport, verdict>>
history == <<called, accepted, lost, off>>
vars    == <<now, tenant, run, lock, local, history>>

NoJob == [slot |-> 0, mode |-> "none", revision |-> 0, scope |-> 0, route |-> 0]
Job   == [slot : Slots, mode : Modes, revision : 0..MaxRevision, scope : 0..MaxScope, route : 0..MaxRouting]
Run   == [started : BOOLEAN, attempt : BOOLEAN, result : Results]
NoRun == [started |-> FALSE, attempt |-> FALSE, result |-> "none"]

Init ==
  /\ now        = 1
  /\ control    = [enabled |-> FALSE, revision |-> 0, enabledAt |-> 0]
  /\ activation = 0
  /\ routing    = 0
  /\ scope      = 0
  /\ run        = [d \in Slots |-> [m \in Modes |-> NoRun]]
  /\ admission  = Nobody
  /\ recent     = FALSE
  /\ step       = [p \in Processes |-> "idle"]
  /\ job        = [p \in Processes |-> NoJob]
  /\ transport  = [p \in Processes |-> FALSE]
  /\ verdict    = [p \in Processes |-> "none"]
  /\ called     = [d \in Slots |-> 0]
  /\ accepted   = {}
  /\ lost       = {}
  /\ off        = {}

RunOf(p) == run[job[p].slot][job[p].mode]

Goto(p, s) == step' = [step EXCEPT ![p] = s]

\* The process gives up its lock 6121, if it holds it.
LeaveAdmission(p) == admission' = IF admission = p THEN Nobody ELSE admission

-----------------------------------------------------------------------------
(* Claiming the slot *)

\* A mutant: an activation in the slot's own minute still counts.
ValidForSlotThatMinute(c, d) == c.enabled /\ c.revision > 0 /\ SlotTime(d) >= c.enabledAt

\* validForSlot: the control is active and was so before the slot's time.
ValidForSlot(c, d) == c.enabled /\ c.revision > 0 /\ SlotTime(d) > c.enabledAt

\* tick and the first half of runDue: in the slot's minute, with an active
\* control; there is no catching up on a missed slot.
Due(p, d, m) ==
  /\ step[p] = "idle"
  /\ now = SlotTime(d)
  /\ activation # 0
  /\ ValidForSlot(control, d)
  /\ job' = [job EXCEPT ![p] = [slot |-> d, mode |-> m, revision |-> control.revision, scope |-> scope, route |-> 0]]
  /\ Goto(p, "due")
  /\ UNCHANGED <<now, tenant, run, lock, transport, verdict, history>>

\* The control is still as the process has read it.
ControlUnchanged(p) ==
  /\ control.revision = job[p].revision
  /\ ValidForSlot(control, job[p].slot)

\* runDue returns, and what it has read is gone.
Forget(p) == Goto(p, "idle") /\ job' = [job EXCEPT ![p] = NoJob]

\* repository.claim under the shared control lock; it is the first to start the
\* run of its day and mode, or has nothing to do.
Claim(p) ==
  LET d == job[p].slot  m == job[p].mode IN
  /\ step[p] = "due"
  /\ ControlUnchanged(p) /\ ~run[d][m].started
  /\ run' = [run EXCEPT ![d][m].started = TRUE]
  /\ \/ Goto(p, "claimed") /\ UNCHANGED <<job, lost>>
     \/ Forget(p) /\ lost' = lost \cup {<<d, m>>}  \* the outer commit fails
  /\ UNCHANGED <<now, tenant, lock, transport, verdict, called, accepted, off>>

\* The control has changed, the slot is taken, or the claim fails.
ClaimRefused(p) ==
  /\ step[p] = "due"
  /\ Forget(p)
  /\ UNCHANGED <<now, tenant, run, lock, transport, verdict, history>>

-----------------------------------------------------------------------------
(* Admission, capture and preparation *)

\* An exception inside admission.read: the lock is given up on the way out.
Throw(p) ==
  /\ Goto(p, "caught")
  /\ LeaveAdmission(p)

Admit(p) ==
  /\ step[p] = "claimed"
  /\ admission = Nobody /\ ~recent
  /\ admission' = p /\ recent' = TRUE
  /\ Goto(p, "admitted")
  /\ UNCHANGED <<now, tenant, run, job, transport, verdict, history>>

\* Control, slot and scope are read again before the source is.
StartCapture(p) ==
  /\ step[p] = "admitted"
  /\ ControlUnchanged(p) /\ now = SlotTime(job[p].slot) /\ scope = job[p].scope
  /\ Goto(p, "capturing")
  /\ UNCHANGED <<now, tenant, run, lock, job, transport, verdict, history>>

\* More than two minutes since the start, or another day.
MayBeExpired(p)  == now > SlotTime(job[p].slot)
MustBeExpired(p) == now >= SlotTime(job[p].slot) + 2

\* The capture answers; scope and control are read once more; the route of the
\* mail is composed.
EndCapture(p, open) ==
  /\ step[p] = "capturing"
  /\ ControlUnchanged(p) /\ scope = job[p].scope /\ ~MustBeExpired(p)
  /\ IF open
       THEN /\ job' = [job EXCEPT ![p].route = routing]
            /\ Goto(p, "prepared")
            /\ UNCHANGED verdict
       ELSE /\ verdict' = [verdict EXCEPT ![p] = "no_open"]
            /\ Goto(p, "finishing")
            /\ UNCHANGED job
  /\ UNCHANGED <<now, tenant, run, lock, transport, history>>

Simulate(p) ==
  /\ step[p] = "prepared" /\ job[p].mode = "simulation"
  /\ verdict' = [verdict EXCEPT ![p] = "simulated"]
  /\ Goto(p, "finishing")
  /\ UNCHANGED <<now, tenant, run, lock, job, transport, history>>

\* Any failure before the attempt: a busy admission lock, the cooldown, a
\* changed control or scope, a source error, an expired snapshot, a disabled mail.
GiveUp(p) ==
  /\ step[p] \in {"claimed", "admitted", "capturing", "prepared"}
  /\ Throw(p)
  /\ UNCHANGED <<now, tenant, run, recent, job, transport, verdict, history>>

-----------------------------------------------------------------------------
(* The mail *)

\* repository.attempt: durable before the provider is contacted.
Attempt(p) ==
  /\ step[p] = "prepared" /\ job[p].mode = "live"
  /\ IF ~RunOf(p).attempt /\ RunOf(p).result = "none"
       THEN /\ run' = [run EXCEPT ![job[p].slot][job[p].mode].attempt = TRUE]
            /\ Goto(p, "attempted")
            /\ UNCHANGED admission
       ELSE UNCHANGED run /\ Throw(p)
  /\ UNCHANGED <<now, tenant, recent, job, transport, verdict, history>>

\* The last checks outside the locks end with "blocked" or let the mail pass.
Preflight(p, pass) ==
  /\ step[p] = "attempted"
  /\ pass => scope = job[p].scope /\ ~MustBeExpired(p)
  /\ IF pass
       THEN Goto(p, "cleared") /\ UNCHANGED verdict
       ELSE /\ scope # job[p].scope \/ MayBeExpired(p)
            /\ verdict' = [verdict EXCEPT ![p] = "blocked"]
            /\ Goto(p, "finishing")
  /\ UNCHANGED <<now, tenant, run, lock, job, transport, history>>

\* withSendLock: the shared lock 6125, held until the provider has answered.
LockControl(p) ==
  /\ step[p] = "cleared"
  /\ ControlUnchanged(p)
  /\ Goto(p, "locked")
  /\ UNCHANGED <<now, tenant, run, lock, job, transport, verdict, history>>

\* withMessageLock: the shared lock 6124, held as long.
LockRouting(p) ==
  /\ step[p] = "locked"
  /\ routing = job[p].route
  /\ Goto(p, "routed")
  /\ UNCHANGED <<now, tenant, run, lock, job, transport, verdict, history>>

\* One more look at scope and time under the locks, and the request goes out.
StartTransport(p) ==
  /\ step[p] = "routed"
  /\ scope = job[p].scope /\ ~MustBeExpired(p)
  /\ transport' = [transport EXCEPT ![p] = TRUE]
  /\ called' = [called EXCEPT ![job[p].slot] = @ + 1]
  /\ Goto(p, "sending")
  /\ UNCHANGED <<now, tenant, run, lock, job, verdict, accepted, lost, off>>

\* Any failure between the attempt and the request.
Abandon(p) ==
  /\ step[p] \in {"cleared", "locked", "routed"}
  /\ Throw(p)
  /\ UNCHANGED <<now, tenant, run, recent, job, transport, verdict, history>>

\* A mutant of the answer: whatever was not rejected counts as accepted.
AnswerHopefully(p, outcome) ==
  /\ step[p] = "sending"
  /\ verdict' = [verdict EXCEPT ![p] = IF outcome = "rejected" THEN "provider_rejected" ELSE "provider_accepted"]
  /\ \E taken \in BOOLEAN :
       /\ outcome = "accepted" => taken
       /\ outcome = "rejected" => ~taken
       /\ accepted' = IF taken THEN accepted \cup {job[p].slot} ELSE accepted
  /\ Goto(p, "finishing")
  /\ UNCHANGED <<now, tenant, run, lock, job, transport, called, lost, off>>

\* A mutant of the answer: a mail whose fate is unclear is sent again.
AnswerRetried(p, outcome) ==
  /\ step[p] = "sending"
  /\ IF outcome = "unclear" THEN Goto(p, "routed") /\ UNCHANGED verdict
     ELSE Goto(p, "finishing") /\ verdict' = [verdict EXCEPT ![p] = IF outcome = "accepted" THEN "provider_accepted" ELSE "provider_rejected"]
  /\ \E taken \in BOOLEAN :
       /\ outcome = "accepted" => taken
       /\ outcome = "rejected" => ~taken
       /\ accepted' = IF taken THEN accepted \cup {job[p].slot} ELSE accepted
  /\ UNCHANGED <<now, tenant, run, lock, job, transport, called, lost, off>>

\* The provider takes or refuses the mail; "unclear" stands for a timeout, a
\* 408, 409, 429 or 5xx, a receipt without id or a commit that fails.
Answer(p, outcome) ==
  /\ step[p] = "sending"
  /\ verdict' = [verdict EXCEPT ![p] =
       CASE outcome = "accepted" -> "provider_accepted"
         [] outcome = "rejected" -> "provider_rejected"
         [] outcome = "unclear"  -> "provider_unclear"]
  /\ \E taken \in BOOLEAN :
       /\ outcome = "accepted" => taken
       /\ outcome = "rejected" => ~taken
       /\ accepted' = IF taken THEN accepted \cup {job[p].slot} ELSE accepted
  /\ Goto(p, "finishing")
  /\ UNCHANGED <<now, tenant, run, lock, job, transport, called, lost, off>>

-----------------------------------------------------------------------------
(* Recording the result *)

\* repository.finish: the first result stands.
Record(d, m, result) ==
  run' = [run EXCEPT ![d][m].result = IF @ = "none" THEN result ELSE @]

\* The run is over for this process.
Done(p) ==
  /\ Forget(p)
  /\ transport' = [transport EXCEPT ![p] = FALSE]
  /\ verdict'   = [verdict EXCEPT ![p] = "none"]
  /\ LeaveAdmission(p)

Finish(p) ==
  /\ step[p] = "finishing"
  /\ Record(job[p].slot, job[p].mode, verdict[p])
  /\ Done(p)
  /\ UNCHANGED <<now, tenant, recent, history>>

\* The transaction fails, or commits and its answer is lost.
FinishFails(p) ==
  /\ step[p] = "finishing"
  /\ Record(job[p].slot, job[p].mode, verdict[p]) \/ UNCHANGED run
  /\ Throw(p)
  /\ UNCHANGED <<now, tenant, recent, job, transport, verdict, history>>

\* A mutant of the catch block: it knows nothing of the provider.
CatchBlindly(p) ==
  /\ step[p] = "caught"
  /\ Record(job[p].slot, job[p].mode, IF RunOf(p).attempt THEN "blocked" ELSE "failed")
  /\ Done(p)
  /\ UNCHANGED <<now, tenant, recent, history>>

\* A mutant of the catch block: a run with an attempt is left as it is.
CatchLeavesAttempt(p) ==
  /\ step[p] = "caught"
  /\ IF RunOf(p).attempt THEN UNCHANGED run ELSE Record(job[p].slot, job[p].mode, "failed")
  /\ Done(p)
  /\ UNCHANGED <<now, tenant, recent, history>>

\* The catch block of runDue.
Catch(p) ==
  LET result == IF verdict[p] \in Sent THEN verdict[p]
                ELSE IF transport[p] THEN "provider_unclear"
                ELSE IF RunOf(p).attempt \/ ~ControlUnchanged(p) THEN "blocked"
                ELSE "failed" IN
  /\ step[p] = "caught"
  /\ Record(job[p].slot, job[p].mode, result)
  /\ Done(p)
  /\ UNCHANGED <<now, tenant, recent, history>>

\* The process dies, or the catch block cannot write either.
Die(p) ==
  /\ step[p] # "idle"
  /\ lost' = IF step[p] = "due" THEN lost ELSE lost \cup {<<job[p].slot, job[p].mode>>}
  /\ Done(p)
  /\ UNCHANGED <<now, tenant, run, recent, called, accepted, off>>

-----------------------------------------------------------------------------
(* Administrators, previews and time *)

SendLockHeld == \E p \in Processes : step[p] \in {"locked", "routed", "sending"}
RouteLockHeld == \E p \in Processes : step[p] \in {"routed", "sending"}

\* The slots whose minute has come by time t.
Passed(t) == {d \in Slots : SlotTime(d) <= t}

\* A mutant of change: it does not wait for the mail being sent.
ChangeUnlocked(enabling) ==
  /\ control.enabled # enabling
  /\ control.revision < MaxRevision
  /\ activation' = IF enabling /\ activation = 0 THEN now ELSE activation
  /\ control' = [enabled |-> enabling, revision |-> control.revision + 1,
                 enabledAt |-> IF enabling THEN now ELSE control.enabledAt]
  /\ off' = off \cup Passed(now)
  /\ UNCHANGED <<now, routing, scope, run, lock, local, called, accepted, lost>>

\* change: activate or pause under the exclusive lock 6125; a request whose
\* revision is stale, or that finds a mail being sent, is refused.
Change(enabling) ==
  /\ ~SendLockHeld
  /\ control.enabled # enabling
  /\ control.revision < MaxRevision
  /\ activation' = IF enabling /\ activation = 0 THEN now ELSE activation
  /\ control' = [enabled |-> enabling, revision |-> control.revision + 1,
                 enabledAt |-> IF enabling THEN now ELSE control.enabledAt]
  /\ off' = off \cup Passed(now)
  /\ UNCHANGED <<now, routing, scope, run, lock, local, called, accepted, lost>>

\* operationalMailRouting.save under the exclusive lock 6124.
ChangeRouting ==
  /\ ~RouteLockHeld
  /\ routing < MaxRouting
  /\ routing' = routing + 1
  /\ UNCHANGED <<now, control, activation, scope, run, lock, local, history>>

\* Sync and assignments change the projects of the recipient at any time.
ChangeScope ==
  /\ scope < MaxScope
  /\ scope' = scope + 1
  /\ UNCHANGED <<now, control, activation, routing, run, lock, local, history>>

\* A user's preview shares admission and cooldown with the runs.
StartPreview ==
  /\ admission = Nobody /\ ~recent
  /\ admission' = Preview /\ recent' = TRUE
  /\ UNCHANGED <<now, tenant, run, local, history>>

\* Its own event starts the cooldown again, unless it could not be written.
EndPreview ==
  /\ admission = Preview
  /\ admission' = Nobody
  /\ recent' \in {TRUE, recent}
  /\ UNCHANGED <<now, tenant, run, local, history>>

\* A preview of a user without projects needs no admission, but leaves its event.
PreviewNothing ==
  /\ ~recent
  /\ recent' = TRUE
  /\ UNCHANGED <<now, tenant, run, admission, local, history>>

CooldownEnds ==
  /\ recent
  /\ recent' = FALSE
  /\ UNCHANGED <<now, tenant, run, admission, local, history>>

PassTime ==
  /\ now < LastTime
  /\ now' = now + 1
  /\ off' = IF control.enabled THEN off ELSE off \cup Passed(now + 1)
  /\ UNCHANGED <<tenant, run, lock, local, called, accepted, lost>>

-----------------------------------------------------------------------------
Work(p) ==
  \/ Claim(p) \/ ClaimRefused(p)
  \/ Admit(p) \/ StartCapture(p) \/ Simulate(p) \/ GiveUp(p)
  \/ Attempt(p) \/ LockControl(p) \/ LockRouting(p) \/ StartTransport(p) \/ Abandon(p)
  \/ Finish(p) \/ FinishFails(p) \/ Catch(p)
  \/ \E open \in BOOLEAN : EndCapture(p, open)
  \/ \E pass \in BOOLEAN : Preflight(p, pass)
  \/ \E outcome \in {"accepted", "rejected", "unclear"} : Answer(p, outcome)

Environment ==
  \/ \E enabling \in BOOLEAN : Change(enabling)
  \/ ChangeRouting \/ ChangeScope
  \/ StartPreview \/ EndPreview \/ PreviewNothing \/ CooldownEnds \/ PassTime

Next ==
  \/ \E p \in Processes :
       \/ \E d \in Slots, m \in Modes : Due(p, d, m)
       \/ Work(p) \/ Die(p)
  \/ Environment

Spec == Init /\ [][Next]_vars

-----------------------------------------------------------------------------
(* Properties *)

TypeOK ==
  /\ now \in 1..LastTime
  /\ control \in [enabled : BOOLEAN, revision : 0..MaxRevision, enabledAt : 0..LastTime]
  /\ activation \in 0..LastTime
  /\ routing \in 0..MaxRouting
  /\ scope \in 0..MaxScope
  /\ run \in [Slots -> [Modes -> Run]]
  /\ admission \in Processes \cup {Nobody, Preview}
  /\ recent \in BOOLEAN
  /\ step \in [Processes -> Steps]
  /\ job \in [Processes -> Job \cup {NoJob}]
  /\ \A p \in Processes : step[p] # "idle" => job[p] \in Job
  /\ transport \in [Processes -> BOOLEAN]
  /\ verdict \in [Processes -> Results]
  /\ called \in [Slots -> Nat]
  /\ accepted \subseteq Slots
  /\ lost \subseteq Slots \X Modes
  /\ off \subseteq Slots

\* A slot's mail goes to the provider at most once, whichever processes tick in
\* its minute, die, or find the run half done.
OneCallPerSlot == \A d \in Slots : called[d] <= 1

\* No result denies a mail that went out: after a call the run shows a provider
\* result, or none yet, in which case its attempt shows as unclear; and a mail
\* the provider took is never shown as rejected.
MailNotDenied ==
  \A d \in Slots : called[d] > 0 =>
    /\ run[d]["live"].attempt
    /\ run[d]["live"].result \in Sent \cup {"none"}
    /\ d \in accepted => run[d]["live"].result # "provider_rejected"

\* While a mail is with the provider the control is active, as the run found it
\* and since before its slot, and the routing is the one the mail was composed
\* with: a pause or a new recipient list is never overtaken by a mail.
MailUnderCurrentControl ==
  \A p \in Processes : step[p] = "sending" => ControlUnchanged(p) /\ routing = job[p].route

\* "The first ordinary run is the next planned time after activation or
\* reactivation" (runDue): once the control has been off in a slot's minute or
\* after it, no mail of that slot goes out any more, not from a run that was
\* claimed before the pause, and not after a reactivation in the same minute.
PassedSlotsStaySilent == [][\A d \in off : called'[d] = called[d]]_vars

\* APPROVAL_CONTROL_V1.md: the start does not move on pause or reactivation.
PeriodIsFixed == [][activation # 0 => activation' = activation]_vars

\* A claimed run without a result is at work: some process is on its way to
\* recording one, whatever failed, changed or expired meanwhile; only a death or
\* a write that fails in the catch block leaves a run behind (runDue).
NoRunForgotten ==
  \A d \in Slots, m \in Modes : run[d][m].started /\ run[d][m].result = "none" =>
    \/ <<d, m>> \in lost
    \/ \E p \in Processes : step[p] \notin {"idle", "due"} /\ job[p].slot = d /\ job[p].mode = m

\* The mail of each slot keeps the promise of MailDelivery, as one that must
\* never be delivered twice.
Outcome(d) ==
  LET r == run[d]["live"] IN
  IF ~r.started THEN "absent"
  ELSE IF r.result = "none" THEN "pending"
  ELSE IF r.result = "provider_accepted" THEN "sent"
  ELSE "dead"

Delivery == INSTANCE MailDelivery WITH
  Mails <- Slots, Once <- Slots, Limit <- 1,
  outcome <- [d \in Slots |-> Outcome(d)],
  copies <- [d \in Slots |-> IF d \in accepted THEN {1} ELSE {}]

DeliveryPromise == Delivery!Spec
=============================================================================
