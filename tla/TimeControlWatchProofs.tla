------------------------ MODULE TimeControlWatchProofs ------------------------
(***************************************************************************)
(* Theorems about Timekontrol's scheduler and watchdog, for any slots,     *)
(* schedulers, monitor passes and upsets.                                  *)
(*                                                                         *)
(* Three inductive invariants rest on the types.  Executions: a scheduler  *)
(* that runs a slot's control holds its row as "running", or as "failed"   *)
(* by the watchdog's verdict; nobody claims such a row again.  Report: at  *)
(* most one pass is between its claim and its result, and as long as it    *)
(* is, the report is not for sending.  Freezing: a pass that began after   *)
(* the report was due leaves each slot ended, running late, or out of the  *)
(* reach of the operation in force.                                        *)
(***************************************************************************)
EXTENDS TimeControlWatch, TLAPS

\* The types, and which slot an actor is concerned with.
BoundsOK ==
  now \in 0..LastTick /\ enabled \in BOOLEAN /\ operation \in OperationType /\ upsets \in 0..MaxUpsets
WorkersTyped ==
  WorkersOK /\ \A p \in Workers : worker[p].step # "idle" => worker[p].slot \in Slots
WatchersTyped ==
  WatchersOK /\ \A w \in Watchers :
    watcher[w].step \in {"mark", "evidence", "partial"} => watcher[w].slot \in Slots
Typed == BoundsOK /\ ExecutionsOK /\ ReportOK /\ WorkersTyped /\ WatchersTyped

\* What administrators do.
PolicyMoves == Pause \/ StartOperation \/ SwitchOff \/ SwitchOn

-----------------------------------------------------------------------------
\* What the executions' rows say of those who run them.
Runs(p) == worker[p].step \in RunningSteps
RunnersHold == \A p \in Workers : Runs(p) => exec[worker[p].slot].status \in {"running", "failed"}
UnclaimedNeverRan == \A s \in Slots : exec[s].status \in {"absent", "planned", "missed"} => run[s] = "none"
OutcomesTrue == \A p \in Workers : worker[p].step = "finish" /\ worker[p].outcome = "completed" =>
  run[worker[p].slot] = "completed" /\ mail[worker[p].slot] \in {"none", "accepted"}
MessagesStay == \A s \in Slots :
  /\ \A w \in Watchers : watcher[w].message[s] = "missed" => exec[s].status = "missed"
  /\ report.message[s] = "missed" => exec[s].status = "missed"

Runners == RunnersHold /\ OneRunner /\ UnclaimedNeverRan /\ OutcomesTrue /\ CompletedMeansDelivered

-----------------------------------------------------------------------------
\* Who is on the way to the provider, and what the report says meanwhile.
Sends(w) == watcher[w].step \in {"lock", "call", "save", "failed"}
ForSending == report.status \in {"none", "queued", "rejected"}
OneSender == \A v, w \in Watchers : Sends(v) /\ Sends(w) => v = w
SentMeanwhile == \A w \in Watchers : Sends(w) => ~ForSending
LockMeansCall == \A w \in Watchers :
  watcher[w].step \in {"call", "save"} <=> lockedBy = w
Calling == \A w \in Watchers : watcher[w].step \in {"call", "save"} => report.status = "sending" /\ active
NotYetTaken ==
  /\ ForSending => taken = 0
  /\ \A w \in Watchers : watcher[w].step \in {"lock", "call"} => taken = 0
  /\ \A w \in Watchers : watcher[w].step = "failed" /\ FailureStatus(watcher[w].reply) # "unclear" => taken = 0
Taken ==
  /\ taken <= 1
  /\ report.status = "accepted" => taken = 1
  /\ \A w \in Watchers : watcher[w].step = "save" => taken = 1
SendInv == OneSender /\ SentMeanwhile /\ LockMeansCall /\ Calling /\ NotYetTaken /\ Taken

-----------------------------------------------------------------------------
\* What a pass that may freeze the report leaves behind it.  An operation that
\* begins after the report is due admits no slot of the day.
Ended(s) == exec[s].status \in Finished
Late(s) == exec[s].status # "planned" /\ exec[s].status # "absent" /\ exec[s].late
Judged(s) == Ended(s) \/ (exec[s].status = "running" /\ Late(s))
SeenBefore(w) ==
  LET s == watcher[w].slot IN
  \/ watcher[w].seen.status = "planned" /\ (exec[s].status = "planned" \/ Judged(s))
  \/ watcher[w].seen.status = "running" /\ (exec[s].status = "running" \/ Ended(s))
  \/ watcher[w].seen.status \in Finished /\ Ended(s)
InPass(w) == watcher[w].step \in {"ensure", "mark", "evidence", "partial", "overview"}
SameOp(w) ==
  \/ operation.id = watcher[w].op.id /\ operation.admits = watcher[w].op.admits
  \/ operation.admits = {}
Left(s) == Judged(s) \/ OutOfReach(s)
PassGood(w) == InPass(w) /\ watcher[w].since >= ReportDue =>
  /\ now >= watcher[w].since /\ SameOp(w)
  /\ \A s \in Slots \ watcher[w].todo :
       \/ Left(s)
       \/ watcher[w].step = "mark" /\ s = watcher[w].slot
  /\ watcher[w].step = "mark" => SeenBefore(w)
  /\ watcher[w].step = "overview" => watcher[w].todo = {}
Told(m) == \A s \in Slots :
  m[s] \in Finished \/ (m[s] = "running" /\ Late(s)) \/ OutOfReach(s)
FreezeInv ==
  /\ \A w \in Watchers : PassGood(w)
  /\ \A w \in Watchers : watcher[w].step = "insert" => now >= ReportDue /\ Told(watcher[w].message)
  /\ report.status # "none" => now >= ReportDue /\ Told(report.message)

-----------------------------------------------------------------------------
(* Types.                                                                  *)

LEMMA TicksAreNaturals ==
  /\ LastTick \in Nat /\ ReportDue \in Nat /\ MaxUpsets \in Nat
  /\ \A s \in Slots : s \in Nat /\ s + 3 <= ReportDue
BY SlotsAssumption, DueAssumption, BoundsAssumption

LEMMA IdleTyped == IdleWorker \in WorkerType /\ IdleWatcher \in WatcherType /\ Absent \in ExecType
<1>0. NoOperation \in OperationType
  BY DEF NoOperation, OperationType
<1>1. Absent \in ExecType /\ Absent.status = "absent"
  BY TicksAreNaturals DEF Absent, ExecType, Statuses, Causes
<1>2. [s \in Slots |-> "absent"] \in [Slots -> Statuses]
  BY DEF Statuses
<1>3. IdleWorker \in WorkerType
  BY <1>0, TicksAreNaturals DEF IdleWorker, WorkerType, WorkerSteps, Outcomes
<1>4. IdleWatcher \in WatcherType
  BY <1>0, <1>1, <1>2, TicksAreNaturals DEF IdleWatcher, WatcherType, WatcherSteps
<1> QED BY <1>1, <1>3, <1>4

LEMMA WorkerSet ==
  ASSUME WorkersTyped, NEW p \in Workers, NEW k \in WorkerType,
         k.step # "idle" => k.slot \in Slots,
         worker' = [worker EXCEPT ![p] = k]
  PROVE  WorkersTyped'
BY DEF WorkersTyped, WorkersOK

LEMMA WatcherSet ==
  ASSUME WatchersTyped, NEW w \in Watchers, NEW k \in WatcherType,
         k.step \in {"mark", "evidence", "partial"} => k.slot \in Slots,
         watcher' = [watcher EXCEPT ![w] = k]
  PROVE  WatchersTyped'
BY DEF WatchersTyped, WatchersOK

LEMMA GotoTyped ==
  ASSUME WorkersTyped, NEW p \in Workers, NEW step \in WorkerSteps,
         worker[p].step # "idle", Goto(p, step)
  PROVE  WorkersTyped'
<1>1. [worker[p] EXCEPT !.step = step] \in WorkerType /\ [worker[p] EXCEPT !.step = step].slot \in Slots
  BY DEF WorkersTyped, WorkersOK, WorkerType
<1> QED BY <1>1, WorkerSet DEF Goto

LEMMA RestTyped ==
  ASSUME WorkersTyped, NEW p \in Workers, Rest(p) PROVE WorkersTyped'
<1>1. /\ [IdleWorker EXCEPT !.last = worker[p].last] \in WorkerType
      /\ [IdleWorker EXCEPT !.last = worker[p].last].step = "idle"
  BY IdleTyped DEF WorkersTyped, WorkersOK, WorkerType, IdleWorker
<1> QED BY <1>1, WorkerSet DEF Rest

LEMMA AdvanceTyped ==
  ASSUME WatchersTyped, NEW w \in Watchers, NEW step \in WatcherSteps,
         step \in {"mark", "evidence", "partial"} => watcher[w].slot \in Slots,
         Advance(w, step)
  PROVE  WatchersTyped'
<1>1. /\ [watcher[w] EXCEPT !.step = step] \in WatcherType
      /\ [watcher[w] EXCEPT !.step = step].step = step
      /\ [watcher[w] EXCEPT !.step = step].slot = watcher[w].slot
  BY DEF WatchersTyped, WatchersOK, WatcherType
<1> QED BY <1>1, WatcherSet DEF Advance

LEMMA PassEndsTyped ==
  ASSUME WatchersTyped, NEW w \in Watchers, PassEnds(w) PROVE WatchersTyped'
<1>1. IdleWatcher.step = "idle"
  BY DEF IdleWatcher
<1> QED BY <1>1, IdleTyped, WatcherSet DEF PassEnds

LEMMA ThrowsTyped ==
  ASSUME WatchersTyped, NEW w \in Watchers, NEW reply \in Replies \cup {"not_started"}, Throws(w, reply)
  PROVE  WatchersTyped'
<1> DEFINE k == [watcher[w] EXCEPT !.step = "failed", !.reply = reply]
<1>1. k \in WatcherType /\ k.step = "failed"
  BY DEF WatchersTyped, WatchersOK, WatcherType, WatcherSteps
<1>2. watcher' = [watcher EXCEPT ![w] = k]
  BY DEF Throws, WatchersTyped, WatchersOK
<1> HIDE DEF k
<1> QED BY <1>1, <1>2, WatcherSet

LEMMA SlotDoneTyped ==
  ASSUME WatchersTyped, NEW w \in Watchers, SlotDone(w) PROVE WatchersTyped'
<1> DEFINE k == [watcher[w] EXCEPT !.step = NextSlot(watcher[w].todo), !.slot = 0, !.seen = Absent]
<1>1. k \in WatcherType /\ k.step \in {"overview", "ensure"}
  BY IdleTyped DEF NextSlot, WatchersTyped, WatchersOK, WatcherType, WatcherSteps
<1>2. watcher' = [watcher EXCEPT ![w] = k]
  BY DEF SlotDone, WatchersTyped, WatchersOK
<1> HIDE DEF k
<1> QED BY <1>1, <1>2, WatcherSet

\* A row that keeps its shape.
LEMMA RowSet ==
  ASSUME ExecutionsOK, NEW s \in Slots, NEW e \in ExecType,
         exec' = [exec EXCEPT ![s] = e], UNCHANGED <<run, mail>>
  PROVE  ExecutionsOK'
BY DEF ExecutionsOK

LEMMA EnsuredTyped ==
  ASSUME ExecutionsOK, NEW s \in Slots, NEW o \in OperationType PROVE Ensured(s, o) \in ExecType
BY DEF ExecutionsOK, ExecType, Ensured, Statuses, OperationType

\* The parts of the types that a step leaves alone.
LEMMA Frame ==
  ASSUME Typed
  PROVE  /\ UNCHANGED <<now, policy, upsets>> => BoundsOK'
         /\ UNCHANGED rows => ExecutionsOK'
         /\ UNCHANGED <<report, lockedBy, taken>> => ReportOK'
         /\ UNCHANGED worker => WorkersTyped'
         /\ UNCHANGED watcher => WatchersTyped'
BY DEF Typed, BoundsOK, ExecutionsOK, ReportOK, WorkersTyped, WorkersOK, WatchersTyped,
       WatchersOK, policy, rows

LEMMA ScheduleTyped == ASSUME Typed, NEW p \in Workers, Schedule(p) PROVE Typed'
<1> DEFINE s == worker[p].slot
<1>0. /\ worker[p] \in WorkerType /\ (worker[p].step # "idle" => s \in Slots)
      /\ WorkersTyped /\ ExecutionsOK /\ TypeOK
  BY DEF Typed, WorkersTyped, WorkersOK, TypeOK, WatchersTyped, BoundsOK
<1>1. CASE Tick(p)
  <2> DEFINE k == [IdleWorker EXCEPT !.step = "policy", !.slot = now, !.last = now]
  <2>a. now \in Slots /\ now \in 0..(LastTick + 1) /\ "policy" \in WorkerSteps
    BY <1>1, TicksAreNaturals DEF Tick, WorkerSteps, Typed, BoundsOK
  <2>1. k \in WorkerType /\ k.slot \in Slots
    BY <2>a, IdleTyped DEF WorkerType
  <2>2. worker' = [worker EXCEPT ![p] = k]
    BY <1>1 DEF Tick
  <2> HIDE DEF k
  <2> QED BY <1>0, <1>1, <2>1, <2>2, WorkerSet, Frame DEF Tick, Typed
<1>2. CASE AdmitStart(p)
  <2> DEFINE k == [worker[p] EXCEPT !.step = "ensure", !.op = operation]
  <2>2. worker' = [worker EXCEPT ![p] = k] \/ Rest(p)
    BY <1>0, <1>2 DEF AdmitStart, WorkersTyped, WorkersOK
  <2>3. k \in WorkerType /\ k.slot \in Slots
    BY <1>0, <1>2 DEF AdmitStart, WorkerType, WorkerSteps, Typed, BoundsOK
  <2> HIDE DEF k
  <2>1. WorkersTyped'
    BY <1>0, <2>2, <2>3, WorkerSet, RestTyped
  <2> QED BY <1>2, <2>1, Frame DEF AdmitStart, Typed
<1>3. CASE EnsureStart(p)
  <2>1. WorkersTyped'
    BY <1>0, <1>3, GotoTyped, RestTyped DEF EnsureStart, WorkerSteps
  <2>2. ExecutionsOK'
    BY <1>0, <1>3, EnsuredTyped, RowSet DEF EnsureStart, WorkerType
  <2> QED BY <1>3, <2>1, <2>2, Frame DEF EnsureStart, Typed
<1>4. CASE ClaimSlot(p)
  <2>1. WorkersTyped'
    BY <1>0, <1>4, GotoTyped, RestTyped DEF ClaimSlot, WorkerSteps
  <2>2. ExecutionsOK'
    <3> DEFINE e == [exec[s] EXCEPT !.status = "running", !.late = (now > s)]
    <3>1. s \in Slots
      BY <1>0, <1>4 DEF ClaimSlot
    <3>2. e \in ExecType
      <4>1. ASSUME NEW b \in BOOLEAN PROVE [exec[s] EXCEPT !.status = "running", !.late = b] \in ExecType
        BY <1>0, <3>1 DEF ExecutionsOK, ExecType, Statuses
      <4>2. (now > s) \in BOOLEAN
        OBVIOUS
      <4> QED BY <4>1, <4>2
    <3>3. exec' = [exec EXCEPT ![s] = e] \/ exec' = exec
      BY <1>4, <1>0 DEF ClaimSlot, ExecutionsOK
    <3> HIDE DEF e
    <3> QED BY <1>0, <1>4, <3>1, <3>2, <3>3, RowSet DEF ClaimSlot, ExecutionsOK
  <2> QED BY <1>4, <2>1, <2>2, Frame DEF ClaimSlot, Typed
<1>5. CASE Prepare(p)
  <2>1. WorkersTyped'
    BY <1>0, <1>5, GotoTyped DEF Prepare, WorkerSteps
  <2>2. ExecutionsOK'
    BY <1>0, <1>5 DEF Prepare, ExecutionsOK, RunStates
  <2> QED BY <1>5, <2>1, <2>2, Frame DEF Prepare, Typed
<1>6. CASE Bind(p)
  <2>1. WorkersTyped'
    BY <1>0, <1>6, GotoTyped DEF Bind, WorkerSteps
  <2>2. ExecutionsOK'
    <3>1. s \in Slots
      BY <1>0, <1>6 DEF Bind
    <3>2. [exec[s] EXCEPT !.bound = TRUE] \in ExecType
      BY <1>0, <3>1 DEF ExecutionsOK, ExecType
    <3>3. exec' = [exec EXCEPT ![s] = [exec[s] EXCEPT !.bound = TRUE]]
      BY <1>6 DEF Bind
    <3> QED BY <1>0, <1>6, <3>1, <3>2, <3>3, RowSet DEF Bind
  <2> QED BY <1>6, <2>1, <2>2, Frame DEF Bind, Typed
<1>7. CASE Evaluate(p)
  <2>1. WorkersTyped'
    BY <1>0, <1>7, GotoTyped DEF Evaluate, WorkerSteps
  <2>2. ExecutionsOK'
    BY <1>0, <1>7 DEF Evaluate, ExecutionsOK, RunStates, Mails
  <2> QED BY <1>7, <2>1, <2>2, Frame DEF Evaluate, Typed
<1>8. CASE Dispatched(p)
  <2>1. WorkersTyped'
    BY <1>0, <1>8, GotoTyped DEF Dispatched, WorkerSteps
  <2> QED BY <1>8, <2>1, Frame DEF Dispatched, Typed
<1>9. CASE ReadEvidence(p)
  <2> DEFINE o == IF worker[p].error \/ ~exec[s].bound THEN "failed" ELSE Outcome(run[s], mail[s])
             k == [worker[p] EXCEPT !.step = "finish", !.outcome = o]
  <2>1. o \in Outcomes
    BY DEF Outcome, Outcomes
  <2>2. worker' = [worker EXCEPT ![p] = k]
    BY <1>0, <1>9 DEF ReadEvidence, WorkersTyped, WorkersOK
  <2> HIDE DEF o
  <2>3. k \in WorkerType /\ (k.step # "idle" => k.slot \in Slots)
    BY <1>0, <1>9, <2>1 DEF ReadEvidence, WorkerType, WorkerSteps
  <2> HIDE DEF k
  <2> QED BY <1>0, <1>9, <2>2, <2>3, WorkerSet, Frame DEF ReadEvidence, Typed
<1>10. CASE Finish(p)
  <2>1. WorkersTyped'
    BY <1>0, <1>10, RestTyped DEF Finish
  <2>2. ExecutionsOK'
    <3> DEFINE e == [exec[s] EXCEPT !.status = worker[p].outcome,
                                    !.cause = IF worker[p].outcome = "completed" THEN "none" ELSE "other"]
    <3>1. s \in Slots
      BY <1>0, <1>10 DEF Finish
    <3>a. worker[p].outcome \in Statuses
      BY <1>0 DEF WorkerType, Statuses, Outcomes, Finished
    <3>b. (IF worker[p].outcome = "completed" THEN "none" ELSE "other") \in Causes
      BY DEF Causes
    <3>2. e \in ExecType
      BY <1>0, <3>1, <3>a, <3>b DEF ExecutionsOK, ExecType
    <3>3. exec' = [exec EXCEPT ![s] = e] \/ exec' = exec
      BY <1>10, <1>0 DEF Finish, ExecutionsOK
    <3> HIDE DEF e
    <3> QED BY <1>0, <1>10, <3>1, <3>2, <3>3, RowSet DEF Finish, ExecutionsOK
  <2> QED BY <1>10, <2>1, <2>2, Frame DEF Finish, Typed
<1> QED
  BY <1>1, <1>2, <1>3, <1>4, <1>5, <1>6, <1>7, <1>8, <1>9, <1>10 DEF Schedule

LEMMA FaultTyped == ASSUME Typed, upsets < MaxUpsets, upsets' = upsets + 1, UNCHANGED <<now, policy>> PROVE BoundsOK'
BY TicksAreNaturals DEF Typed, BoundsOK, policy

LEMMA WorkerFaultTyped ==
  ASSUME Typed, NEW p \in Workers, StepFails(p) \/ WorkerDies(p) PROVE Typed'
<1>0. WorkersTyped /\ worker[p] \in WorkerType /\ (worker[p].step # "idle" => worker[p].slot \in Slots)
  BY DEF Typed, WorkersTyped, WorkersOK
<1>1. CASE StepFails(p)
  <2>1. WorkersTyped'
    <3> DEFINE k == [worker[p] EXCEPT !.step = "evidence", !.error = TRUE]
    <3>1. k \in WorkerType /\ (worker[p].step # "idle" => k.slot \in Slots)
      BY <1>0 DEF WorkerType, WorkerSteps
    <3>2. worker' = [worker EXCEPT ![p] = k] \/ Rest(p)
      BY <1>0, <1>1 DEF StepFails, WorkersTyped, WorkersOK
    <3> HIDE DEF k
    <3> QED BY <1>0, <1>1, <3>1, <3>2, WorkerSet, RestTyped DEF StepFails
  <2> QED BY <1>1, <2>1, FaultTyped, Frame DEF StepFails, Typed
<1>2. CASE WorkerDies(p)
  <2>1. WorkersTyped'
    BY <1>0, <1>2, IdleTyped, WorkerSet DEF WorkerDies, IdleWorker
  <2> QED BY <1>2, <2>1, FaultTyped, Frame DEF WorkerDies, Typed
<1> QED BY <1>1, <1>2

LEMMA VerdictTyped ==
  ASSUME NEW seen, NEW age PROVE Verdict(seen, age) \in {"missed", "failed", "none"}
BY DEF Verdict

LEMMA ReportParts ==
  ASSUME ReportOK
  PROVE  /\ report.attempts \in 0..MaxAttempts /\ report.last \in 0..LastTick
         /\ report.next \in 0..(LastTick + RetryAfter) /\ report.message \in [Slots -> Statuses]
BY DEF ReportOK, ReportType

LEMMA WatchTyped == ASSUME Typed, NEW w \in Watchers, Watch(w) PROVE Typed'
<1> DEFINE s == watcher[w].slot
<1>0. /\ watcher[w] \in WatcherType
      /\ watcher[w].step \in {"mark", "evidence", "partial"} => s \in Slots
      /\ WatchersTyped /\ WatchersOK /\ ExecutionsOK /\ ReportOK /\ BoundsOK
  BY DEF Typed, WatchersTyped, WatchersOK
<1>1. CASE StartPass(w)
  <2> DEFINE k == [IdleWatcher EXCEPT !.step = "ensure", !.op = operation, !.todo = Slots, !.since = now]
  <2>1. k \in WatcherType /\ k.step = "ensure"
    BY <1>0, IdleTyped DEF WatcherType, WatcherSteps, BoundsOK
  <2>2. watcher' = [watcher EXCEPT ![w] = k]
    BY <1>1 DEF StartPass
  <2> HIDE DEF k
  <2> QED BY <1>0, <1>1, <2>1, <2>2, WatcherSet, Frame DEF StartPass, Typed
<1>2. CASE EnsureSlot(w)
  <2> DEFINE o == watcher[w].op
             k1(t) == [watcher[w] EXCEPT !.step = "mark", !.slot = t, !.todo = @ \ {t}, !.seen = Ensured(t, o)]
             k2(t) == [watcher[w] EXCEPT !.step = NextSlot(watcher[w].todo \ {t}), !.todo = @ \ {t}]
  <2>1. PICK t \in watcher[w].todo :
          /\ exec' = [exec EXCEPT ![t] = Ensured(t, o)]
          /\ watcher' = [watcher EXCEPT ![w] = k1(t)] \/ watcher' = [watcher EXCEPT ![w] = k2(t)]
    BY <1>0, <1>2 DEF EnsureSlot, WatchersOK
  <2>2. t \in Slots /\ Ensured(t, o) \in ExecType
    BY <1>0, <2>1, EnsuredTyped DEF WatcherType
  <2>3. ExecutionsOK'
    BY <1>0, <1>2, <2>1, <2>2, RowSet DEF EnsureSlot
  <2>4. k1(t) \in WatcherType /\ k1(t).slot \in Slots
    BY <1>0, <2>2 DEF WatcherType, WatcherSteps
  <2>5. k2(t) \in WatcherType /\ k2(t).step \in {"overview", "ensure"}
    BY <1>0 DEF WatcherType, WatcherSteps, NextSlot
  <2> HIDE DEF k1, k2
  <2> QED BY <1>0, <1>2, <2>1, <2>3, <2>4, <2>5, WatcherSet, Frame DEF EnsureSlot, Typed
<1>3. CASE MarkSlot(w)
  <2> DEFINE v == Verdict(watcher[w].seen, Age(w))
             c == IF v = "missed" THEN "missing" ELSE "deadline"
             e == [exec[s] EXCEPT !.status = v, !.cause = c]
  <2>1. s \in Slots
    BY <1>0, <1>3 DEF MarkSlot
  <2>2. exec' = exec \/ (v # "none" /\ exec' = [exec EXCEPT ![s] = e])
    BY <1>0, <1>3 DEF MarkSlot, ExecutionsOK
  <2>3. c \in Causes /\ (v # "none" => v \in Statuses)
    BY VerdictTyped DEF Causes, Statuses, Finished
  <2> HIDE DEF v, c
  <2>4. v # "none" => e \in ExecType
    BY <1>0, <2>1, <2>3 DEF ExecutionsOK, ExecType
  <2> HIDE DEF e
  <2>5. ExecutionsOK'
    BY <1>0, <1>3, <2>1, <2>2, <2>4, RowSet DEF MarkSlot, ExecutionsOK
  <2>6. WatchersTyped'
    BY <1>0, <1>3, AdvanceTyped, SlotDoneTyped DEF MarkSlot, WatcherSteps
  <2> QED BY <1>3, <2>5, <2>6, Frame DEF MarkSlot, Typed
<1>4. CASE ReadMails(w)
  <2>1. WatchersTyped'
    BY <1>0, <1>4, AdvanceTyped, SlotDoneTyped DEF ReadMails, WatcherSteps
  <2> QED BY <1>4, <2>1, Frame DEF ReadMails, Typed
<1>5. CASE MarkUnprocessed(w)
  <2> DEFINE e == [exec[s] EXCEPT !.status = "partial", !.cause = "unprocessed"]
  <2>1. s \in Slots
    BY <1>0, <1>5 DEF MarkUnprocessed
  <2>2. exec' = exec \/ exec' = [exec EXCEPT ![s] = e]
    BY <1>0, <1>5 DEF MarkUnprocessed, ExecutionsOK
  <2>3. e \in ExecType
    BY <1>0, <2>1 DEF ExecutionsOK, ExecType, Statuses, Finished, Causes
  <2> HIDE DEF e
  <2>4. ExecutionsOK'
    BY <1>0, <1>5, <2>1, <2>2, <2>3, RowSet DEF MarkUnprocessed, ExecutionsOK
  <2>5. WatchersTyped'
    BY <1>0, <1>5, SlotDoneTyped DEF MarkUnprocessed
  <2> QED BY <1>5, <2>4, <2>5, Frame DEF MarkUnprocessed, Typed
<1>6. CASE Overview(w)
  <2> DEFINE m == [t \in Slots |-> exec[t].status]
             k == [watcher[w] EXCEPT !.step = "insert", !.message = m]
             l == [IdleWatcher EXCEPT !.step = "abandon"]
  <2>1. m \in [Slots -> Statuses]
    BY <1>0 DEF ExecutionsOK, ExecType
  <2>2. (watcher' = [watcher EXCEPT ![w] = k]) \/ (watcher' = [watcher EXCEPT ![w] = l])
    BY <1>0, <1>6 DEF Overview, WatchersOK
  <2> HIDE DEF m
  <2>3. k \in WatcherType /\ k.step = "insert"
    BY <1>0, <2>1 DEF WatcherType, WatcherSteps
  <2>4. l \in WatcherType /\ l.step = "abandon"
    BY IdleTyped DEF WatcherType, WatcherSteps
  <2> HIDE DEF k, l
  <2> QED BY <1>0, <1>6, <2>2, <2>3, <2>4, WatcherSet, Frame DEF Overview, Typed
<1>7. CASE InsertReport(w)
  <2> DEFINE l == [IdleWatcher EXCEPT !.step = "abandon"]
             r == [NoReport EXCEPT !.status = "queued", !.next = now, !.message = watcher[w].message]
  <2>1. l \in WatcherType /\ l.step = "abandon"
    BY IdleTyped DEF WatcherType, WatcherSteps
  <2>2. WatchersTyped'
    BY <1>0, <1>7, <2>1, WatcherSet DEF InsertReport
  <2>a. now \in 0..(LastTick + RetryAfter) /\ 0 \in 0..LastTick /\ 0 \in 0..MaxAttempts
    BY <1>0, TicksAreNaturals DEF BoundsOK, RetryAfter, MaxAttempts
  <2>3. r \in ReportType
    BY <1>0, <2>a DEF NoReport, ReportType, WatcherType
  <2>4. ReportOK'
    BY <1>0, <1>7, <2>3 DEF InsertReport, ReportOK
  <2> QED BY <1>7, <2>2, <2>4, Frame DEF InsertReport, Typed
<1>8. CASE Abandon(w)
  <2>1. WatchersTyped'
    BY <1>0, <1>8, AdvanceTyped DEF Abandon, WatcherSteps
  <2>2. ReportOK'
    BY <1>0, <1>8 DEF Abandon, ReportOK, ReportType
  <2> QED BY <1>8, <2>1, <2>2, Frame DEF Abandon, Typed
<1>9. CASE ListDue(w)
  <2>1. WatchersTyped'
    BY <1>0, <1>9, AdvanceTyped, PassEndsTyped DEF ListDue, WatcherSteps
  <2> QED BY <1>9, <2>1, Frame DEF ListDue, Typed
<1>10. CASE ClaimReport(w)
  <2>1. WatchersTyped'
    BY <1>0, <1>10, AdvanceTyped, PassEndsTyped DEF ClaimReport, WatcherSteps
  <2> DEFINE r == [report EXCEPT !.status = "sending", !.attempts = report.attempts + 1, !.last = now]
  <2>2. (Sendable /\ report' = r) \/ report' = report
    BY <1>0, <1>10 DEF ClaimReport, ReportOK, ReportType
  <2>a. Sendable => report.attempts + 1 \in 0..MaxAttempts
    BY <1>0, ReportParts DEF Sendable, MaxAttempts
  <2>3. Sendable => r \in ReportType
    BY <1>0, <2>a DEF ReportOK, ReportType, BoundsOK
  <2> HIDE DEF r
  <2>4. ReportOK'
    BY <1>0, <1>10, <2>2, <2>3 DEF ClaimReport, ReportOK
  <2> QED BY <1>10, <2>1, <2>4, Frame DEF ClaimReport, Typed
<1>11. CASE LockReport(w)
  <2>1. WatchersTyped'
    BY <1>0, <1>11, AdvanceTyped, PassEndsTyped, ThrowsTyped DEF LockReport, WatcherSteps
  <2>2. ReportOK'
    BY <1>0, <1>11 DEF LockReport, ReportOK
  <2> QED BY <1>11, <2>1, <2>2, Frame DEF LockReport, Typed
<1>12. CASE SaveReport(w)
  <2>1. WatchersTyped'
    BY <1>0, <1>12, PassEndsTyped DEF SaveReport
  <2>2. ReportOK'
    BY <1>0, <1>12 DEF SaveReport, ReportOK, ReportType
  <2> QED BY <1>12, <2>1, <2>2, Frame DEF SaveReport, Typed
<1>13. CASE RecordFailure(w)
  <2>1. WatchersTyped'
    BY <1>0, <1>13, PassEndsTyped DEF RecordFailure
  <2> DEFINE f == FailureStatus(watcher[w].reply)
             r == [report EXCEPT !.status = f, !.next = now + RetryAfter]
  <2>2. report' = r \/ report' = report
    BY <1>0, <1>13 DEF RecordFailure, ReportOK, ReportType
  <2>a. now + RetryAfter \in 0..(LastTick + RetryAfter)
    BY <1>0, TicksAreNaturals DEF BoundsOK, RetryAfter
  <2>b. f \in {"queued", "rejected", "unclear"}
    BY DEF FailureStatus
  <2> HIDE DEF f
  <2>3. r \in ReportType
    BY <1>0, <2>a, <2>b DEF ReportOK, ReportType
  <2> HIDE DEF r
  <2>4. ReportOK'
    BY <1>0, <1>13, <2>2, <2>3 DEF RecordFailure, ReportOK
  <2> QED BY <1>13, <2>1, <2>4, Frame DEF RecordFailure, Typed
<1>14. ASSUME NEW reply \in Replies, CallProvider(w, reply) PROVE Typed'
  <2>1. WatchersTyped'
    BY <1>0, <1>14, AdvanceTyped, ThrowsTyped DEF CallProvider, WatcherSteps
  <2>2. ReportOK'
    BY <1>0, <1>14 DEF CallProvider, ReportOK
  <2> QED BY <1>14, <2>1, <2>2, Frame DEF CallProvider, Typed
<1> QED
  BY <1>1, <1>2, <1>3, <1>4, <1>5, <1>6, <1>7, <1>8, <1>9, <1>10, <1>11, <1>12, <1>13, <1>14 DEF Watch

LEMMA WatcherFaultTyped ==
  ASSUME Typed, NEW w \in Watchers, WatchFails(w) \/ WatcherDies(w) PROVE Typed'
<1>0. WatchersTyped /\ ReportOK
  BY DEF Typed
<1>1. CASE WatchFails(w)
  <2>1. WatchersTyped'
    BY <1>0, <1>1, PassEndsTyped, ThrowsTyped DEF WatchFails, Replies
  <2>2. report' = report \/ report' = [report EXCEPT !.status = "accepted"]
    BY <1>1 DEF WatchFails
  <2>3. ReportOK'
    BY <1>0, <1>1, <2>2 DEF WatchFails, ReportOK, ReportType, Unlock
  <2> QED BY <1>1, <2>1, <2>3, FaultTyped, Frame DEF WatchFails, Typed
<1>2. CASE WatcherDies(w)
  <2>1. WatchersTyped'
    BY <1>0, <1>2, PassEndsTyped DEF WatcherDies
  <2>2. ReportOK'
    BY <1>0, <1>2 DEF WatcherDies, ReportOK, Unlock
  <2> QED BY <1>2, <2>1, <2>2, FaultTyped, Frame DEF WatcherDies, Typed
<1> QED BY <1>1, <1>2

LEMMA OutsideTyped ==
  ASSUME Typed, (\E s \in Slots : MailMoves(s)) \/ PolicyMoves \/ TimePasses PROVE Typed'
<1>1. ASSUME NEW s \in Slots, MailMoves(s) PROVE Typed'
  <2>1. ExecutionsOK'
    BY <1>1 DEF MailMoves, Typed, ExecutionsOK, Mails
  <2> QED BY <1>1, <2>1, Frame DEF MailMoves, Typed
<1>2. CASE Pause
  <2>1. operation' \in OperationType
    BY <1>2 DEF Pause, Typed, BoundsOK, OperationType
  <2>2. upsets' \in 0..MaxUpsets
    BY <1>2, TicksAreNaturals DEF Pause, Typed, BoundsOK
  <2> QED BY <1>2, <2>1, <2>2, Frame DEF Pause, Typed, BoundsOK
<1>3. CASE StartOperation
  <2>1. operation.id + 1 \in Nat
    BY DEF Typed, BoundsOK, OperationType
  <2>2. PICK whole \in BOOLEAN :
          operation' = [id |-> operation.id + 1, active |-> TRUE,
                        admits |-> {s \in Slots : s > now /\ (whole \/ \E t \in Slots : t < s)}]
    BY <1>3 DEF StartOperation
  <2>3. operation' \in OperationType
    BY <2>1, <2>2 DEF OperationType
  <2> QED BY <1>3, <2>3, Frame DEF StartOperation, Typed, BoundsOK
<1>4. CASE SwitchOff
  <2>1. upsets' \in 0..MaxUpsets
    BY <1>4, TicksAreNaturals DEF SwitchOff, Typed, BoundsOK
  <2> QED BY <1>4, <2>1, Frame DEF SwitchOff, Typed, BoundsOK
<1>5. CASE SwitchOn
  BY <1>5, Frame DEF SwitchOn, Typed, BoundsOK
<1>6. CASE TimePasses
  <2>1. BoundsOK'
    BY <1>6, TicksAreNaturals DEF TimePasses, Typed, BoundsOK, policy
  <2> QED BY <1>6, <2>1, Frame DEF TimePasses, Typed
<1> QED BY <1>1, <1>2, <1>3, <1>4, <1>5, <1>6 DEF PolicyMoves

LEMMA TypedHolds == Spec => []Typed
<1>1. Init => Typed
  <2> SUFFICES ASSUME Init PROVE Typed
    OBVIOUS
  <2>1. BoundsOK
    BY TicksAreNaturals DEF Init, BoundsOK, FirstOperation, OperationType
  <2>2. ExecutionsOK
    BY IdleTyped DEF Init, ExecutionsOK, RunStates, Mails
  <2>3. [s \in Slots |-> "absent"] \in [Slots -> Statuses] /\ 0 \in 0..MaxAttempts
        /\ 0 \in 0..LastTick /\ 0 \in 0..(LastTick + RetryAfter)
    BY TicksAreNaturals DEF Statuses, MaxAttempts, RetryAfter
  <2>4. NoReport \in ReportType
    BY <2>3 DEF NoReport, ReportType
  <2>5. ReportOK
    BY <2>4 DEF Init, ReportOK
  <2>6. WorkersTyped /\ WatchersTyped
    BY IdleTyped DEF Init, WorkersTyped, WorkersOK, WatchersTyped, WatchersOK, IdleWorker, IdleWatcher
  <2> QED BY <2>1, <2>2, <2>5, <2>6 DEF Typed
<1>2. Typed /\ [Next]_vars => Typed'
  <2> SUFFICES ASSUME Typed, [Next]_vars PROVE Typed'
    OBVIOUS
  <2>1. CASE Next
    BY <2>1, ScheduleTyped, WorkerFaultTyped, WatchTyped, WatcherFaultTyped, OutsideTyped DEF Next, PolicyMoves
  <2>2. CASE UNCHANGED vars
    BY <2>2, Frame DEF vars, Typed
  <2> QED BY <2>1, <2>2
<1> QED BY <1>1, <1>2, PTL DEF Spec

\* The tables, schedulers and passes keep their shape, and the report is
\* attempted at most three times (timeControl.monitor).
THEOREM WatchTypeCorrect == Spec => []TypeOK
<1>1. Typed => TypeOK
  BY DEF Typed, TypeOK, BoundsOK, WorkersTyped, WatchersTyped
<1> QED BY <1>1, TypedHolds, PTL

-----------------------------------------------------------------------------
(* Verdicts.                                                               *)

\* What each step may make of a row's status.
StatusStays(s) ==
  exec[s].status \in Finished =>
    \/ exec'[s].status = exec[s].status
    \/ exec[s].status = "completed" /\ exec'[s].status = "partial"

LEMMA EnsuredStatus ==
  ASSUME ExecutionsOK, NEW s \in Slots, NEW t \in Slots, NEW o \in OperationType,
         exec' = [exec EXCEPT ![s] = Ensured(s, o)]
  PROVE  /\ exec'[t].status = exec[t].status \/ (exec[t].status = "absent" /\ exec'[t].status = "planned")
         /\ exec'[t].late = exec[t].late
         /\ exec[t].status # "absent" => exec'[t] = exec[t]
BY DEF ExecutionsOK, ExecType, Ensured, OperationType

LEMMA MarkedStatus ==
  ASSUME ExecutionsOK, NEW s \in Slots, NEW t \in Slots, NEW a, NEW b,
         exec' = [exec EXCEPT ![s].status = a, ![s].cause = b]
  PROVE  /\ exec'[t].status = IF t = s THEN a ELSE exec[t].status
         /\ exec'[t].late = exec[t].late /\ exec'[t].op = exec[t].op
BY DEF ExecutionsOK, ExecType

LEMMA ClaimedStatus ==
  ASSUME ExecutionsOK, NEW s \in Slots, NEW t \in Slots,
         exec' = [exec EXCEPT ![s].status = "running", ![s].late = now > s]
  PROVE  /\ exec'[t].status = IF t = s THEN "running" ELSE exec[t].status
         /\ exec'[t].late = IF t = s THEN now > s ELSE exec[t].late
         /\ exec'[t].op = exec[t].op
BY DEF ExecutionsOK, ExecType

LEMMA BoundStatus ==
  ASSUME ExecutionsOK, NEW s \in Slots, NEW t \in Slots, exec' = [exec EXCEPT ![s].bound = TRUE]
  PROVE  /\ exec'[t].status = exec[t].status /\ exec'[t].late = exec[t].late
         /\ exec'[t].op = exec[t].op
BY DEF ExecutionsOK, ExecType

\* The statuses after each step that writes an execution.
LEMMA ScheduledStatus ==
  ASSUME Typed, NEW p \in Workers, NEW t \in Slots
  PROVE  /\ EnsureStart(p) =>
              exec'[t].status = exec[t].status \/ (exec[t].status = "absent" /\ exec'[t].status = "planned")
         /\ ClaimSlot(p) =>
              exec'[t].status = IF t = worker[p].slot /\ exec[t].status = "planned" THEN "running" ELSE exec[t].status
         /\ Bind(p) => exec'[t].status = exec[t].status
         /\ Finish(p) =>
              exec'[t].status = IF t = worker[p].slot /\ exec[t].status = "running"
                                THEN worker[p].outcome ELSE exec[t].status
<1>0. ExecutionsOK /\ (worker[p].step # "idle" => worker[p].slot \in Slots) /\ worker[p].op \in OperationType
  BY DEF Typed, WorkersTyped, WorkersOK, WorkerType
<1>1. EnsureStart(p) =>
        exec'[t].status = exec[t].status \/ (exec[t].status = "absent" /\ exec'[t].status = "planned")
  BY <1>0, EnsuredStatus DEF EnsureStart
<1>2. ClaimSlot(p) =>
        exec'[t].status = IF t = worker[p].slot /\ exec[t].status = "planned" THEN "running" ELSE exec[t].status
  BY <1>0, ClaimedStatus DEF ClaimSlot
<1>3. Bind(p) => exec'[t].status = exec[t].status
  BY <1>0, BoundStatus DEF Bind
<1>4. Finish(p) =>
        exec'[t].status = IF t = worker[p].slot /\ exec[t].status = "running"
                          THEN worker[p].outcome ELSE exec[t].status
  <2> SUFFICES ASSUME Finish(p)
               PROVE  exec'[t].status = IF t = worker[p].slot /\ exec[t].status = "running"
                                        THEN worker[p].outcome ELSE exec[t].status
    OBVIOUS
  <2> DEFINE s == worker[p].slot
             a == worker[p].outcome
             b == IF worker[p].outcome = "completed" THEN "none" ELSE "other"
  <2>1. exec' = IF exec[s].status = "running" THEN [exec EXCEPT ![s].status = a, ![s].cause = b] ELSE exec
    BY DEF Finish
  <2>2. s \in Slots
    BY <1>0 DEF Finish
  <2> HIDE DEF s, a, b
  <2>3. CASE exec[s].status = "running"
    <3>1. exec'[t].status = IF t = s THEN a ELSE exec[t].status
      BY <1>0, <2>1, <2>2, <2>3 DEF ExecutionsOK, ExecType
    <3> QED BY <2>3, <3>1 DEF s, a
  <2>4. CASE exec[s].status # "running"
    BY <2>1, <2>4 DEF s
  <2> QED BY <2>3, <2>4
<1> QED BY <1>1, <1>2, <1>3, <1>4

LEMMA WatchedStatus ==
  ASSUME Typed, NEW w \in Watchers, NEW t \in Slots
  PROVE  /\ EnsureSlot(w) =>
              exec'[t].status = exec[t].status \/ (exec[t].status = "absent" /\ exec'[t].status = "planned")
         /\ MarkSlot(w) =>
              \/ exec'[t].status = exec[t].status
              \/ exec[t].status = "planned" /\ exec'[t].status = "missed"
              \/ exec[t].status = "running" /\ exec'[t].status = "failed"
         /\ MarkUnprocessed(w) =>
              \/ exec'[t].status = exec[t].status
              \/ exec[t].status = "completed" /\ exec'[t].status = "partial"
<1>0. /\ ExecutionsOK /\ watcher[w].todo \subseteq Slots /\ watcher[w].op \in OperationType
      /\ watcher[w].step \in {"mark", "evidence", "partial"} => watcher[w].slot \in Slots
  BY DEF Typed, WatchersTyped, WatchersOK, WatcherType
<1>1. EnsureSlot(w) =>
        exec'[t].status = exec[t].status \/ (exec[t].status = "absent" /\ exec'[t].status = "planned")
  <2> SUFFICES ASSUME NEW u \in watcher[w].todo, exec' = [exec EXCEPT ![u] = Ensured(u, watcher[w].op)]
               PROVE  exec'[t].status = exec[t].status \/ (exec[t].status = "absent" /\ exec'[t].status = "planned")
    BY DEF EnsureSlot
  <2>1. u \in Slots
    BY <1>0
  <2> QED BY <1>0, <2>1, EnsuredStatus
<1>2. MarkSlot(w) =>
        \/ exec'[t].status = exec[t].status
        \/ exec[t].status = "planned" /\ exec'[t].status = "missed"
        \/ exec[t].status = "running" /\ exec'[t].status = "failed"
  <2> SUFFICES ASSUME MarkSlot(w)
               PROVE  \/ exec'[t].status = exec[t].status
                      \/ exec[t].status = "planned" /\ exec'[t].status = "missed"
                      \/ exec[t].status = "running" /\ exec'[t].status = "failed"
    OBVIOUS
  <2> DEFINE s == watcher[w].slot
             v == Verdict(watcher[w].seen, Age(w))
             c == IF v = "missed" THEN "missing" ELSE "deadline"
  <2>1. \/ exec' = exec
        \/ /\ v # "none" /\ exec[s].status = watcher[w].seen.status
           /\ exec' = [exec EXCEPT ![s].status = v, ![s].cause = c]
    BY DEF MarkSlot
  <2>2. \/ v = "none"
        \/ v = "missed" /\ watcher[w].seen.status = "planned"
        \/ v = "failed" /\ watcher[w].seen.status = "running"
    BY DEF Verdict
  <2>3. s \in Slots
    BY <1>0 DEF MarkSlot
  <2> HIDE DEF v, c, s
  <2> QED BY <1>0, <2>1, <2>2, <2>3, MarkedStatus
<1>3. MarkUnprocessed(w) =>
        \/ exec'[t].status = exec[t].status
        \/ exec[t].status = "completed" /\ exec'[t].status = "partial"
  <2> SUFFICES ASSUME MarkUnprocessed(w)
               PROVE  \/ exec'[t].status = exec[t].status
                      \/ exec[t].status = "completed" /\ exec'[t].status = "partial"
    OBVIOUS
  <2> DEFINE s == watcher[w].slot
  <2>1. \/ exec' = exec
        \/ /\ exec[s].status \in {"completed", "partial"}
           /\ exec' = [exec EXCEPT ![s].status = "partial", ![s].cause = "unprocessed"]
    BY DEF MarkUnprocessed
  <2>2. s \in Slots
    BY <1>0 DEF MarkUnprocessed
  <2> HIDE DEF s
  <2>3. CASE exec' = exec
    BY <2>3
  <2>4. CASE /\ exec[s].status \in {"completed", "partial"}
             /\ exec' = [exec EXCEPT ![s].status = "partial", ![s].cause = "unprocessed"]
    <3>1. exec'[t].status = IF t = s THEN "partial" ELSE exec[t].status
      BY <1>0, <2>2, <2>4 DEF ExecutionsOK, ExecType
    <3> QED BY <2>4, <3>1
  <2> QED BY <2>1, <2>3, <2>4
<1> QED BY <1>1, <1>2, <1>3

\* Steps that write no execution.
LEMMA OtherwiseUnwritten ==
  /\ \A p \in Workers :
       \/ UNCHANGED exec \/ EnsureStart(p) \/ ClaimSlot(p) \/ Bind(p) \/ Finish(p)
       \/ ~(Schedule(p) \/ StepFails(p) \/ WorkerDies(p))
  /\ \A w \in Watchers :
       \/ UNCHANGED exec \/ EnsureSlot(w) \/ MarkSlot(w) \/ MarkUnprocessed(w)
       \/ ~(Watch(w) \/ WatchFails(w) \/ WatcherDies(w))
  /\ (\E s \in Slots : MailMoves(s)) \/ PolicyMoves \/ TimePasses \/ UNCHANGED vars => UNCHANGED exec
<1>1. ASSUME NEW p \in Workers, Schedule(p) \/ StepFails(p) \/ WorkerDies(p)
      PROVE  UNCHANGED exec \/ EnsureStart(p) \/ ClaimSlot(p) \/ Bind(p) \/ Finish(p)
  BY <1>1 DEF Schedule, StepFails, WorkerDies, Tick, AdmitStart, Prepare, Evaluate, Dispatched,
              ReadEvidence, rows
<1>2. ASSUME NEW w \in Watchers, Watch(w) \/ WatchFails(w) \/ WatcherDies(w)
      PROVE  UNCHANGED exec \/ EnsureSlot(w) \/ MarkSlot(w) \/ MarkUnprocessed(w)
  BY <1>2 DEF Watch, WatchFails, WatcherDies, StartPass, ReadMails, Overview, InsertReport, Abandon,
              ListDue, ClaimReport, LockReport, SaveReport, RecordFailure, CallProvider, rows
<1>3. (\E s \in Slots : MailMoves(s)) \/ PolicyMoves \/ TimePasses \/ UNCHANGED vars => UNCHANGED exec
  BY DEF MailMoves, PolicyMoves, Pause, StartOperation, SwitchOff, SwitchOn, TimePasses, vars, rows
<1> QED BY <1>1, <1>2, <1>3

LEMMA VerdictStep ==
  ASSUME Typed, [Next]_vars, NEW s \in Slots PROVE StatusStays(s)
<1>1. ASSUME NEW p \in Workers, Schedule(p) \/ StepFails(p) \/ WorkerDies(p) PROVE StatusStays(s)
  BY <1>1, OtherwiseUnwritten, ScheduledStatus DEF StatusStays, Finished
<1>2. ASSUME NEW w \in Watchers, Watch(w) \/ WatchFails(w) \/ WatcherDies(w) PROVE StatusStays(s)
  BY <1>2, OtherwiseUnwritten, WatchedStatus DEF StatusStays, Finished
<1>3. CASE UNCHANGED exec
  BY <1>3 DEF StatusStays
<1> QED BY <1>1, <1>2, <1>3, OtherwiseUnwritten DEF Next, PolicyMoves

\* A verdict on an execution stays, but that a finished control may still be
\* found to be partial (finishExecution, the watchdog's conditional updates).
THEOREM VerdictsAreFinal == Spec => VerdictStays
<1>1. Typed /\ [Next]_vars =>
        [\A s \in Slots : exec[s].status \in Finished =>
           \/ exec'[s].status = exec[s].status
           \/ exec[s].status = "completed" /\ exec'[s].status = "partial"]_vars
  BY VerdictStep DEF StatusStays
<1> QED BY <1>1, TypedHolds, PTL DEF Spec, VerdictStays

-----------------------------------------------------------------------------
(* Runners.                                                                *)

LEMMA GotoFields ==
  ASSUME WorkersTyped, NEW p \in Workers, NEW q \in Workers, NEW step, Goto(p, step)
  PROVE  /\ worker'[q].step = IF q = p THEN step ELSE worker[q].step
         /\ worker'[q].slot = worker[q].slot /\ worker'[q].outcome = worker[q].outcome
BY DEF Goto, WorkersTyped, WorkersOK, WorkerType

LEMMA RestFields ==
  ASSUME WorkersTyped, NEW p \in Workers, NEW q \in Workers, Rest(p)
  PROVE  IF q = p THEN worker'[q].step = "idle" ELSE worker'[q] = worker[q]
BY DEF Rest, WorkersTyped, WorkersOK, IdleWorker

\* Nobody starts to run, and no row says anything else.
LEMMA QuietRunners ==
  ASSUME Typed, Runners, UNCHANGED <<run, mail>>,
         \A s \in Slots : exec'[s].status = exec[s].status,
         \A q \in Workers : Runs(q)' => Runs(q) /\ worker'[q].slot = worker[q].slot,
         \A q \in Workers : worker'[q].step = "finish" /\ worker'[q].outcome = "completed" =>
           /\ run[worker'[q].slot] = "completed" /\ mail[worker'[q].slot] \in {"none", "accepted"}
  PROVE  Runners'
<1>1. \A q \in Workers : Runs(q) => worker[q].slot \in Slots
  BY DEF Typed, WorkersTyped, Runs, RunningSteps
<1>2. RunnersHold' /\ OneRunner'
  BY <1>1 DEF Runners, RunnersHold, OneRunner, Runs
<1>3. UnclaimedNeverRan' /\ CompletedMeansDelivered' /\ OutcomesTrue'
  BY DEF Runners, UnclaimedNeverRan, CompletedMeansDelivered, OutcomesTrue
<1> QED BY <1>2, <1>3 DEF Runners

LEMMA ScheduleRunners == ASSUME Typed, Runners, NEW p \in Workers, Schedule(p) PROVE Runners'
<1> DEFINE s == worker[p].slot
<1>0. /\ WorkersTyped /\ ExecutionsOK
      /\ \A q \in Workers : Runs(q) => worker[q].slot \in Slots
      /\ worker[p].step # "idle" => s \in Slots
  BY DEF Typed, WorkersTyped, Runs, RunningSteps
<1>1. CASE Tick(p)
  <2>1. \A q \in Workers : IF q = p THEN worker'[q].step = "policy" ELSE worker'[q] = worker[q]
    BY <1>0, <1>1 DEF Tick, WorkersTyped, WorkersOK, IdleWorker
  <2> QED BY <1>1, <2>1, QuietRunners DEF Tick, rows, Runs, RunningSteps, Runners, OutcomesTrue
<1>2. CASE AdmitStart(p)
  <2>1. \A q \in Workers : \/ q = p /\ worker'[q].step \in {"ensure", "idle"}
                           \/ q # p /\ worker'[q].step = worker[q].step /\ worker'[q].slot = worker[q].slot
                              /\ worker'[q].outcome = worker[q].outcome
    BY <1>0, <1>2, RestFields DEF AdmitStart, WorkersTyped, WorkersOK, WorkerType
  <2> QED BY <1>2, <2>1, QuietRunners DEF AdmitStart, rows, Runs, RunningSteps, Runners, OutcomesTrue
<1>3. CASE EnsureStart(p)
  <2>1. \A q \in Workers : \/ q = p /\ worker'[q].step \in {"claim", "idle"}
                           \/ q # p /\ worker'[q].step = worker[q].step /\ worker'[q].slot = worker[q].slot
                              /\ worker'[q].outcome = worker[q].outcome
    BY <1>0, <1>3, GotoFields, RestFields DEF EnsureStart
  <2>2. \A t \in Slots : exec'[t].status = exec[t].status \/ (exec[t].status = "absent" /\ exec'[t].status = "planned")
    BY <1>3, ScheduledStatus
  <2>3. RunnersHold' /\ OneRunner'
    BY <1>0, <2>1, <2>2 DEF Runners, RunnersHold, OneRunner, Runs, RunningSteps
  <2>4. UnclaimedNeverRan' /\ CompletedMeansDelivered' /\ OutcomesTrue'
    BY <1>3, <2>1, <2>2 DEF EnsureStart, Runners, UnclaimedNeverRan, CompletedMeansDelivered, OutcomesTrue
  <2> QED BY <2>3, <2>4 DEF Runners
<1>4. CASE ClaimSlot(p)
  <2>1. \A q \in Workers :
          \/ q # p /\ worker'[q].step = worker[q].step /\ worker'[q].slot = worker[q].slot
             /\ worker'[q].outcome = worker[q].outcome
          \/ q = p /\ worker'[q].step = "idle"
          \/ q = p /\ worker'[q].step = "prepare" /\ worker'[q].slot = s /\ exec[s].status = "planned"
    BY <1>0, <1>4, GotoFields, RestFields DEF ClaimSlot
  <2>2. \A t \in Slots : exec'[t].status = IF t = s /\ exec[t].status = "planned" THEN "running" ELSE exec[t].status
    BY <1>4, ScheduledStatus
  <2>3. s \in Slots
    BY <1>0, <1>4 DEF ClaimSlot
  <2>4. RunnersHold'
    BY <1>0, <2>1, <2>2, <2>3 DEF Runners, RunnersHold, Runs, RunningSteps
  <2>5. OneRunner'
    BY <1>0, <2>1, <2>3 DEF Runners, RunnersHold, OneRunner, Runs, RunningSteps
  <2>6. UnclaimedNeverRan' /\ CompletedMeansDelivered' /\ OutcomesTrue'
    BY <1>4, <2>1, <2>2 DEF ClaimSlot, Runners, UnclaimedNeverRan, CompletedMeansDelivered, OutcomesTrue
  <2> QED BY <2>4, <2>5, <2>6 DEF Runners
<1>5. CASE Prepare(p)
  <2>1. \A q \in Workers : /\ worker'[q].step = IF q = p THEN "bind" ELSE worker[q].step
                           /\ worker'[q].slot = worker[q].slot /\ worker'[q].outcome = worker[q].outcome
    BY <1>0, <1>5, GotoFields DEF Prepare
  <2>2. s \in Slots /\ \A t \in Slots : t # s => run'[t] = run[t]
    BY <1>0, <1>5 DEF Prepare, ExecutionsOK
  <2>3. exec[s].status \in {"running", "failed"}
    BY <1>5 DEF Prepare, Runners, RunnersHold, Runs, RunningSteps
  <2>4. RunnersHold' /\ OneRunner'
    BY <1>5, <2>1 DEF Prepare, Runners, RunnersHold, OneRunner, Runs, RunningSteps
  <2>5. UnclaimedNeverRan' /\ CompletedMeansDelivered'
    BY <1>5, <2>2, <2>3 DEF Prepare, Runners, UnclaimedNeverRan, CompletedMeansDelivered
  <2>6. \A q \in Workers : worker'[q].step = "finish" => worker[q].slot \in Slots /\ worker[q].slot # s
    BY <1>0, <1>5, <2>1 DEF Prepare, Runners, OneRunner, Runs, RunningSteps
  <2>7. OutcomesTrue'
    BY <1>5, <2>1, <2>2, <2>6 DEF Prepare, Runners, OutcomesTrue
  <2> QED BY <2>4, <2>5, <2>7 DEF Runners
<1>6. CASE Bind(p)
  <2>1. \A q \in Workers : \/ q = p /\ worker'[q].step \in {"dispatch", "evaluate"} /\ worker'[q].slot = s
                           \/ q # p /\ worker'[q].step = worker[q].step /\ worker'[q].slot = worker[q].slot
                              /\ worker'[q].outcome = worker[q].outcome
    BY <1>0, <1>6, GotoFields DEF Bind
  <2>2. \A t \in Slots : exec'[t].status = exec[t].status
    BY <1>6, ScheduledStatus
  <2> QED BY <1>6, <2>1, <2>2, QuietRunners DEF Bind, Runs, RunningSteps, Runners, OutcomesTrue
<1>7. CASE Evaluate(p)
  <2>1. \A q \in Workers : /\ worker'[q].step = IF q = p THEN "dispatch" ELSE worker[q].step
                           /\ worker'[q].slot = worker[q].slot /\ worker'[q].outcome = worker[q].outcome
    BY <1>0, <1>7, GotoFields DEF Evaluate
  <2>2. s \in Slots /\ \A t \in Slots : t # s => run'[t] = run[t] /\ mail'[t] = mail[t]
    BY <1>0, <1>7 DEF Evaluate, ExecutionsOK
  <2>3. exec[s].status \in {"running", "failed"}
    BY <1>7 DEF Evaluate, Runners, RunnersHold, Runs, RunningSteps
  <2>4. RunnersHold' /\ OneRunner'
    BY <1>7, <2>1 DEF Evaluate, Runners, RunnersHold, OneRunner, Runs, RunningSteps
  <2>5. UnclaimedNeverRan' /\ CompletedMeansDelivered'
    BY <1>7, <2>2, <2>3 DEF Evaluate, Runners, UnclaimedNeverRan, CompletedMeansDelivered
  <2>6. \A q \in Workers : worker'[q].step = "finish" => worker[q].slot \in Slots /\ worker[q].slot # s
    BY <1>0, <1>7, <2>1 DEF Evaluate, Runners, OneRunner, Runs, RunningSteps
  <2>7. OutcomesTrue'
    BY <1>7, <2>1, <2>2, <2>6 DEF Evaluate, Runners, OutcomesTrue
  <2> QED BY <2>4, <2>5, <2>7 DEF Runners
<1>8. CASE Dispatched(p)
  <2>1. \A q \in Workers : /\ worker'[q].step = IF q = p THEN "evidence" ELSE worker[q].step
                           /\ worker'[q].slot = worker[q].slot /\ worker'[q].outcome = worker[q].outcome
    BY <1>0, <1>8, GotoFields DEF Dispatched
  <2> QED BY <1>8, <2>1, QuietRunners DEF Dispatched, rows, Runs, RunningSteps, Runners, OutcomesTrue
<1>9. CASE ReadEvidence(p)
  <2> DEFINE o == IF worker[p].error \/ ~exec[s].bound THEN "failed" ELSE Outcome(run[s], mail[s])
  <2>1. \A q \in Workers : IF q = p THEN worker'[q].step = "finish" /\ worker'[q].slot = s /\ worker'[q].outcome = o
                           ELSE worker'[q] = worker[q]
    BY <1>0, <1>9 DEF ReadEvidence, WorkersTyped, WorkersOK, WorkerType
  <2>2. s \in Slots /\ mail[s] \in Mails
    BY <1>0, <1>9 DEF ReadEvidence, ExecutionsOK
  <2>3. o = "completed" => run[s] = "completed" /\ mail[s] \in {"none", "accepted"}
    BY <2>2 DEF Outcome, Delivery, Mails
  <2> HIDE DEF o
  <2> QED BY <1>9, <2>1, <2>3, QuietRunners DEF ReadEvidence, rows, Runs, RunningSteps, Runners, OutcomesTrue
<1>10. CASE Finish(p)
  <2>1. \A q \in Workers : IF q = p THEN worker'[q].step = "idle" ELSE worker'[q] = worker[q]
    BY <1>0, <1>10, RestFields DEF Finish
  <2>2. \A t \in Slots : exec'[t].status = IF t = s /\ exec[t].status = "running"
                                           THEN worker[p].outcome ELSE exec[t].status
    BY <1>10, ScheduledStatus
  <2>3. Runs(p) /\ worker[p].outcome \in Outcomes
    BY <1>0, <1>10 DEF Finish, Runs, RunningSteps, WorkersTyped, WorkersOK, WorkerType
  <2>4. \A q \in Workers : Runs(q)' => Runs(q) /\ worker'[q].slot = worker[q].slot /\ worker[q].slot # s
    BY <2>1, <2>3 DEF Runners, OneRunner, Runs, RunningSteps
  <2>5. RunnersHold' /\ OneRunner'
    BY <1>0, <2>2, <2>4 DEF Runners, RunnersHold, OneRunner, Runs
  <2>6. UnclaimedNeverRan'
    BY <1>10, <2>2, <2>3 DEF Finish, Runners, UnclaimedNeverRan, Outcomes
  <2>7. CompletedMeansDelivered'
    BY <1>10, <2>2 DEF Finish, Runners, CompletedMeansDelivered, OutcomesTrue
  <2>8. OutcomesTrue'
    BY <1>10, <2>1 DEF Finish, Runners, OutcomesTrue
  <2> QED BY <2>5, <2>6, <2>7, <2>8 DEF Runners
<1> QED
  BY <1>1, <1>2, <1>3, <1>4, <1>5, <1>6, <1>7, <1>8, <1>9, <1>10 DEF Schedule

LEMMA WorkerFaultRunners ==
  ASSUME Typed, Runners, NEW p \in Workers, StepFails(p) \/ WorkerDies(p) PROVE Runners'
<1>0. WorkersTyped
  BY DEF Typed
<1>1. \A q \in Workers :
        \/ q # p /\ worker'[q] = worker[q]
        \/ q = p /\ worker'[q].step = "idle"
        \/ q = p /\ Runs(p) /\ worker'[q].step = "evidence" /\ worker'[q].slot = worker[p].slot
  <2>1. CASE StepFails(p)
    <3>1. Rest(p) \/ (Runs(p) /\ worker' = [worker EXCEPT ![p].step = "evidence", ![p].error = TRUE])
      BY <2>1 DEF StepFails, Runs, RunningSteps
    <3>2. CASE Rest(p)
      BY <1>0, <3>2, RestFields
    <3>3. CASE Runs(p) /\ worker' = [worker EXCEPT ![p].step = "evidence", ![p].error = TRUE]
      BY <1>0, <3>3 DEF WorkersTyped, WorkersOK, WorkerType
    <3> QED BY <3>1, <3>2, <3>3
  <2>2. CASE WorkerDies(p)
    BY <1>0, <2>2 DEF WorkerDies, WorkersTyped, WorkersOK, IdleWorker
  <2> QED BY <2>1, <2>2
<1>2. UNCHANGED rows
  BY DEF StepFails, WorkerDies
<1> QED BY <1>1, <1>2, QuietRunners DEF rows, Runs, RunningSteps, Runners, OutcomesTrue

LEMMA WatchRunners ==
  ASSUME Typed, Runners, NEW w \in Watchers, Watch(w) \/ WatchFails(w) \/ WatcherDies(w) PROVE Runners'
<1>1. UNCHANGED <<run, mail, worker>>
  BY DEF Watch, WatchFails, WatcherDies, StartPass, EnsureSlot, MarkSlot, ReadMails, MarkUnprocessed,
         Overview, InsertReport, Abandon, ListDue, ClaimReport, LockReport, SaveReport, RecordFailure,
         CallProvider, rows
<1>2. \A t \in Slots :
        \/ exec'[t].status = exec[t].status
        \/ exec[t].status = "absent" /\ exec'[t].status = "planned"
        \/ exec[t].status = "planned" /\ exec'[t].status = "missed"
        \/ exec[t].status = "running" /\ exec'[t].status = "failed"
        \/ exec[t].status = "completed" /\ exec'[t].status = "partial"
  BY OtherwiseUnwritten, WatchedStatus
<1>3. \A q \in Workers : Runs(q) => worker[q].slot \in Slots
  BY DEF Typed, WorkersTyped, Runs, RunningSteps
<1>4. RunnersHold' /\ OneRunner' /\ OutcomesTrue'
  BY <1>1, <1>2, <1>3 DEF Runners, RunnersHold, OneRunner, OutcomesTrue, Runs, RunningSteps
<1>5. UnclaimedNeverRan' /\ CompletedMeansDelivered'
  BY <1>1, <1>2 DEF Runners, UnclaimedNeverRan, CompletedMeansDelivered
<1> QED BY <1>4, <1>5 DEF Runners

LEMMA MailRunners == ASSUME Typed, Runners, NEW s \in Slots, MailMoves(s) PROVE Runners'
<1>1. /\ UNCHANGED <<exec, run, worker>>
      /\ mail[s] \in {"pending", "processing"} /\ \A t \in Slots : t # s => mail'[t] = mail[t]
  BY DEF MailMoves, Typed, ExecutionsOK
<1>2. \A q \in Workers : worker[q].step = "finish" => worker[q].slot \in Slots
  BY DEF Typed, WorkersTyped
<1> QED BY <1>1, <1>2 DEF Runners, RunnersHold, OneRunner, UnclaimedNeverRan, OutcomesTrue,
            CompletedMeansDelivered, Runs, RunningSteps

LEMMA RunnersHolds == Spec => []Runners
<1>1. Init => Runners
  BY DEF Init, Runners, RunnersHold, OneRunner, UnclaimedNeverRan, OutcomesTrue,
         CompletedMeansDelivered, Runs, RunningSteps, IdleWorker, Absent
<1>2. Typed /\ Runners /\ [Next]_vars => Runners'
  <2> SUFFICES ASSUME Typed, Runners, [Next]_vars PROVE Runners'
    OBVIOUS
  <2>1. CASE UNCHANGED <<rows, worker>>
    BY <2>1 DEF rows, Runners, RunnersHold, OneRunner, UnclaimedNeverRan, OutcomesTrue,
                CompletedMeansDelivered, Runs, RunningSteps
  <2>2. PolicyMoves \/ TimePasses \/ UNCHANGED vars => UNCHANGED <<rows, worker>>
    BY DEF PolicyMoves, Pause, StartOperation, SwitchOff, SwitchOn, TimePasses, vars
  <2> QED BY <2>1, <2>2, ScheduleRunners, WorkerFaultRunners, WatchRunners, MailRunners DEF Next, PolicyMoves
<1> QED BY <1>1, <1>2, TypedHolds, PTL DEF Spec

\* No two schedulers ever run the control of the same slot, however many
\* processes tick, stall, die and come back (beginExecution).
THEOREM OneRunnerASlot == Spec => []OneRunner
<1>1. Runners => OneRunner
  BY DEF Runners
<1> QED BY <1>1, RunnersHolds, PTL

\* An execution shown as completed has a completed run, and the provider took
\* its mails (finishExecution, with the outbox at work beside it).
THEOREM CompletedWasDelivered == Spec => []CompletedMeansDelivered
<1>1. Runners => CompletedMeansDelivered
  BY DEF Runners
<1> QED BY <1>1, RunnersHolds, PTL

-----------------------------------------------------------------------------
(* Messages.                                                               *)

LEMMA AdvanceFields ==
  ASSUME WatchersTyped, NEW w \in Watchers, NEW step, Advance(w, step)
  PROVE  /\ \A v \in Watchers \ {w} : watcher'[v] = watcher[v]
         /\ watcher'[w].step = step /\ watcher'[w].message = watcher[w].message
         /\ watcher'[w].since = watcher[w].since /\ watcher'[w].todo = watcher[w].todo
         /\ watcher'[w].slot = watcher[w].slot /\ watcher'[w].seen = watcher[w].seen
         /\ watcher'[w].op = watcher[w].op
BY DEF Advance, WatchersTyped, WatchersOK, WatcherType

LEMMA PassEndsFields ==
  ASSUME WatchersTyped, NEW w \in Watchers, PassEnds(w)
  PROVE  /\ \A v \in Watchers \ {w} : watcher'[v] = watcher[v]
         /\ watcher'[w].step = "idle" /\ watcher'[w].message = [s \in Slots |-> "absent"]
BY DEF PassEnds, WatchersTyped, WatchersOK, IdleWatcher

LEMMA ThrowsFields ==
  ASSUME WatchersTyped, NEW w \in Watchers, NEW reply, Throws(w, reply)
  PROVE  /\ \A v \in Watchers \ {w} : watcher'[v] = watcher[v]
         /\ watcher'[w].step = "failed" /\ watcher'[w].reply = reply
         /\ watcher'[w].message = watcher[w].message
BY DEF Throws, WatchersTyped, WatchersOK, WatcherType

LEMMA SlotDoneFields ==
  ASSUME WatchersTyped, NEW w \in Watchers, SlotDone(w)
  PROVE  /\ \A v \in Watchers \ {w} : watcher'[v] = watcher[v]
         /\ watcher'[w].step = NextSlot(watcher[w].todo)
         /\ watcher'[w].message = watcher[w].message /\ watcher'[w].op = watcher[w].op
         /\ watcher'[w].since = watcher[w].since /\ watcher'[w].todo = watcher[w].todo
<1> DEFINE k == [watcher[w] EXCEPT !.step = NextSlot(watcher[w].todo), !.slot = 0, !.seen = Absent]
<1>1. watcher' = [watcher EXCEPT ![w] = k]
  BY DEF SlotDone, WatchersTyped, WatchersOK
<1>2. /\ k.step = NextSlot(watcher[w].todo) /\ k.op = watcher[w].op
      /\ k.message = watcher[w].message /\ k.since = watcher[w].since /\ k.todo = watcher[w].todo
  BY DEF WatchersTyped, WatchersOK, WatcherType
<1> HIDE DEF k
<1> QED BY <1>1, <1>2 DEF WatchersTyped, WatchersOK

LEMMA StartFields ==
  ASSUME WatchersTyped, NEW w \in Watchers, StartPass(w)
  PROVE  /\ \A v \in Watchers \ {w} : watcher'[v] = watcher[v]
         /\ watcher'[w].step = "ensure" /\ watcher'[w].message = [s \in Slots |-> "absent"]
         /\ watcher'[w].since = now /\ watcher'[w].todo = Slots /\ watcher'[w].op = operation
BY DEF StartPass, WatchersTyped, WatchersOK, IdleWatcher

\* The slot is the next one, and its row is given or not.
LEMMA EnsureFields ==
  ASSUME WatchersTyped, NEW w \in Watchers, EnsureSlot(w)
  PROVE  /\ \A v \in Watchers \ {w} : watcher'[v] = watcher[v]
         /\ watcher'[w].message = watcher[w].message
         /\ watcher'[w].since = watcher[w].since /\ watcher'[w].op = watcher[w].op
         /\ \E t \in watcher[w].todo :
              /\ exec' = [exec EXCEPT ![t] = Ensured(t, watcher[w].op)]
              /\ watcher'[w].todo = watcher[w].todo \ {t}
              /\ \/ /\ Given(t, watcher[w].op) /\ watcher'[w].step = "mark"
                    /\ watcher'[w].slot = t /\ watcher'[w].seen = Ensured(t, watcher[w].op)
                 \/ /\ ~Given(t, watcher[w].op)
                    /\ watcher'[w].step = NextSlot(watcher[w].todo \ {t})
<1> DEFINE o == watcher[w].op
           k1(t) == [watcher[w] EXCEPT !.step = "mark", !.slot = t, !.todo = @ \ {t}, !.seen = Ensured(t, o)]
           k2(t) == [watcher[w] EXCEPT !.step = NextSlot(watcher[w].todo \ {t}), !.todo = @ \ {t}]
<1>1. PICK t \in watcher[w].todo :
        /\ exec' = [exec EXCEPT ![t] = Ensured(t, o)]
        /\ watcher' = [watcher EXCEPT ![w] = IF Given(t, o) THEN k1(t) ELSE k2(t)]
  BY DEF EnsureSlot, WatchersTyped, WatchersOK
<1>2. /\ k1(t).step = "mark" /\ k1(t).slot = t /\ k1(t).todo = watcher[w].todo \ {t} /\ k1(t).seen = Ensured(t, o)
      /\ k1(t).message = watcher[w].message /\ k1(t).since = watcher[w].since /\ k1(t).op = o
  BY DEF WatchersTyped, WatchersOK, WatcherType
<1>3. /\ k2(t).step = NextSlot(watcher[w].todo \ {t}) /\ k2(t).todo = watcher[w].todo \ {t}
      /\ k2(t).message = watcher[w].message /\ k2(t).since = watcher[w].since /\ k2(t).op = o
  BY DEF WatchersTyped, WatchersOK, WatcherType
<1> HIDE DEF k1, k2
<1>4. /\ watcher'[w] = IF Given(t, o) THEN k1(t) ELSE k2(t)
      /\ \A v \in Watchers \ {w} : watcher'[v] = watcher[v]
  BY <1>1 DEF WatchersTyped, WatchersOK
<1>5. CASE Given(t, o)
  BY <1>1, <1>2, <1>4, <1>5
<1>6. CASE ~Given(t, o)
  BY <1>1, <1>3, <1>4, <1>6
<1> QED BY <1>5, <1>6

LEMMA OverviewFields ==
  ASSUME WatchersTyped, NEW w \in Watchers, Overview(w)
  PROVE  /\ \A v \in Watchers \ {w} : watcher'[v] = watcher[v]
         /\ \/ /\ watcher[w].since >= ReportDue /\ watcher'[w].step = "insert"
               /\ watcher'[w].message = [s \in Slots |-> exec[s].status]
            \/ watcher'[w].step = "abandon" /\ watcher'[w].message = [s \in Slots |-> "absent"]
<1> DEFINE m == [s \in Slots |-> exec[s].status]
<1>1. IF watcher[w].since >= ReportDue
        THEN watcher' = [watcher EXCEPT ![w].step = "insert", ![w].message = m]
        ELSE watcher' = [watcher EXCEPT ![w] = [IdleWatcher EXCEPT !.step = "abandon"]]
  BY DEF Overview
<1> HIDE DEF m
<1>2. CASE watcher[w].since >= ReportDue
  <2>1. /\ \A v \in Watchers \ {w} : watcher'[v] = watcher[v]
        /\ watcher'[w].step = "insert" /\ watcher'[w].message = m
    BY <1>1, <1>2 DEF WatchersTyped, WatchersOK, WatcherType
  <2> QED BY <1>2, <2>1 DEF m
<1>3. CASE ~(watcher[w].since >= ReportDue)
  BY <1>1, <1>3 DEF WatchersTyped, WatchersOK, IdleWatcher
<1> QED BY <1>2, <1>3

LEMMA InsertFields ==
  ASSUME Typed, NEW w \in Watchers, InsertReport(w)
  PROVE  /\ \A v \in Watchers \ {w} : watcher'[v] = watcher[v]
         /\ watcher'[w].step = "abandon" /\ watcher'[w].message = [s \in Slots |-> "absent"]
         /\ \/ report.status = "none" /\ report'.status = "queued" /\ report'.message = watcher[w].message
            \/ report.status # "none" /\ report' = report
BY DEF InsertReport, Typed, WatchersTyped, WatchersOK, IdleWatcher, NoReport

\* What a pass carries, and what the report says, was read from the executions.
LEMMA WatchMessages ==
  ASSUME Typed, NEW w \in Watchers, Watch(w) \/ WatchFails(w) \/ WatcherDies(w), NEW s \in Slots
  PROVE  /\ \A v \in Watchers \ {w} : watcher'[v] = watcher[v]
         /\ \/ watcher'[w].message[s] \in {watcher[w].message[s], "absent"}
            \/ watcher'[w].message[s] = exec[s].status /\ UNCHANGED exec
         /\ report'.message[s] \in {report.message[s], watcher[w].message[s]}
<1>0. WatchersTyped /\ ReportOK
  BY DEF Typed
<1>1. CASE StartPass(w)
  <2>1. UNCHANGED report
    BY <1>1 DEF StartPass
  <2>2. watcher'[w].message = [t \in Slots |-> "absent"] /\ \A v \in Watchers \ {w} : watcher'[v] = watcher[v]
    BY <1>0, <1>1, StartFields
  <2>3. watcher'[w].message[s] = "absent"
    BY <2>2
  <2> QED BY <2>1, <2>2, <2>3
<1>2. CASE EnsureSlot(w)
  <2>1. UNCHANGED report
    BY <1>2 DEF EnsureSlot
  <2> QED BY <1>0, <1>2, <2>1, EnsureFields
<1>3. CASE MarkSlot(w)
  BY <1>0, <1>3, AdvanceFields, SlotDoneFields DEF MarkSlot
<1>4. CASE ReadMails(w)
  BY <1>0, <1>4, AdvanceFields, SlotDoneFields DEF ReadMails
<1>5. CASE MarkUnprocessed(w)
  BY <1>0, <1>5, SlotDoneFields DEF MarkUnprocessed
<1>6. CASE Overview(w)
  <2>1. UNCHANGED <<exec, report>>
    BY <1>6 DEF Overview, rows
  <2> QED BY <1>0, <1>6, <2>1, OverviewFields
<1>7. CASE InsertReport(w)
  BY <1>0, <1>7, InsertFields
<1>8. CASE Abandon(w)
  BY <1>0, <1>8, AdvanceFields DEF Abandon, ReportOK, ReportType
<1>9. CASE ListDue(w)
  BY <1>0, <1>9, AdvanceFields, PassEndsFields DEF ListDue
<1>10. CASE ClaimReport(w)
  <2>1. (Advance(w, "lock") \/ PassEnds(w)) /\ report'.message = report.message
    BY <1>0, <1>10 DEF ClaimReport, ReportOK, ReportType
  <2> QED BY <1>0, <2>1, AdvanceFields, PassEndsFields
<1>11. CASE LockReport(w)
  BY <1>0, <1>11, AdvanceFields, PassEndsFields, ThrowsFields DEF LockReport
<1>12. CASE SaveReport(w)
  BY <1>0, <1>12, PassEndsFields DEF SaveReport, ReportOK, ReportType
<1>13. CASE RecordFailure(w)
  <2>1. PassEnds(w) /\ report'.message = report.message
    BY <1>0, <1>13 DEF RecordFailure, ReportOK, ReportType
  <2> QED BY <1>0, <2>1, PassEndsFields
<1>14. ASSUME NEW reply \in Replies, CallProvider(w, reply)
       PROVE  /\ \A v \in Watchers \ {w} : watcher'[v] = watcher[v]
              /\ watcher'[w].message[s] = watcher[w].message[s] /\ report' = report
  BY <1>0, <1>14, AdvanceFields, ThrowsFields DEF CallProvider
<1>15. CASE WatchFails(w)
  <2>1. /\ PassEnds(w) \/ Throws(w, "not_started") \/ Throws(w, "lost")
        /\ report'.message = report.message
    BY <1>0, <1>15 DEF WatchFails, ReportOK, ReportType
  <2> QED BY <1>0, <2>1, PassEndsFields, ThrowsFields
<1>16. CASE WatcherDies(w)
  BY <1>0, <1>16, PassEndsFields DEF WatcherDies
<1> QED
  BY <1>1, <1>2, <1>3, <1>4, <1>5, <1>6, <1>7, <1>8, <1>9, <1>10, <1>11, <1>12, <1>13, <1>14,
     <1>15, <1>16 DEF Watch

\* Other steps leave the passes and the report alone.
LEMMA OutsideReport ==
  /\ \A p \in Workers : Schedule(p) \/ StepFails(p) \/ WorkerDies(p) =>
       UNCHANGED <<now, policy, report, lockedBy, watcher, taken>>
  /\ (\E s \in Slots : MailMoves(s)) => UNCHANGED <<now, policy, report, lockedBy, watcher, taken>>
<1>1. ASSUME NEW p \in Workers, Schedule(p) \/ StepFails(p) \/ WorkerDies(p)
      PROVE  UNCHANGED <<now, policy, report, lockedBy, watcher, taken>>
  BY <1>1 DEF Schedule, StepFails, WorkerDies, Tick, AdmitStart, EnsureStart, ClaimSlot, Prepare, Bind,
              Evaluate, Dispatched, ReadEvidence, Finish
<1>2. ASSUME NEW s \in Slots, MailMoves(s) PROVE UNCHANGED <<now, policy, report, lockedBy, watcher, taken>>
  BY <1>2 DEF MailMoves
<1> QED BY <1>1, <1>2

LEMMA MessagesHold == Spec => []MessagesStay
<1>1. Init => MessagesStay
  <2> SUFFICES ASSUME Init, NEW s \in Slots
               PROVE  /\ \A w \in Watchers : watcher[w].message[s] = "absent"
                      /\ report.message[s] = "absent"
    BY DEF MessagesStay
  <2>1. ASSUME NEW w \in Watchers PROVE watcher[w].message = [t \in Slots |-> "absent"]
    BY DEF Init, IdleWatcher
  <2>2. report.message = [t \in Slots |-> "absent"]
    BY DEF Init, NoReport
  <2> QED BY <2>1, <2>2
<1>2. Typed /\ MessagesStay /\ [Next]_vars => MessagesStay'
  <2> SUFFICES ASSUME Typed, MessagesStay, [Next]_vars, NEW s \in Slots
               PROVE  /\ \A w \in Watchers : watcher'[w].message[s] = "missed" => exec'[s].status = "missed"
                      /\ report'.message[s] = "missed" => exec'[s].status = "missed"
    BY DEF MessagesStay
  <2>1. exec[s].status = "missed" => exec'[s].status = "missed"
    BY VerdictStep DEF StatusStays, Finished
  <2>2. CASE UNCHANGED <<report, watcher>>
    BY <2>1, <2>2 DEF MessagesStay
  <2>3. ASSUME NEW w \in Watchers, Watch(w) \/ WatchFails(w) \/ WatcherDies(w)
        PROVE  /\ \A v \in Watchers : watcher'[v].message[s] = "missed" => exec'[s].status = "missed"
               /\ report'.message[s] = "missed" => exec'[s].status = "missed"
    <3>1. /\ \A v \in Watchers \ {w} : watcher'[v] = watcher[v]
          /\ \/ watcher'[w].message[s] \in {watcher[w].message[s], "absent"}
             \/ watcher'[w].message[s] = exec[s].status /\ UNCHANGED exec
          /\ report'.message[s] \in {report.message[s], watcher[w].message[s]}
      BY <2>3, WatchMessages
    <3>2. report'.message[s] = "missed" => exec'[s].status = "missed"
      BY <2>1, <3>1 DEF MessagesStay
    <3>3. watcher'[w].message[s] = "missed" => exec'[s].status = "missed"
      BY <2>1, <3>1 DEF MessagesStay
    <3> QED BY <2>1, <3>1, <3>2, <3>3 DEF MessagesStay
  <2>4. PolicyMoves \/ TimePasses \/ UNCHANGED vars => UNCHANGED <<report, watcher>>
    BY DEF PolicyMoves, Pause, StartOperation, SwitchOff, SwitchOn, TimePasses, vars
  <2> QED BY <2>2, <2>3, <2>4, OutsideReport DEF Next, PolicyMoves
<1> QED BY <1>1, <1>2, TypedHolds, PTL DEF Spec

\* A slot recorded or reported as missed was never run, however late a scheduler
\* wakes up and however stale the message a pass carries (markMissed).
THEOREM MissedIsTrue == Spec => []MissedNeverRan
<1>1. Runners /\ MessagesStay => MissedNeverRan
  BY DEF Runners, UnclaimedNeverRan, MessagesStay, MissedNeverRan
<1> QED BY <1>1, RunnersHolds, MessagesHold, PTL

-----------------------------------------------------------------------------
(* Sending.                                                                *)

LEMMA ActiveStays == ASSUME UNCHANGED policy PROVE active' = active
BY DEF policy, active

\* A pass that is not on the way to the provider, and stays so.
LEMMA QuietPass ==
  ASSUME SendInv, NEW w \in Watchers, ~Sends(w), ~Sends(w)',
         \A v \in Watchers \ {w} : watcher'[v] = watcher[v],
         UNCHANGED <<report, lockedBy, taken, active>>
  PROVE  SendInv'
<1>1. OneSender' /\ SentMeanwhile'
  BY DEF SendInv, OneSender, SentMeanwhile, ForSending, Sends
<1>2. LockMeansCall' /\ Calling'
  BY DEF SendInv, LockMeansCall, Calling, Sends
<1>3. NotYetTaken' /\ Taken'
  BY DEF SendInv, NotYetTaken, Taken, ForSending, Sends
<1> QED BY <1>1, <1>2, <1>3 DEF SendInv

LEMMA ReportStatusSet ==
  ASSUME ReportOK, NEW status, report' = [report EXCEPT !.status = status]
  PROVE  report'.status = status
BY DEF ReportOK, ReportType

LEMMA BeforeSending ==
  ASSUME Typed, SendInv, NEW w \in Watchers,
         \/ StartPass(w) \/ EnsureSlot(w) \/ MarkSlot(w) \/ ReadMails(w) \/ MarkUnprocessed(w)
         \/ Overview(w) \/ ListDue(w)
  PROVE  SendInv'
<1>0. WatchersTyped
  BY DEF Typed
<1>1. UNCHANGED <<report, lockedBy, taken, active>> /\ ~Sends(w)
  BY ActiveStays DEF StartPass, EnsureSlot, MarkSlot, ReadMails, MarkUnprocessed, Overview, ListDue, Sends
<1>2. /\ \A v \in Watchers \ {w} : watcher'[v] = watcher[v]
      /\ watcher'[w].step \notin {"lock", "call", "save", "failed"}
  <2>1. CASE StartPass(w)
    BY <1>0, <2>1, StartFields
  <2>2. CASE EnsureSlot(w)
    BY <1>0, <2>2, EnsureFields DEF NextSlot
  <2>3. CASE MarkSlot(w) \/ ReadMails(w) \/ MarkUnprocessed(w)
    BY <1>0, <2>3, AdvanceFields, SlotDoneFields DEF MarkSlot, ReadMails, MarkUnprocessed, NextSlot
  <2>4. CASE Overview(w)
    BY <1>0, <2>4, OverviewFields
  <2>5. CASE ListDue(w)
    BY <1>0, <2>5, AdvanceFields, PassEndsFields DEF ListDue
  <2> QED BY <2>1, <2>2, <2>3, <2>4, <2>5
<1> QED BY <1>1, <1>2, QuietPass DEF Sends

\* The first message: nobody is sending a report that does not exist.
LEMMA InsertSending == ASSUME Typed, SendInv, NEW w \in Watchers, InsertReport(w) PROVE SendInv'
<1>1. /\ \A v \in Watchers \ {w} : watcher'[v] = watcher[v]
      /\ watcher'[w].step = "abandon" /\ watcher[w].step = "insert"
      /\ \/ report.status = "none" /\ report'.status = "queued"
         \/ report' = report
      /\ UNCHANGED <<lockedBy, taken, active>>
  BY InsertFields, ActiveStays DEF InsertReport
<1>2. OneSender' /\ SentMeanwhile'
  BY <1>1 DEF SendInv, OneSender, SentMeanwhile, ForSending, Sends
<1>3. LockMeansCall' /\ Calling'
  BY <1>1 DEF SendInv, LockMeansCall, Calling
<1>4. NotYetTaken' /\ Taken'
  BY <1>1 DEF SendInv, NotYetTaken, Taken, ForSending
<1> QED BY <1>2, <1>3, <1>4 DEF SendInv

\* Giving up: nobody holds the row, so nobody is in a call.
LEMMA AbandonSending == ASSUME Typed, SendInv, NEW w \in Watchers, Abandon(w) PROVE SendInv'
<1>0. WatchersTyped /\ ReportOK
  BY DEF Typed
<1>1. /\ \A v \in Watchers \ {w} : watcher'[v] = watcher[v]
      /\ watcher'[w].step = "list" /\ watcher[w].step = "abandon"
      /\ lockedBy = Nobody /\ UNCHANGED <<lockedBy, taken, active>>
      /\ \/ report.status = "sending" /\ report'.status = "unclear"
         \/ report' = report
  BY <1>0, AdvanceFields, ReportStatusSet, ActiveStays DEF Abandon
<1>2. OneSender' /\ SentMeanwhile'
  BY <1>1 DEF SendInv, OneSender, SentMeanwhile, ForSending, Sends
<1>3. LockMeansCall' /\ Calling'
  BY <1>1, NobodyAssumption DEF SendInv, LockMeansCall, Calling
<1>4. NotYetTaken' /\ Taken'
  BY <1>1 DEF SendInv, NotYetTaken, Taken, ForSending
<1> QED BY <1>2, <1>3, <1>4 DEF SendInv

\* The claim: the report was for sending, so nobody else is.
LEMMA ClaimSending == ASSUME Typed, SendInv, NEW w \in Watchers, ClaimReport(w) PROVE SendInv'
<1>0. WatchersTyped /\ ReportOK
  BY DEF Typed
<1>1. CASE ~Sendable
  BY <1>0, <1>1, PassEndsFields, QuietPass, ActiveStays DEF ClaimReport, Sends
<1>2. CASE Sendable
  <2>1. /\ \A v \in Watchers \ {w} : watcher'[v] = watcher[v]
        /\ watcher'[w].step = "lock" /\ watcher[w].step = "claim"
        /\ lockedBy = Nobody /\ UNCHANGED <<lockedBy, taken, active>>
        /\ report'.status = "sending"
    BY <1>0, <1>2, AdvanceFields, ActiveStays DEF ClaimReport, ReportOK, ReportType
  <2>2. ForSending
    BY <1>2 DEF Sendable, ForSending
  <2>3. \A v \in Watchers : ~Sends(v)
    BY <2>2 DEF SendInv, SentMeanwhile
  <2>4. OneSender' /\ SentMeanwhile'
    BY <2>1, <2>3 DEF OneSender, SentMeanwhile, ForSending, Sends
  <2>5. LockMeansCall' /\ Calling'
    BY <2>1, <2>3, NobodyAssumption DEF SendInv, LockMeansCall, Calling, Sends
  <2>6. NotYetTaken' /\ Taken'
    BY <2>1, <2>2, <2>3 DEF SendInv, NotYetTaken, Taken, ForSending, Sends
  <2> QED BY <2>4, <2>5, <2>6 DEF SendInv
<1> QED BY <1>1, <1>2

\* The row lock and the look at the policy, in one statement each.
LEMMA LockSending == ASSUME Typed, SendInv, NEW w \in Watchers, LockReport(w) PROVE SendInv'
<1>0. WatchersTyped /\ ReportOK
  BY DEF Typed
<1>1. /\ \A v \in Watchers \ {w} : watcher'[v] = watcher[v]
      /\ watcher[w].step = "lock" /\ lockedBy = Nobody
      /\ UNCHANGED <<report, taken, active>>
      /\ \/ watcher'[w].step = "idle" /\ UNCHANGED lockedBy
         \/ report.status = "sending" /\ active /\ watcher'[w].step = "call" /\ lockedBy' = w
         \/ watcher'[w].step = "failed" /\ UNCHANGED lockedBy
  BY <1>0, AdvanceFields, PassEndsFields, ThrowsFields, ActiveStays DEF LockReport
<1>2. OneSender' /\ SentMeanwhile'
  BY <1>1 DEF SendInv, OneSender, SentMeanwhile, ForSending, Sends
<1>3. LockMeansCall' /\ Calling'
  BY <1>1, NobodyAssumption DEF SendInv, LockMeansCall, Calling
<1>4. NotYetTaken' /\ Taken'
  BY <1>1 DEF SendInv, NotYetTaken, Taken, ForSending
<1> QED BY <1>2, <1>3, <1>4 DEF SendInv

LEMMA CallSending ==
  ASSUME Typed, SendInv, NEW w \in Watchers, NEW reply \in Replies, CallProvider(w, reply) PROVE SendInv'
<1>0. WatchersTyped /\ ReportOK
  BY DEF Typed
<1>1. /\ \A v \in Watchers \ {w} : watcher'[v] = watcher[v]
      /\ watcher[w].step = "call" /\ UNCHANGED <<report, active>>
      /\ \/ reply = "accepted" /\ watcher'[w].step = "save" /\ UNCHANGED lockedBy
         \/ reply # "accepted" /\ watcher'[w].step = "failed" /\ watcher'[w].reply = reply /\ lockedBy' = Nobody
  BY <1>0, AdvanceFields, ThrowsFields, ActiveStays DEF CallProvider
<1>2. /\ taken = 0 /\ lockedBy = w /\ ~ForSending /\ report.status = "sending" /\ active
      /\ \A v \in Watchers \ {w} : ~Sends(v)
  BY <1>1 DEF SendInv, NotYetTaken, LockMeansCall, SentMeanwhile, Calling, OneSender, Sends
<1>3. /\ taken' \in {0, 1}
      /\ reply = "accepted" => taken' = 1
      /\ FailureStatus(reply) # "unclear" => taken' = 0
  <2>1. PICK took \in BOOLEAN : /\ reply \in {"accepted", "lost"} => took
                                /\ reply \in {"rejected", "error"} => ~took
                                /\ taken' = IF took THEN taken + 1 ELSE taken
    BY DEF CallProvider
  <2>2. taken + 1 = 1
    BY <1>2
  <2>3. FailureStatus(reply) # "unclear" => reply \in {"rejected", "not_started"}
    BY DEF FailureStatus
  <2>4. CASE took
    BY <1>2, <2>1, <2>2, <2>3, <2>4 DEF Replies
  <2>5. CASE ~took
    BY <1>2, <2>1, <2>5
  <2> QED BY <2>4, <2>5
<1>4. OneSender' /\ SentMeanwhile'
  BY <1>1, <1>2 DEF OneSender, SentMeanwhile, ForSending, Sends
<1>5. LockMeansCall' /\ Calling'
  BY <1>1, <1>2, NobodyAssumption DEF LockMeansCall, Calling, Sends
<1>6. NotYetTaken' /\ Taken'
  BY <1>1, <1>2, <1>3 DEF NotYetTaken, Taken, ForSending, Sends
<1> QED BY <1>4, <1>5, <1>6 DEF SendInv

LEMMA SaveSending == ASSUME Typed, SendInv, NEW w \in Watchers, SaveReport(w) PROVE SendInv'
<1>0. WatchersTyped /\ ReportOK
  BY DEF Typed
<1>1. /\ \A v \in Watchers \ {w} : watcher'[v] = watcher[v]
      /\ watcher[w].step = "save" /\ watcher'[w].step = "idle" /\ report'.status = "accepted"
      /\ lockedBy' = Nobody /\ UNCHANGED <<taken, active>>
  BY <1>0, PassEndsFields, ReportStatusSet, ActiveStays DEF SaveReport
<1>2. taken = 1 /\ \A v \in Watchers \ {w} : ~Sends(v)
  BY <1>1 DEF SendInv, Taken, OneSender, Sends
<1>3. OneSender' /\ SentMeanwhile'
  BY <1>1, <1>2 DEF OneSender, SentMeanwhile, ForSending, Sends
<1>4. LockMeansCall' /\ Calling'
  BY <1>1, <1>2, NobodyAssumption DEF LockMeansCall, Calling, Sends
<1>5. NotYetTaken' /\ Taken'
  BY <1>1, <1>2 DEF NotYetTaken, Taken, ForSending, Sends
<1> QED BY <1>3, <1>4, <1>5 DEF SendInv

LEMMA FailureSending == ASSUME Typed, SendInv, NEW w \in Watchers, RecordFailure(w) PROVE SendInv'
<1>0. WatchersTyped /\ ReportOK
  BY DEF Typed
<1> DEFINE f == FailureStatus(watcher[w].reply)
<1>1. /\ \A v \in Watchers \ {w} : watcher'[v] = watcher[v]
      /\ watcher[w].step = "failed" /\ watcher'[w].step = "idle"
      /\ lockedBy = Nobody /\ UNCHANGED <<lockedBy, taken, active>>
      /\ report' = report \/ report'.status = f
  BY <1>0, PassEndsFields, ActiveStays DEF RecordFailure, ReportOK, ReportType
<1>2. /\ \A v \in Watchers \ {w} : ~Sends(v)
      /\ ~ForSending /\ (f # "unclear" => taken = 0) /\ f \in {"queued", "rejected", "unclear"}
  BY <1>1 DEF SendInv, OneSender, SentMeanwhile, NotYetTaken, Sends, FailureStatus
<1> HIDE DEF f
<1>3. OneSender' /\ SentMeanwhile'
  BY <1>1, <1>2 DEF OneSender, SentMeanwhile, Sends
<1>4. LockMeansCall' /\ Calling'
  BY <1>1, <1>2, NobodyAssumption DEF LockMeansCall, Calling, Sends
<1>5. NotYetTaken' /\ Taken'
  BY <1>1, <1>2 DEF SendInv, NotYetTaken, Taken, ForSending, Sends
<1> QED BY <1>3, <1>4, <1>5 DEF SendInv

LEMMA FaultSending ==
  ASSUME Typed, SendInv, NEW w \in Watchers, WatchFails(w) \/ WatcherDies(w) PROVE SendInv'
<1>0. WatchersTyped /\ ReportOK
  BY DEF Typed
<1>1. /\ \A v \in Watchers \ {w} : watcher'[v] = watcher[v]
      /\ UNCHANGED <<taken, active>>
      /\ lockedBy' = IF lockedBy = w THEN Nobody ELSE lockedBy
      /\ \/ watcher'[w].step = "idle" /\ report' = report
         \/ /\ watcher[w].step \in {"lock", "call"} /\ report' = report
            /\ watcher'[w].step = "failed" /\ watcher'[w].reply = "not_started"
         \/ /\ watcher[w].step = "save" /\ (report' = report \/ report'.status = "accepted")
            /\ watcher'[w].step = "failed" /\ watcher'[w].reply = "lost"
  <2>1. CASE WatcherDies(w)
    BY <1>0, <2>1, PassEndsFields, ActiveStays DEF WatcherDies, Unlock
  <2>2. CASE WatchFails(w)
    BY <1>0, <2>2, PassEndsFields, ThrowsFields, ReportStatusSet, ActiveStays DEF WatchFails, Unlock
  <2> QED BY <2>1, <2>2
<1>2. FailureStatus("lost") = "unclear"
  BY DEF FailureStatus
<1>3. OneSender'
  BY <1>1 DEF SendInv, OneSender, Sends
<1>4. SentMeanwhile'
  BY <1>1 DEF SendInv, OneSender, SentMeanwhile, ForSending, Sends
<1>5. LockMeansCall'
  BY <1>1, NobodyAssumption DEF SendInv, LockMeansCall
<1>6. Calling'
  BY <1>1 DEF SendInv, OneSender, Calling, Sends
<1>7. NotYetTaken'
  BY <1>1, <1>2 DEF SendInv, OneSender, NotYetTaken, ForSending, Sends
<1>8. Taken'
  BY <1>1 DEF SendInv, Taken
<1> QED BY <1>3, <1>4, <1>5, <1>6, <1>7, <1>8 DEF SendInv

\* The stop waits for the lock that the sending transaction shares.
LEMMA PolicySending == ASSUME Typed, SendInv, PolicyMoves \/ TimePasses PROVE SendInv'
<1>1. UNCHANGED <<report, watcher, lockedBy, taken>> /\ (lockedBy = Nobody \/ ~active \/ active' = active)
  BY ActiveStays DEF PolicyMoves, Pause, StartOperation, SwitchOff, SwitchOn, TimePasses, active
<1>2. OneSender' /\ SentMeanwhile' /\ LockMeansCall'
  BY <1>1 DEF SendInv, OneSender, SentMeanwhile, LockMeansCall, ForSending, Sends
<1>3. Calling'
  BY <1>1, NobodyAssumption DEF SendInv, LockMeansCall, Calling
<1>4. NotYetTaken' /\ Taken'
  BY <1>1 DEF SendInv, NotYetTaken, Taken, ForSending
<1> QED BY <1>2, <1>3, <1>4 DEF SendInv

LEMMA SendHolds == Spec => []SendInv
<1>1. Init => SendInv
  BY NobodyAssumption DEF Init, SendInv, OneSender, SentMeanwhile, LockMeansCall, Calling, NotYetTaken, Taken,
     ForSending, Sends, IdleWatcher, NoReport
<1>2. Typed /\ SendInv /\ [Next]_vars => SendInv'
  <2> SUFFICES ASSUME Typed, SendInv, [Next]_vars PROVE SendInv'
    OBVIOUS
  <2>1. CASE UNCHANGED <<policy, report, lockedBy, watcher, taken>>
    BY <2>1, ActiveStays DEF SendInv, OneSender, SentMeanwhile, LockMeansCall, Calling, NotYetTaken, Taken,
       ForSending, Sends
  <2>2. ASSUME NEW w \in Watchers, Watch(w) PROVE SendInv'
    BY <2>2, BeforeSending, InsertSending, AbandonSending, ClaimSending, LockSending, CallSending,
       SaveSending, FailureSending DEF Watch
  <2>3. UNCHANGED vars => UNCHANGED <<policy, report, lockedBy, watcher, taken>>
    BY DEF vars
  <2> QED BY <2>1, <2>2, <2>3, FaultSending, PolicySending, OutsideReport DEF Next, PolicyMoves
<1> QED BY <1>1, <1>2, TypedHolds, PTL DEF Spec

\* The provider takes the day's report at most once, whatever passes overlap,
\* fail or die (sendReport's claim, recordReportFailure).
THEOREM TakenOnce == Spec => []ReportTakenOnce
<1>1. SendInv => ReportTakenOnce
  BY DEF SendInv, Taken, ReportTakenOnce
<1> QED BY <1>1, SendHolds, PTL

\* A report that may be sent again was not taken; one that is accepted was.
THEOREM ReportIsTruthful == Spec => []ReportTellsTheTruth
<1>1. SendInv => ReportTellsTheTruth
  BY DEF SendInv, Taken, NotYetTaken, ForSending, ReportTellsTheTruth
<1> QED BY <1>1, SendHolds, PTL

\* No pass is in a provider call once the control is stopped: the sending
\* transaction shares a lock with the policy that stopping must take.
THEOREM StopsAtOnce == Spec => []StopIsImmediate
<1>1. SendInv => StopIsImmediate
  BY DEF SendInv, Calling, StopIsImmediate
<1> QED BY <1>1, SendHolds, PTL

-----------------------------------------------------------------------------
(* The frozen report.                                                      *)

LEMMA LateStays ==
  ASSUME Typed, NEW t \in Slots
  PROVE  /\ \A p \in Workers : EnsureStart(p) \/ Bind(p) \/ Finish(p) =>
              /\ exec'[t].late = exec[t].late
              /\ exec[t].status # "absent" => exec'[t].op = exec[t].op
         /\ \A w \in Watchers : EnsureSlot(w) \/ MarkSlot(w) \/ MarkUnprocessed(w) =>
              /\ exec'[t].late = exec[t].late
              /\ exec[t].status # "absent" => exec'[t].op = exec[t].op
<1>0. ExecutionsOK /\ WatchersTyped /\ WorkersTyped
  BY DEF Typed
<1>1. ASSUME NEW p \in Workers, EnsureStart(p) \/ Bind(p) \/ Finish(p)
      PROVE  exec'[t].late = exec[t].late /\ (exec[t].status # "absent" => exec'[t].op = exec[t].op)
  <2> DEFINE s == worker[p].slot
             o == worker[p].op
             a == worker[p].outcome
             b == IF worker[p].outcome = "completed" THEN "none" ELSE "other"
  <2>1. s \in Slots /\ o \in OperationType
    BY <1>0, <1>1 DEF WorkersTyped, WorkersOK, WorkerType, EnsureStart, Bind, Finish
  <2>2. \/ exec' = [exec EXCEPT ![s] = Ensured(s, o)]
        \/ exec' = [exec EXCEPT ![s].bound = TRUE]
        \/ exec' = [exec EXCEPT ![s].status = a, ![s].cause = b]
        \/ exec' = exec
    BY <1>1 DEF EnsureStart, Bind, Finish
  <2> HIDE DEF s, o, a, b
  <2> QED BY <1>0, <2>1, <2>2, EnsuredStatus, MarkedStatus, BoundStatus
<1>2. ASSUME NEW w \in Watchers, EnsureSlot(w) \/ MarkSlot(w) \/ MarkUnprocessed(w)
      PROVE  exec'[t].late = exec[t].late /\ (exec[t].status # "absent" => exec'[t].op = exec[t].op)
  <2> DEFINE s == watcher[w].slot
             v == Verdict(watcher[w].seen, Age(w))
             c == IF v = "missed" THEN "missing" ELSE "deadline"
  <2>1. CASE EnsureSlot(w)
    <3>1. watcher[w].todo \subseteq Slots /\ watcher[w].op \in OperationType
      BY <1>0 DEF WatchersTyped, WatchersOK, WatcherType
    <3>2. PICK u \in watcher[w].todo : exec' = [exec EXCEPT ![u] = Ensured(u, watcher[w].op)]
      BY <1>0, <2>1, EnsureFields
    <3>3. u \in Slots
      BY <3>1
    <3> QED BY <1>0, <3>1, <3>2, <3>3, EnsuredStatus
  <2>2. CASE MarkSlot(w) \/ MarkUnprocessed(w)
    <3>1. s \in Slots
      BY <1>0, <2>2 DEF WatchersTyped, MarkSlot, MarkUnprocessed
    <3>2. \/ exec' = exec
          \/ exec' = [exec EXCEPT ![s].status = v, ![s].cause = c]
          \/ exec' = [exec EXCEPT ![s].status = "partial", ![s].cause = "unprocessed"]
      BY <2>2 DEF MarkSlot, MarkUnprocessed
    <3> HIDE DEF s, v, c
    <3> QED BY <1>0, <3>1, <3>2, MarkedStatus
  <2> QED BY <1>2, <2>1, <2>2
<1> QED BY <1>1, <1>2

\* All that a step may make of an execution.
RowStep(s) ==
  /\ exec[s].status # "absent" => exec'[s].op = exec[s].op
  /\ \/ exec'[s].status = exec[s].status /\ exec'[s].late = exec[s].late
     \/ exec[s].status = "absent" /\ exec'[s].status = "planned"
     \/ exec[s].status = "planned" /\ exec'[s].status = "running" /\ exec'[s].late = (now > s)
     \/ /\ exec[s].status \in {"planned", "running", "completed"} /\ exec'[s].status \in Finished
        /\ exec'[s].late = exec[s].late

LEMMA RowSteps == ASSUME Typed, [Next]_vars, NEW s \in Slots PROVE RowStep(s)
<1>0. ExecutionsOK
  BY DEF Typed
<1>1. CASE UNCHANGED exec
  BY <1>1 DEF RowStep
<1>2. ASSUME NEW p \in Workers, EnsureStart(p) \/ Bind(p) PROVE RowStep(s)
  BY <1>2, ScheduledStatus, LateStays DEF RowStep
<1>3. ASSUME NEW p \in Workers, Finish(p) PROVE RowStep(s)
  <2>1. worker[p].outcome \in Finished
    BY DEF Typed, WorkersTyped, WorkersOK, WorkerType, Outcomes, Finished
  <2> QED BY <1>3, <2>1, ScheduledStatus, LateStays DEF RowStep
<1>4. ASSUME NEW p \in Workers, ClaimSlot(p) PROVE RowStep(s)
  <2>1. worker[p].slot \in Slots
    BY <1>4 DEF ClaimSlot, Typed, WorkersTyped
  <2> QED BY <1>0, <1>4, <2>1, ClaimedStatus DEF ClaimSlot, RowStep
<1>5. ASSUME NEW w \in Watchers, EnsureSlot(w) \/ MarkSlot(w) \/ MarkUnprocessed(w) PROVE RowStep(s)
  BY <1>5, WatchedStatus, LateStays DEF RowStep, Finished
<1> QED BY <1>1, <1>2, <1>3, <1>4, <1>5, OtherwiseUnwritten DEF Next, PolicyMoves

LEMMA JudgedStays ==
  ASSUME Typed, [Next]_vars, NEW s \in Slots
  PROVE  /\ Ended(s) => Ended(s)'
         /\ Late(s) => Late(s)'
         /\ Judged(s) => Judged(s)'
BY RowSteps DEF RowStep, Ended, Late, Judged, Finished

LEMMA TimeForward == ASSUME Typed, [Next]_vars PROVE now' >= now /\ now \in Nat /\ now' \in Nat
<1>1. now \in Nat
  BY DEF Typed, BoundsOK
<1>2. now' = now \/ now' = now + 1
  <2>1. ASSUME NEW w \in Watchers, Watch(w) \/ WatchFails(w) \/ WatcherDies(w) PROVE UNCHANGED now
    BY <2>1 DEF Watch, WatchFails, WatcherDies, StartPass, EnsureSlot, MarkSlot, ReadMails, MarkUnprocessed,
           Overview, InsertReport, Abandon, ListDue, ClaimReport, LockReport, SaveReport, RecordFailure,
           CallProvider
  <2> QED BY <2>1, OutsideReport DEF Next, PolicyMoves, Pause, StartOperation, SwitchOff, SwitchOn, TimePasses, vars
<1> QED BY <1>1, <1>2

\* After the report is due the operation stays, or no slot is admitted.
LEMMA OperationStep ==
  ASSUME Typed, [Next]_vars, now >= ReportDue
  PROVE  operation'.admits = {} \/ (operation'.id = operation.id /\ operation'.admits = operation.admits)
<1>1. ASSUME NEW w \in Watchers, Watch(w) \/ WatchFails(w) \/ WatcherDies(w) PROVE UNCHANGED operation
  BY <1>1 DEF Watch, WatchFails, WatcherDies, StartPass, EnsureSlot, MarkSlot, ReadMails, MarkUnprocessed,
         Overview, InsertReport, Abandon, ListDue, ClaimReport, LockReport, SaveReport, RecordFailure,
         CallProvider, policy
<1>2. CASE Pause
  BY <1>2 DEF Pause, Typed, BoundsOK, OperationType
<1>3. CASE StartOperation
  <2>1. PICK whole \in BOOLEAN :
          operation' = [id |-> operation.id + 1, active |-> TRUE,
                        admits |-> {s \in Slots : s > now /\ (whole \/ \E t \in Slots : t < s)}]
    BY <1>3 DEF StartOperation
  <2>2. now \in Nat
    BY DEF Typed, BoundsOK
  <2>3. \A s \in Slots : ~(s > now)
    BY <2>2, TicksAreNaturals
  <2> QED BY <2>1, <2>3
<1>4. CASE SwitchOff \/ SwitchOn \/ TimePasses \/ UNCHANGED vars
  BY <1>4 DEF SwitchOff, SwitchOn, TimePasses, vars, policy
<1>5. UNCHANGED policy => UNCHANGED operation
  BY DEF policy
<1> QED BY <1>1, <1>2, <1>3, <1>4, <1>5, OutsideReport DEF Next

\* A slot that is out of reach then stays so: its row keeps its operation.
LEMMA ReachStays ==
  ASSUME Typed, [Next]_vars, now >= ReportDue, NEW s \in Slots
  PROVE  /\ OutOfReach(s) => OutOfReach(s)'
         /\ Left(s) => Left(s)'
<1>1. OutOfReach(s) => OutOfReach(s)'
  BY RowSteps, OperationStep DEF RowStep, OutOfReach, Finished
<1> QED BY <1>1, JudgedStays DEF Left

\* What a pass has seen and left behind survives the steps of the others.
LEMMA PassStays ==
  ASSUME Typed, [Next]_vars, NEW w \in Watchers, PassGood(w), watcher'[w] = watcher[w]
  PROVE  PassGood(w)'
<1> SUFFICES ASSUME InPass(w), watcher[w].since >= ReportDue PROVE PassGood(w)'
  BY DEF PassGood, InPass
<1>0. /\ watcher[w].since \in Nat /\ watcher[w].todo \subseteq Slots
      /\ watcher[w].step = "mark" => watcher[w].slot \in Slots
  BY TicksAreNaturals DEF Typed, WatchersTyped, WatchersOK, WatcherType
<1>a. now >= ReportDue /\ ReportDue \in Nat
  BY <1>0, TimeForward, TicksAreNaturals DEF PassGood
<1>1. now' >= watcher[w].since /\ SameOp(w)'
  BY <1>0, <1>a, TimeForward, OperationStep DEF PassGood, SameOp
<1>2. ASSUME NEW s \in Slots \ watcher[w].todo
      PROVE  Left(s)' \/ (watcher[w].step = "mark" /\ s = watcher[w].slot)
  BY <1>a, <1>2, ReachStays DEF PassGood
<1>3. watcher[w].step = "mark" => SeenBefore(w)'
  <2> SUFFICES ASSUME watcher[w].step = "mark" PROVE SeenBefore(w)'
    OBVIOUS
  <2> DEFINE s == watcher[w].slot
  <2>1. s \in Slots /\ SeenBefore(w) /\ now >= watcher[w].since /\ now \in Nat
    BY <1>0, TimeForward DEF PassGood
  <2>2. now > s
    BY <1>0, <2>1, TicksAreNaturals
  <2>3. RowStep(s) /\ (Judged(s) => Judged(s)') /\ (Ended(s) => Ended(s)')
    BY <2>1, RowSteps, JudgedStays
  <2>4. exec[s].status = "planned" => exec'[s].status = "planned" \/ Judged(s)'
    BY <2>2, <2>3 DEF RowStep, Judged, Ended, Late, Finished
  <2>5. exec[s].status = "running" => exec'[s].status = "running" \/ Ended(s)'
    BY <2>3 DEF RowStep, Ended
  <2> QED BY <2>1, <2>3, <2>4, <2>5 DEF SeenBefore
<1> QED BY <1>1, <1>2, <1>3 DEF PassGood

\* The pass goes through the slots: each is left ended, running late, or out
\* of reach.
LEMMA PassSteps ==
  ASSUME Typed, [Next]_vars, NEW w \in Watchers, PassGood(w),
         StartPass(w) \/ EnsureSlot(w) \/ MarkSlot(w) \/ ReadMails(w) \/ MarkUnprocessed(w)
  PROVE  PassGood(w)' /\ watcher'[w].step # "insert"
<1>0. /\ WatchersTyped /\ ExecutionsOK
      /\ watcher[w].since \in Nat /\ watcher[w].todo \subseteq Slots
      /\ watcher[w].step \in {"mark", "evidence", "partial"} => watcher[w].slot \in Slots
  BY TicksAreNaturals DEF Typed, WatchersTyped, WatchersOK, WatcherType
<1>a. ASSUME InPass(w), watcher[w].since >= ReportDue
      PROVE  /\ now >= ReportDue /\ now' >= watcher[w].since
             /\ watcher'[w].op = watcher[w].op => SameOp(w)'
  <2>1. now >= ReportDue /\ now' >= watcher[w].since
    BY <1>0, <1>a, TimeForward, TicksAreNaturals DEF PassGood
  <2>2. watcher'[w].op = watcher[w].op => SameOp(w)'
    BY <1>a, <2>1, OperationStep DEF PassGood, SameOp
  <2> QED BY <2>1, <2>2
<1>1. CASE StartPass(w)
  <2>1. /\ watcher'[w].step = "ensure" /\ watcher'[w].since = now /\ watcher'[w].todo = Slots
        /\ watcher'[w].op = operation /\ UNCHANGED operation
    BY <1>0, <1>1, StartFields DEF StartPass, policy
  <2>2. now' >= now /\ SameOp(w)'
    BY <2>1, TimeForward DEF SameOp
  <2> QED BY <2>1, <2>2 DEF PassGood
<1>2. CASE EnsureSlot(w)
  <2> DEFINE o == watcher[w].op
  <2>1. PICK t \in watcher[w].todo :
          /\ exec' = [exec EXCEPT ![t] = Ensured(t, o)]
          /\ watcher'[w].todo = watcher[w].todo \ {t}
          /\ \/ /\ Given(t, o) /\ watcher'[w].step = "mark"
                /\ watcher'[w].slot = t /\ watcher'[w].seen = Ensured(t, o)
             \/ /\ ~Given(t, o)
                /\ watcher'[w].step = NextSlot(watcher[w].todo \ {t})
    BY <1>0, <1>2, EnsureFields
  <2>2. /\ t \in Slots /\ o \in OperationType /\ exec'[t] = Ensured(t, o)
        /\ watcher[w].step = "ensure" /\ watcher'[w].since = watcher[w].since /\ watcher'[w].op = o
    BY <1>0, <1>2, <2>1, EnsureFields DEF EnsureSlot, ExecutionsOK, WatchersTyped, WatchersOK, WatcherType
  <2>3. watcher'[w].step \in {"mark", "overview", "ensure"}
    BY <2>1 DEF NextSlot
  <2> SUFFICES ASSUME watcher[w].since >= ReportDue PROVE PassGood(w)'
    BY <2>2, <2>3 DEF PassGood
  <2>4. now >= ReportDue /\ now' >= watcher[w].since /\ SameOp(w) /\ SameOp(w)'
    BY <1>a, <2>2 DEF PassGood, InPass
  <2>5. ASSUME NEW s \in Slots \ watcher'[w].todo PROVE Left(s)' \/ s = t
    BY <2>1, <2>2, <2>4, <2>5, ReachStays DEF PassGood, InPass
  <2>6. CASE Given(t, o) /\ watcher'[w].step = "mark" /\ watcher'[w].slot = t /\ watcher'[w].seen = Ensured(t, o)
    <3>1. Ensured(t, o).status \in Statuses \ {"absent"}
      BY <1>0, <2>2, <2>6 DEF Given, ExecutionsOK, ExecType, Ensured, Statuses, Finished
    <3>2. SeenBefore(w)'
      BY <2>2, <2>6, <3>1 DEF SeenBefore, Ended, Statuses
    <3> QED BY <2>2, <2>4, <2>5, <2>6, <3>2 DEF PassGood
  <2>7. CASE ~Given(t, o) /\ watcher'[w].step = NextSlot(watcher[w].todo \ {t})
    <3>1. OutOfReach(t)
      BY <1>0, <2>2, <2>4, <2>7 DEF Given, Ensured, SameOp, OutOfReach, ExecutionsOK, ExecType, OperationType
    <3>2. Left(t)'
      BY <2>2, <2>4, <3>1, ReachStays DEF Left
    <3>3. /\ watcher'[w].step \in {"overview", "ensure"}
          /\ watcher'[w].step = "overview" => watcher'[w].todo = {}
      BY <2>1, <2>7 DEF NextSlot
    <3> QED BY <2>2, <2>4, <2>5, <3>2, <3>3 DEF PassGood
  <2> QED BY <2>1, <2>6, <2>7
<1>3. CASE MarkSlot(w)
  <2> DEFINE v == Verdict(watcher[w].seen, Age(w))
             c == IF v = "missed" THEN "missing" ELSE "deadline"
  <2>1. /\ watcher'[w].step \in {"evidence", "ensure"} \/ (watcher'[w].step = "overview" /\ watcher[w].todo = {})
        /\ watcher[w].step = "mark"
        /\ watcher'[w].since = watcher[w].since /\ watcher'[w].todo = watcher[w].todo
        /\ watcher'[w].op = watcher[w].op
    BY <1>0, <1>3, AdvanceFields, SlotDoneFields DEF MarkSlot, NextSlot
  <2> SUFFICES ASSUME watcher[w].since >= ReportDue PROVE PassGood(w)'
    BY <2>1 DEF PassGood
  <2>2. now >= ReportDue /\ now' >= watcher[w].since /\ SameOp(w)'
    BY <1>a, <2>1 DEF InPass
  <2>a. watcher[w].slot \in Slots /\ SeenBefore(w)
    BY <1>0, <2>1 DEF PassGood, InPass
  <2>3. PICK s \in Slots : s = watcher[w].slot
    BY <2>a
  <2>4. Age(w) \in Nat /\ Age(w) >= 3
    BY <1>0, <2>3, TicksAreNaturals DEF Age
  <2>5. /\ watcher[w].seen.status = "planned" => v = "missed"
        /\ watcher[w].seen.status = "running" => v = "failed"
    BY <2>4 DEF Verdict, MissedAfter, OverdueAfter
  <2>6. exec' = IF v # "none" /\ exec[s].status = watcher[w].seen.status
                  THEN [exec EXCEPT ![s].status = v, ![s].cause = c] ELSE exec
    BY <1>3, <2>3 DEF MarkSlot
  <2> HIDE DEF v, c
  <2>7. v # "none" /\ exec[s].status = watcher[w].seen.status => exec'[s].status = v
    BY <1>0, <2>6 DEF ExecutionsOK, ExecType
  <2>8. (Judged(s) => Judged(s)') /\ (Ended(s) => Ended(s)')
    BY <2>3, JudgedStays
  <2>9. Judged(s)'
    BY <2>a, <2>3, <2>5, <2>7, <2>8 DEF SeenBefore, Judged, Ended, Finished
  <2>10. ASSUME NEW t \in Slots \ watcher[w].todo PROVE Left(t)'
    BY <2>1, <2>2, <2>3, <2>9, <2>10, ReachStays DEF PassGood, InPass, Left
  <2> QED BY <2>1, <2>2, <2>10 DEF PassGood
<1>4. CASE ReadMails(w) \/ MarkUnprocessed(w)
  <2>1. /\ watcher'[w].step \in {"partial", "ensure"} \/ (watcher'[w].step = "overview" /\ watcher[w].todo = {})
        /\ watcher[w].step \in {"evidence", "partial"}
        /\ watcher'[w].since = watcher[w].since /\ watcher'[w].todo = watcher[w].todo
        /\ watcher'[w].op = watcher[w].op
    BY <1>0, <1>4, AdvanceFields, SlotDoneFields DEF ReadMails, MarkUnprocessed, NextSlot
  <2> SUFFICES ASSUME watcher[w].since >= ReportDue PROVE PassGood(w)'
    BY <2>1 DEF PassGood
  <2>2. now >= ReportDue /\ now' >= watcher[w].since /\ SameOp(w)'
    BY <1>a, <2>1 DEF InPass
  <2>3. ASSUME NEW t \in Slots \ watcher[w].todo PROVE Left(t)'
    BY <2>1, <2>2, <2>3, ReachStays DEF PassGood, InPass
  <2> QED BY <2>1, <2>2, <2>3 DEF PassGood
<1> QED BY <1>1, <1>2, <1>3, <1>4

LEMMA FreezeStep == ASSUME Typed, SendInv, FreezeInv, [Next]_vars PROVE FreezeInv'
<1>0. WatchersTyped /\ ExecutionsOK /\ ReportOK
  BY DEF Typed
<1>a. ASSUME now >= ReportDue PROVE now' >= ReportDue
  BY <1>a, TimeForward, TicksAreNaturals
<1>b. ASSUME now >= ReportDue, NEW m, Told(m)
      PROVE  \A s \in Slots : m[s] \in Finished \/ (m[s] = "running" /\ Late(s)') \/ OutOfReach(s)'
  BY <1>b, JudgedStays, ReachStays DEF Told
<1>1. ASSUME NEW w \in Watchers, watcher'[w] = watcher[w]
      PROVE  PassGood(w)' /\ (watcher'[w].step = "insert" => now' >= ReportDue /\ Told(watcher[w].message)')
  BY <1>a, <1>b, <1>1, PassStays DEF FreezeInv, Told
<1>2. ASSUME report'.status = report.status, report'.message = report.message
      PROVE  (report.status # "none" => now >= ReportDue /\ Told(report.message))'
  BY <1>a, <1>b, <1>2 DEF FreezeInv, Told
<1>3. CASE UNCHANGED <<report, watcher>>
  BY <1>1, <1>2, <1>3 DEF FreezeInv
<1>4. ASSUME NEW w \in Watchers, \A v \in Watchers \ {w} : watcher'[v] = watcher[v],
             PassGood(w)', watcher'[w].step = "insert" => now' >= ReportDue /\ Told(watcher[w].message)',
             (report.status # "none" => now >= ReportDue /\ Told(report.message))'
      PROVE  FreezeInv'
  BY <1>1, <1>4 DEF FreezeInv
<1>5. ASSUME NEW w \in Watchers,
             StartPass(w) \/ EnsureSlot(w) \/ MarkSlot(w) \/ ReadMails(w) \/ MarkUnprocessed(w)
      PROVE  FreezeInv'
  <2>1. PassGood(w)' /\ watcher'[w].step # "insert"
    BY <1>5, PassSteps DEF FreezeInv
  <2>2. UNCHANGED report
    BY <1>5 DEF StartPass, EnsureSlot, MarkSlot, ReadMails, MarkUnprocessed
  <2> QED BY <1>2, <1>4, <1>5, <2>1, <2>2, WatchMessages, SlotsAssumption DEF Watch
<1>6. ASSUME NEW w \in Watchers, Overview(w) PROVE FreezeInv'
  <2>1. /\ watcher[w].step = "overview" /\ UNCHANGED <<exec, report, now, operation>>
        /\ \A v \in Watchers \ {w} : watcher'[v] = watcher[v]
        /\ \/ /\ watcher[w].since >= ReportDue /\ watcher'[w].step = "insert"
              /\ watcher'[w].message = [s \in Slots |-> exec[s].status]
           \/ watcher'[w].step = "abandon"
    BY <1>0, <1>6, OverviewFields DEF Overview, rows, policy
  <2>2. PassGood(w)'
    BY <2>1 DEF PassGood, InPass
  <2>a. watcher[w].since \in Nat /\ now \in Nat
    BY <1>0, TimeForward, TicksAreNaturals DEF WatchersTyped, WatchersOK, WatcherType
  <2>3. watcher'[w].step = "insert" => now >= ReportDue /\ \A s \in Slots : Left(s)
    BY <1>0, <2>1, <2>a, TicksAreNaturals DEF FreezeInv, PassGood, InPass, WatchersTyped, WatchersOK, WatcherType
  <2>4. watcher'[w].step = "insert" => now' >= ReportDue /\ Told(watcher[w].message)'
    BY <2>1, <2>3 DEF Told, Left, Judged, Ended, Late, OutOfReach
  <2> QED BY <1>2, <1>4, <2>1, <2>2, <2>4
<1>7. ASSUME NEW w \in Watchers, InsertReport(w) PROVE FreezeInv'
  <2>1. /\ watcher[w].step = "insert" /\ watcher'[w].step = "abandon"
        /\ \A v \in Watchers \ {w} : watcher'[v] = watcher[v]
        /\ report'.message = watcher[w].message \/ report' = report
    BY <1>7, InsertFields DEF InsertReport
  <2>2. PassGood(w)'
    BY <2>1 DEF PassGood, InPass
  <2>3. (report.status # "none" => now >= ReportDue /\ Told(report.message))'
    BY <1>2, <1>a, <1>b, <2>1 DEF FreezeInv, Told
  <2> QED BY <1>4, <2>1, <2>2, <2>3
<1>8. ASSUME NEW w \in Watchers,
             \/ Abandon(w) \/ ListDue(w) \/ ClaimReport(w) \/ LockReport(w) \/ SaveReport(w) \/ RecordFailure(w)
             \/ (\E reply \in Replies : CallProvider(w, reply)) \/ WatchFails(w) \/ WatcherDies(w)
      PROVE  FreezeInv'
  <2>1. watcher'[w].step \notin {"ensure", "mark", "evidence", "partial", "overview", "insert"}
    <3>1. \/ PassEnds(w)
          \/ \E step \in {"list", "claim", "lock", "call", "save"} : Advance(w, step)
          \/ \E reply \in Replies \cup {"not_started"} : Throws(w, reply)
      BY <1>8 DEF Abandon, ListDue, ClaimReport, LockReport, SaveReport, RecordFailure, CallProvider,
                  WatchFails, WatcherDies, Replies
    <3> QED BY <1>0, <3>1, AdvanceFields, PassEndsFields, ThrowsFields
  <2>5. /\ report'.message = report.message
        /\ report'.status # "none" => report.status # "none"
    <3>1. CASE Abandon(w)
      BY <1>0, <3>1 DEF Abandon, ReportOK, ReportType
    <3>2. CASE ListDue(w) \/ LockReport(w) \/ (\E reply \in Replies : CallProvider(w, reply)) \/ WatcherDies(w)
      BY <3>2 DEF ListDue, LockReport, CallProvider, WatcherDies
    <3>3. CASE ClaimReport(w)
      BY <1>0, <3>3 DEF ClaimReport, Sendable, ReportOK, ReportType
    <3>4. CASE SaveReport(w)
      <4>1. report.status # "none"
        BY <3>4 DEF SaveReport, SendInv, Calling
      <4> QED BY <1>0, <3>4, <4>1 DEF SaveReport, ReportOK, ReportType
    <3>5. CASE RecordFailure(w)
      <4> DEFINE f == FailureStatus(watcher[w].reply)
      <4>1. report' = report \/ (report.status = "sending" /\
              report' = [report EXCEPT !.status = f, !.next = now + RetryAfter])
        BY <3>5 DEF RecordFailure
      <4> HIDE DEF f
      <4> QED BY <1>0, <4>1 DEF ReportOK, ReportType
    <3>6. CASE WatchFails(w)
      BY <1>0, <3>6 DEF WatchFails, ReportOK, ReportType, SendInv, Calling
    <3> QED BY <1>8, <3>1, <3>2, <3>3, <3>4, <3>5, <3>6
  <2>2. \A v \in Watchers \ {w} : watcher'[v] = watcher[v]
    BY <1>8, WatchMessages, SlotsAssumption DEF Watch
  <2>3. PassGood(w)'
    BY <2>1 DEF PassGood, InPass
  <2>4. (report.status # "none" => now >= ReportDue /\ Told(report.message))'
    BY <1>a, <1>b, <2>5 DEF FreezeInv, Told
  <2> QED BY <1>4, <2>1, <2>2, <2>3, <2>4
<1>9. PolicyMoves \/ TimePasses \/ UNCHANGED vars => UNCHANGED <<report, watcher>>
  BY DEF PolicyMoves, Pause, StartOperation, SwitchOff, SwitchOn, TimePasses, vars
<1> QED BY <1>3, <1>5, <1>6, <1>7, <1>8, <1>9, OutsideReport DEF Next, PolicyMoves, Watch

\* The day's report is frozen when every control that the operation in force
\* reaches has ended, but for one whose scheduler was held up between the window
\* check and its claim (ensureExecution, runMonitor's order, reportDueAt).
THEOREM FrozenWhenSettled == Spec => []FrozenIsSettled
<1>1. Init => FreezeInv
  BY DEF Init, FreezeInv, PassGood, InPass, IdleWatcher, NoReport
<1>2. Typed /\ SendInv /\ FreezeInv /\ [Next]_vars => FreezeInv'
  BY FreezeStep
<1>3. FreezeInv => FrozenIsSettled
  BY DEF FreezeInv, Told, Late, FrozenIsSettled
<1> QED BY <1>1, <1>2, <1>3, TypedHolds, SendHolds, PTL DEF Spec
=============================================================================
