------------------------ MODULE ApprovalControlProofs ------------------------
EXTENDS ApprovalControl, TLAPS

(* Type correctness *)

LEMMA RunEntry ==
  ASSUME TypeOK, NEW d \in Slots, NEW m \in Modes
  PROVE  /\ run[d] \in [Modes -> Run] /\ run[d][m] \in Run
         /\ \A result \in Results : [run[d][m] EXCEPT !.result = result] \in Run
         /\ [run[d][m] EXCEPT !.started = TRUE] \in Run
         /\ [run[d][m] EXCEPT !.attempt = TRUE] \in Run
<1>1. run[d] \in [Modes -> Run]
  BY DEF TypeOK
<1>2. run[d][m] \in Run
  BY <1>1
<1> QED
  BY <1>1, <1>2 DEF Run

\* One run of the table is replaced.
LEMMA RunUpdate ==
  ASSUME TypeOK, NEW d \in Slots, NEW m \in Modes, NEW r \in Run,
         run' = [run EXCEPT ![d] = [@ EXCEPT ![m] = r]]
  PROVE  run' \in [Slots -> [Modes -> Run]]
<1>1. run[d] \in [Modes -> Run]
  BY DEF TypeOK
<1>2. [run[d] EXCEPT ![m] = r] \in [Modes -> Run]
  BY <1>1
<1> QED
  BY <1>2 DEF TypeOK

LEMMA RecordType ==
  ASSUME TypeOK, NEW d \in Slots, NEW m \in Modes, NEW result \in Results, Record(d, m, result)
  PROVE  run' \in [Slots -> [Modes -> Run]]
<1> DEFINE r == [run[d][m] EXCEPT !.result = IF @ = "none" THEN result ELSE @]
<1>1. r \in Run
  <2>1. run[d][m].result \in Results
    BY RunEntry DEF Run
  <2> QED
    BY <2>1, RunEntry
<1>2. run' = [run EXCEPT ![d] = [@ EXCEPT ![m] = r]]
  BY DEF Record
<1> QED
  BY <1>1, <1>2, RunUpdate

LEMMA DoneType ==
  ASSUME TypeOK, NEW p \in Processes, Done(p)
  PROVE  /\ step' \in [Processes -> Steps]
         /\ job' \in [Processes -> Job \cup {NoJob}]
         /\ \A q \in Processes : step'[q] # "idle" => job'[q] \in Job
         /\ transport' \in [Processes -> BOOLEAN]
         /\ verdict' \in [Processes -> Results]
         /\ admission' \in Processes \cup {Nobody, Preview}
BY DEF TypeOK, Done, Forget, Goto, LeaveAdmission, Steps, Results

LEMMA InitType == Init => TypeOK
<1> SUFFICES ASSUME Init PROVE TypeOK
  OBVIOUS
<1>1. run \in [Slots -> [Modes -> Run]]
  BY DEF Init, Run, NoRun, Results
<1>2. now \in 1..LastTime /\ control \in [enabled : BOOLEAN, revision : 0..MaxRevision, enabledAt : 0..LastTime]
  BY SlotsAssumption, BoundsAssumption DEF Init, LastTime, SlotTime
<1>3. step \in [Processes -> Steps] /\ \A p \in Processes : step[p] = "idle"
  BY DEF Init, Steps
<1>4. verdict \in [Processes -> Results] /\ called \in [Slots -> Nat]
  BY DEF Init, Results
<1>5. /\ job \in [Processes -> Job \cup {NoJob}] /\ transport \in [Processes -> BOOLEAN]
      /\ admission \in Processes \cup {Nobody, Preview}
  BY DEF Init
<1>6. activation \in 0..LastTime /\ routing \in 0..MaxRouting /\ scope \in 0..MaxScope
  BY SlotsAssumption, BoundsAssumption DEF Init, LastTime, SlotTime
<1> QED
  BY <1>1, <1>2, <1>3, <1>4, <1>5, <1>6 DEF Init, TypeOK

LEMMA ChangeType == \A enabling \in BOOLEAN : TypeOK /\ Change(enabling) => TypeOK'
<1> SUFFICES ASSUME NEW enabling \in BOOLEAN, TypeOK, Change(enabling) PROVE TypeOK'
  OBVIOUS
<1>1. off' \subseteq Slots
  BY DEF TypeOK, Change, Passed
<1> QED
  BY <1>1, BoundsAssumption DEF TypeOK, Change, local, lock

LEMMA NextType == TypeOK /\ [Next]_vars => TypeOK'
<1> SUFFICES ASSUME TypeOK, [Next]_vars PROVE TypeOK'
  OBVIOUS
<1> USE SlotsAssumption, BoundsAssumption
<1>1. ASSUME NEW p \in Processes, NEW d \in Slots, NEW m \in Modes, Due(p, d, m) PROVE TypeOK'
  <2>1. [slot |-> d, mode |-> m, revision |-> control.revision, scope |-> scope, route |-> 0] \in Job
    BY DEF TypeOK, Job
  <2> QED
    BY <1>1, <2>1 DEF TypeOK, Due, Goto, Steps, tenant, lock, history
<1>2. ASSUME NEW p \in Processes, Claim(p) PROVE TypeOK'
  <2>1. job[p].slot \in Slots /\ job[p].mode \in Modes
    BY <1>2 DEF TypeOK, Claim, Forget, Job
  <2>2. [run[job[p].slot][job[p].mode] EXCEPT !.started = TRUE] \in Run
    BY <2>1, RunEntry
  <2>3. run' \in [Slots -> [Modes -> Run]]
    BY <1>2, <2>1, <2>2, RunUpdate DEF Claim, Forget
  <2>4. lost' \subseteq Slots \X Modes
    BY <1>2, <2>1 DEF TypeOK, Claim, Forget
  <2> QED
    BY <1>2, <2>3, <2>4 DEF TypeOK, Claim, Forget, Goto, Steps, tenant, lock
<1>3. ASSUME NEW p \in Processes, ClaimRefused(p) PROVE TypeOK'
  BY <1>3 DEF TypeOK, ClaimRefused, Forget, Goto, Steps, tenant, lock, history
<1>4. ASSUME NEW p \in Processes, Admit(p) PROVE TypeOK'
  BY <1>4 DEF TypeOK, Admit, Goto, Steps, tenant, history
<1>5. ASSUME NEW p \in Processes, StartCapture(p) PROVE TypeOK'
  BY <1>5 DEF TypeOK, StartCapture, Goto, Steps, tenant, lock, history
<1>6. ASSUME NEW p \in Processes, NEW open \in BOOLEAN, EndCapture(p, open) PROVE TypeOK'
  <2>1. job[p] \in Job /\ [job[p] EXCEPT !.route = routing] \in Job
    BY <1>6 DEF TypeOK, EndCapture, Job
  <2>2. job' \in [Processes -> Job \cup {NoJob}] /\ \A q \in Processes : step'[q] # "idle" => job'[q] \in Job
    BY <1>6, <2>1 DEF TypeOK, EndCapture, Goto
  <2>3. step' \in [Processes -> Steps] /\ verdict' \in [Processes -> Results]
    BY <1>6 DEF TypeOK, EndCapture, Goto, Steps, Results
  <2> QED
    BY <1>6, <2>2, <2>3 DEF TypeOK, EndCapture, tenant, lock, history
<1>7. ASSUME NEW p \in Processes, Simulate(p) PROVE TypeOK'
  BY <1>7 DEF TypeOK, Simulate, Goto, Steps, Results, tenant, lock, history
<1>8. ASSUME NEW p \in Processes, GiveUp(p) PROVE TypeOK'
  BY <1>8 DEF TypeOK, GiveUp, Throw, Goto, LeaveAdmission, Steps, tenant, history
<1>9. ASSUME NEW p \in Processes, Attempt(p) PROVE TypeOK'
  <2>1. job[p].slot \in Slots /\ job[p].mode \in Modes
    BY <1>9 DEF TypeOK, Attempt, Job
  <2>2. [run[job[p].slot][job[p].mode] EXCEPT !.attempt = TRUE] \in Run
    BY <2>1, RunEntry
  <2>3. run' \in [Slots -> [Modes -> Run]]
    <3>1. CASE run' = [run EXCEPT ![job[p].slot][job[p].mode].attempt = TRUE]
      BY <3>1, <2>1, <2>2, RunUpdate
    <3>2. CASE UNCHANGED run
      BY <3>2 DEF TypeOK
    <3> QED
      BY <1>9, <3>1, <3>2 DEF Attempt
  <2> QED
    BY <1>9, <2>3 DEF TypeOK, Attempt, Throw, Goto, LeaveAdmission, Steps, tenant, history
<1>10. ASSUME NEW p \in Processes, NEW pass \in BOOLEAN, Preflight(p, pass) PROVE TypeOK'
  BY <1>10 DEF TypeOK, Preflight, Goto, Steps, Results, tenant, lock, history
<1>11. ASSUME NEW p \in Processes, LockControl(p) PROVE TypeOK'
  BY <1>11 DEF TypeOK, LockControl, Goto, Steps, tenant, lock, history
<1>12. ASSUME NEW p \in Processes, LockRouting(p) PROVE TypeOK'
  BY <1>12 DEF TypeOK, LockRouting, Goto, Steps, tenant, lock, history
<1>13. ASSUME NEW p \in Processes, StartTransport(p) PROVE TypeOK'
  <2>1. job[p].slot \in Slots
    BY <1>13 DEF TypeOK, StartTransport, Job
  <2>2. called' \in [Slots -> Nat]
    BY <1>13, <2>1 DEF TypeOK, StartTransport
  <2> QED
    BY <1>13, <2>2 DEF TypeOK, StartTransport, Goto, Steps, tenant, lock
<1>14. ASSUME NEW p \in Processes, Abandon(p) PROVE TypeOK'
  BY <1>14 DEF TypeOK, Abandon, Throw, Goto, LeaveAdmission, Steps, tenant, history
<1>15. ASSUME NEW p \in Processes, NEW outcome \in {"accepted", "rejected", "unclear"}, Answer(p, outcome)
       PROVE  TypeOK'
  <2>1. job[p].slot \in Slots
    BY <1>15 DEF TypeOK, Answer, Job
  <2>2. accepted' \subseteq Slots
    BY <1>15, <2>1 DEF TypeOK, Answer
  <2>3. verdict' \in [Processes -> Results]
    BY <1>15 DEF TypeOK, Answer, Results, Sent
  <2> QED
    BY <1>15, <2>2, <2>3 DEF TypeOK, Answer, Goto, Steps, tenant, lock
<1>16. ASSUME NEW p \in Processes, Finish(p) PROVE TypeOK'
  <2>1. job[p].slot \in Slots /\ job[p].mode \in Modes /\ verdict[p] \in Results
    BY <1>16 DEF TypeOK, Finish, Job
  <2> QED
    BY <1>16, <2>1, RecordType, DoneType DEF TypeOK, Finish, tenant, history
<1>17. ASSUME NEW p \in Processes, FinishFails(p) PROVE TypeOK'
  <2>1. job[p].slot \in Slots /\ job[p].mode \in Modes /\ verdict[p] \in Results
    BY <1>17 DEF TypeOK, FinishFails, Job
  <2>2. run' \in [Slots -> [Modes -> Run]]
    BY <1>17, <2>1, RecordType DEF TypeOK, FinishFails
  <2> QED
    BY <1>17, <2>2 DEF TypeOK, FinishFails, Throw, Goto, LeaveAdmission, Steps, tenant, history
<1>18. ASSUME NEW p \in Processes, Catch(p) PROVE TypeOK'
  <2>1. job[p].slot \in Slots /\ job[p].mode \in Modes
    BY <1>18 DEF TypeOK, Catch, Job
  <2>2. \E result \in Results : Record(job[p].slot, job[p].mode, result)
    BY <1>18 DEF Catch, Results, Sent
  <2> QED
    BY <1>18, <2>1, <2>2, RecordType, DoneType DEF TypeOK, Catch, tenant, history
<1>19. ASSUME NEW p \in Processes, Die(p) PROVE TypeOK'
  <2>1. job[p].slot \in Slots /\ job[p].mode \in Modes
    BY <1>19 DEF TypeOK, Die, Job
  <2>2. lost' \subseteq Slots \X Modes
    BY <1>19, <2>1 DEF TypeOK, Die
  <2> QED
    BY <1>19, <2>2, DoneType DEF TypeOK, Die, tenant
<1>20. ASSUME NEW enabling \in BOOLEAN, Change(enabling) PROVE TypeOK'
  BY <1>20, ChangeType
<1>21. ASSUME ChangeRouting \/ ChangeScope PROVE TypeOK'
  BY <1>21 DEF TypeOK, ChangeRouting, ChangeScope, lock, local, history
<1>22. ASSUME StartPreview \/ EndPreview \/ PreviewNothing \/ CooldownEnds PROVE TypeOK'
  BY <1>22 DEF TypeOK, StartPreview, EndPreview, PreviewNothing, CooldownEnds, tenant, local, history
<1>23. ASSUME PassTime PROVE TypeOK'
  <2>1. off' \subseteq Slots
    BY <1>23 DEF TypeOK, PassTime, Passed
  <2> QED
    BY <1>23, <2>1 DEF TypeOK, PassTime, LastTime, SlotTime, tenant, lock, local
<1>24. CASE UNCHANGED vars
  BY <1>24 DEF TypeOK, vars, tenant, lock, local, history
<1> QED
  BY <1>1, <1>2, <1>3, <1>4, <1>5, <1>6, <1>7, <1>8, <1>9, <1>10, <1>11, <1>12, <1>13, <1>14, <1>15,
     <1>16, <1>17, <1>18, <1>19, <1>20, <1>21, <1>22, <1>23, <1>24 DEF Next, Work, Environment

\* Every variable keeps its shape, for any set of processes, days and modes.
THEOREM TypeCorrect == Spec => []TypeOK
BY InitType, NextType, PTL DEF Spec
-----------------------------------------------------------------------------
(* The inductive invariant *)

Before == {"claimed", "admitted", "capturing", "prepared"}
Trying == {"attempted", "cleared", "locked", "routed"}

\* The process works on a run it has started.
Working(p) == step[p] \notin {"idle", "due"}

SameRun(p, q) == job[p].slot = job[q].slot /\ job[p].mode = job[q].mode

\* Nobody else works on the run of p.
Apart(p) == \A q \in Processes \ {p} : Working(q) => ~SameRun(p, q)

\* What p is about to record of a mail it gave to the provider.
Told(p) ==
  /\ verdict[p] \in Sent
  /\ verdict[p] = "provider_accepted" => job[p].slot \in accepted
  /\ verdict[p] = "provider_rejected" => job[p].slot \notin accepted

\* Where p stands, its run and the history agree.
Inside(p) ==
  /\ RunOf(p).started
  /\ step[p] \in Before \cup Trying \cup {"sending"} => RunOf(p).result = "none" /\ verdict[p] = "none"
  /\ step[p] \in Before => ~RunOf(p).attempt
  /\ step[p] \in Trying \cup {"sending"} => job[p].mode = "live" /\ RunOf(p).attempt
  /\ step[p] \in Before \cup Trying => ~transport[p]
  /\ step[p] = "sending" => transport[p] /\ job[p].slot \notin accepted
  /\ IF transport[p]
       THEN job[p].mode = "live" /\ called[job[p].slot] = 1 /\ (step[p] # "sending" => Told(p))
       ELSE verdict[p] \notin Sent /\ (job[p].mode = "live" => called[job[p].slot] = 0)

Phase(p) == IF Working(p) THEN Inside(p) ELSE ~transport[p] /\ verdict[p] = "none"

\* The record of a slot agrees with what happened to its mail.
SlotOK(d) ==
  /\ \A m \in Modes : run[d][m].attempt \/ run[d][m].result # "none" => run[d][m].started
  /\ called[d] <= 1
  /\ called[d] > 0 => run[d]["live"].attempt /\ run[d]["live"].result \in Sent \cup {"none"}
  /\ d \in accepted => called[d] > 0 /\ run[d]["live"].result # "provider_rejected"
  /\ run[d]["live"].result = "provider_accepted" => d \in accepted

IInv ==
  /\ TypeOK
  /\ \A p \in Processes : Working(p) => Apart(p)
  /\ \A p \in Processes : Phase(p)
  /\ \A d \in Slots : SlotOK(d)

\* What a process at work is at.
LEMMA AtWork ==
  ASSUME TypeOK, NEW p \in Processes, step[p] # "idle"
  PROVE  /\ job[p] \in Job /\ job[p].slot \in Slots /\ job[p].mode \in Modes
         /\ RunOf(p) \in Run
<1>1. job[p] \in Job /\ job[p].slot \in Slots /\ job[p].mode \in Modes
  BY DEF TypeOK, Job
<1> QED
  BY <1>1, RunEntry DEF RunOf

LEMMA InitInv == Init => IInv
<1> SUFFICES ASSUME Init PROVE IInv
  OBVIOUS
<1>1. TypeOK
  BY InitType
<1>2. \A p \in Processes : ~Working(p) /\ Phase(p)
  BY DEF Init, Working, Phase
<1>3. \A d \in Slots : SlotOK(d)
  BY ModesAssumption DEF Init, SlotOK, NoRun
<1> QED
  BY <1>1, <1>2, <1>3 DEF IInv

\* Only p moves.
Others(p) ==
  \A q \in Processes \ {p} :
    step'[q] = step[q] /\ job'[q] = job[q] /\ transport'[q] = transport[q] /\ verdict'[q] = verdict[q]

\* Run and history change, if at all, in the run of p.
OwnRunOnly(p) ==
  /\ \A d \in Slots, m \in Modes : ~(d = job[p].slot /\ m = job[p].mode) => run'[d][m] = run[d][m]
  /\ \A d \in Slots : ~(d = job[p].slot /\ job[p].mode = "live") =>
       called'[d] = called[d] /\ (d \in accepted' <=> d \in accepted)

\* A step of p inside its own run leaves the others' runs as they were.
LEMMA OwnStep ==
  ASSUME IInv, TypeOK', NEW p \in Processes, Apart(p), step[p] # "idle", Others(p), OwnRunOnly(p),
         Working(p)' => job'[p].slot = job[p].slot /\ job'[p].mode = job[p].mode,
         Phase(p)', \A d \in Slots : d = job[p].slot => SlotOK(d)'
  PROVE  IInv'
<1>0. job[p].slot \in Slots /\ job[p].mode \in Modes
  BY AtWork DEF IInv
<1>1. \A q \in Processes \ {p} : Working(q)' <=> Working(q)
  BY DEF Others, Working
<1>2. \A q \in Processes : Working(q)' => Apart(q)'
  <2> SUFFICES ASSUME NEW q \in Processes, NEW r \in Processes, r # q, Working(q)', Working(r)'
               PROVE  ~SameRun(q, r)'
    BY DEF Apart, SameRun
  <2>1. CASE q = p
    BY <2>1, <1>1 DEF Apart, SameRun, Others
  <2>2. CASE r = p
    BY <2>2, <1>1 DEF Apart, SameRun, Others
  <2>3. CASE q # p /\ r # p
    BY <2>3, <1>1 DEF IInv, Apart, SameRun, Others
  <2> QED
    BY <2>1, <2>2, <2>3
<1>3. \A q \in Processes : Phase(q)'
  <2> SUFFICES ASSUME NEW q \in Processes \ {p} PROVE Phase(q)'
    OBVIOUS
  <2>1. CASE ~Working(q)
    BY <2>1, <1>1 DEF IInv, Phase, Others
  <2>2. CASE Working(q)
    <3>1. job[q].slot \in Slots /\ job[q].mode \in Modes /\ ~SameRun(p, q)
      BY <2>2, AtWork DEF IInv, Apart, SameRun, Working
    <3>2. run'[job[q].slot][job[q].mode] = run[job[q].slot][job[q].mode]
      BY <3>1 DEF OwnRunOnly, SameRun
    <3>3. job[q].mode = "live" => /\ called'[job[q].slot] = called[job[q].slot]
                                  /\ job[q].slot \in accepted' <=> job[q].slot \in accepted
      BY <3>1 DEF OwnRunOnly, SameRun
    <3>4. /\ step'[q] = step[q] /\ job'[q] = job[q] /\ transport'[q] = transport[q] /\ verdict'[q] = verdict[q]
          /\ Inside(q)
      BY <2>2 DEF Others, IInv, Phase
    <3>5. Inside(q)'
      BY <3>2, <3>3, <3>4 DEF Inside, Told, RunOf
    <3> QED
      BY <3>5, <2>2, <1>1 DEF Phase
  <2> QED
    BY <2>1, <2>2
<1>4. \A d \in Slots : SlotOK(d)'
  <2> SUFFICES ASSUME NEW d \in Slots, d # job[p].slot PROVE SlotOK(d)'
    OBVIOUS
  <2>1. called'[d] = called[d] /\ (d \in accepted' <=> d \in accepted) /\ \A m \in Modes : run'[d][m] = run[d][m]
    BY DEF OwnRunOnly
  <2> QED
    BY <2>1, ModesAssumption DEF IInv, SlotOK
<1> QED
  BY <1>2, <1>3, <1>4 DEF IInv

\* A step that leaves runs and history alone.
LEMMA QuietStep ==
  ASSUME IInv, TypeOK', NEW p \in Processes, Others(p),
         run' = run, called' = called, accepted' = accepted,
         Working(p)' => Working(p) /\ job'[p].slot = job[p].slot /\ job'[p].mode = job[p].mode, Phase(p)'
  PROVE  IInv'
<1>1. \A q \in Processes : Working(q)' => Apart(q)'
  <2> SUFFICES ASSUME NEW q \in Processes, NEW r \in Processes, r # q, Working(q)', Working(r)'
               PROVE  ~SameRun(q, r)'
    BY DEF Apart, SameRun
  <2>1. Working(q) /\ Working(r)
    BY DEF Working, Others
  <2>2. ~SameRun(q, r)
    BY <2>1 DEF IInv, Apart
  <2> QED
    BY <2>2 DEF SameRun, Others
<1>2. \A q \in Processes : Phase(q)'
  <2> SUFFICES ASSUME NEW q \in Processes \ {p} PROVE Phase(q)'
    OBVIOUS
  <2> QED
    BY DEF IInv, Phase, Inside, Told, RunOf, Working, Others
<1>3. \A d \in Slots : SlotOK(d)'
  BY DEF IInv, SlotOK
<1> QED
  BY <1>1, <1>2, <1>3 DEF IInv

\* Administrators, previews and time leave the processes, runs and history alone.
LEMMA EnvironmentStep ==
  ASSUME IInv, TypeOK', UNCHANGED <<run, local, called, accepted>>
  PROVE  IInv'
<1>1. \A q \in Processes : (Working(q)' <=> Working(q)) /\ (Phase(q)' <=> Phase(q)) /\ (Apart(q)' <=> Apart(q))
  BY DEF Phase, Inside, Told, RunOf, Working, Apart, SameRun, local
<1>2. \A d \in Slots : SlotOK(d)' <=> SlotOK(d)
  BY DEF SlotOK
<1> QED
  BY <1>1, <1>2 DEF IInv

\* p works on its own, on a run that is its own.
LEMMA Worker ==
  ASSUME IInv, NEW p \in Processes, Working(p)
  PROVE  Apart(p) /\ Inside(p) /\ SlotOK(job[p].slot)
BY AtWork DEF IInv, Phase, Working

LEMMA ClaimKeeps ==
  ASSUME IInv, TypeOK', NEW p \in Processes, Claim(p)
  PROVE  IInv'
<1> DEFINE d == job[p].slot
           m == job[p].mode
<1>1. d \in Slots /\ m \in Modes /\ run[d] \in [Modes -> Run] /\ run[d][m] \in Run
  BY AtWork, RunEntry DEF IInv, Claim, Forget
<1>2. /\ run' = [run EXCEPT ![d][m].started = TRUE] /\ ~run[d][m].started
      /\ step[p] = "due" /\ (step'[p] = "claimed" \/ step'[p] = "idle") /\ Others(p)
      /\ step'[p] = "claimed" => job' = job
      /\ called' = called /\ accepted' = accepted /\ transport' = transport /\ verdict' = verdict
  BY DEF IInv, TypeOK, Claim, Forget, Goto, Others
<1>3. /\ run'[d][m] = [run[d][m] EXCEPT !.started = TRUE]
      /\ \A e \in Slots, n \in Modes : ~(e = d /\ n = m) => run'[e][n] = run[e][n]
  BY <1>1, <1>2 DEF IInv, TypeOK
<1>4. Apart(p)
  <2> SUFFICES ASSUME NEW q \in Processes, Working(q), SameRun(p, q) PROVE FALSE
    BY DEF Apart
  <2>1. RunOf(q).started
    BY Worker DEF Inside
  <2> QED
    BY <2>1, <1>2 DEF SameRun, RunOf
<1>5. ~run[d][m].attempt /\ run[d][m].result = "none" /\ (m = "live" => called[d] = 0 /\ d \notin accepted)
  <2>1. SlotOK(d)
    BY <1>1 DEF IInv
  <2>2. called[d] \in Nat
    BY <1>1 DEF IInv, TypeOK
  <2> QED
    BY <1>1, <1>2, <2>1, <2>2 DEF SlotOK
<1>6. ~transport[p] /\ verdict[p] = "none"
  BY <1>2 DEF IInv, Phase, Working
<1>7. /\ run'[d][m].started /\ run'[d][m].attempt = run[d][m].attempt /\ run'[d][m].result = run[d][m].result
  BY <1>1, <1>3 DEF Run
<1>8. Phase(p)'
  BY <1>1, <1>2, <1>5, <1>6, <1>7 DEF Phase, Inside, Told, RunOf, Working, Before, Trying, Sent
<1>9. ASSUME NEW e \in Slots, e = d PROVE SlotOK(e)'
  <2>1. SlotOK(e) /\ "live" \in Modes
    BY <1>9, <1>1, ModesAssumption DEF IInv
  <2>2. \A n \in Modes : run'[e][n].attempt = run[e][n].attempt /\ run'[e][n].result = run[e][n].result
    <3> SUFFICES ASSUME NEW n \in Modes
                 PROVE  run'[e][n].attempt = run[e][n].attempt /\ run'[e][n].result = run[e][n].result
      OBVIOUS
    <3>1. CASE n = m
      BY <3>1, <1>7, <1>9
    <3>2. CASE n # m
      BY <3>2, <1>1, <1>3, <1>9
    <3> QED
      BY <3>1, <3>2
  <2>3. \A n \in Modes : run[e][n].started => run'[e][n].started
    <3> SUFFICES ASSUME NEW n \in Modes, run[e][n].started PROVE run'[e][n].started
      OBVIOUS
    <3>1. CASE n = m
      BY <3>1, <1>7, <1>9
    <3>2. CASE n # m
      BY <3>2, <1>1, <1>3, <1>9
    <3> QED
      BY <3>1, <3>2
  <2>4. \A n \in Modes : run'[e][n].attempt \/ run'[e][n].result # "none" => run'[e][n].started
    BY <2>1, <2>2, <2>3 DEF SlotOK
  <2>5. run'[e]["live"].attempt = run[e]["live"].attempt /\ run'[e]["live"].result = run[e]["live"].result
    BY <2>1, <2>2
  <2> QED
    BY <2>1, <2>4, <2>5, <1>2 DEF SlotOK
<1>10. OwnRunOnly(p)
  BY <1>2, <1>3 DEF OwnRunOnly
<1>11. Working(p)' => job'[p].slot = d /\ job'[p].mode = m
  BY <1>2 DEF Working
<1> QED
  BY <1>1, <1>2, <1>4, <1>8, <1>9, <1>10, <1>11, OwnStep

LEMMA AttemptKeeps ==
  ASSUME IInv, TypeOK', NEW p \in Processes, Attempt(p)
  PROVE  IInv'
<1> DEFINE d == job[p].slot
           m == job[p].mode
<1>1. /\ Working(p) /\ Apart(p) /\ Inside(p) /\ SlotOK(d) /\ step[p] = "prepared" /\ m = "live"
      /\ d \in Slots /\ m \in Modes /\ run[d] \in [Modes -> Run] /\ run[d][m] \in Run
  BY Worker, AtWork, RunEntry DEF IInv, Attempt, Working
<1>2. ~RunOf(p).attempt /\ RunOf(p).result = "none" /\ ~transport[p] /\ called[d] = 0 /\ verdict[p] = "none" /\ RunOf(p).started
  BY <1>1 DEF Inside, Before
<1>3. /\ run' = [run EXCEPT ![d][m].attempt = TRUE] /\ step'[p] = "attempted" /\ Others(p)
      /\ job' = job /\ called' = called /\ accepted' = accepted /\ transport' = transport /\ verdict' = verdict
  BY <1>2 DEF IInv, TypeOK, Attempt, Goto, Others, history
<1>4. /\ run'[d][m] = [run[d][m] EXCEPT !.attempt = TRUE]
      /\ \A e \in Slots, n \in Modes : ~(e = d /\ n = m) => run'[e][n] = run[e][n]
  BY <1>1, <1>3 DEF IInv, TypeOK
<1>5. /\ run'[d][m].attempt /\ run'[d][m].started = run[d][m].started /\ run'[d][m].result = run[d][m].result
  BY <1>1, <1>4 DEF Run
<1>6. Phase(p)'
  BY <1>1, <1>2, <1>3, <1>5 DEF Phase, Inside, Told, RunOf, Working, Before, Trying, Sent
<1>7. SlotOK(d)'
  BY <1>1, <1>2, <1>3, <1>4, <1>5, ModesAssumption DEF SlotOK, RunOf
<1>8. OwnRunOnly(p)
  BY <1>3, <1>4 DEF OwnRunOnly
<1> QED
  BY <1>1, <1>3, <1>6, <1>7, <1>8, OwnStep DEF Working

LEMMA StartTransportKeeps ==
  ASSUME IInv, TypeOK', NEW p \in Processes, StartTransport(p)
  PROVE  IInv'
<1> DEFINE d == job[p].slot
<1>1. /\ Working(p) /\ Apart(p) /\ Inside(p) /\ SlotOK(d) /\ step[p] = "routed" /\ d \in Slots /\ job[p].mode \in Modes
  BY Worker, AtWork DEF IInv, StartTransport, Working
<1>2. /\ RunOf(p).attempt /\ RunOf(p).result = "none" /\ RunOf(p).started /\ job[p].mode = "live"
      /\ called[d] = 0 /\ verdict[p] = "none" /\ d \notin accepted
  BY <1>1 DEF Inside, Trying, SlotOK
<1>3. /\ step'[p] = "sending" /\ transport'[p] = TRUE /\ called'[d] = 1 /\ Others(p)
      /\ \A e \in Slots : e # d => called'[e] = called[e]
      /\ run' = run /\ job' = job /\ accepted' = accepted /\ verdict' = verdict
  BY <1>1, <1>2 DEF IInv, TypeOK, StartTransport, Goto, Others
<1>4. Phase(p)'
  BY <1>2, <1>3 DEF Phase, Inside, RunOf, Working, Before, Trying
<1>5. SlotOK(d)'
  BY <1>1, <1>2, <1>3 DEF SlotOK, RunOf
<1>6. OwnRunOnly(p)
  BY <1>2, <1>3 DEF OwnRunOnly
<1> QED
  BY <1>1, <1>3, <1>4, <1>5, <1>6, OwnStep DEF Working

LEMMA AnswerKeeps ==
  ASSUME IInv, TypeOK', NEW p \in Processes, NEW outcome \in {"accepted", "rejected", "unclear"}, Answer(p, outcome)
  PROVE  IInv'
<1> DEFINE d == job[p].slot
<1>1. /\ Working(p) /\ Apart(p) /\ Inside(p) /\ SlotOK(d) /\ step[p] = "sending" /\ d \in Slots /\ job[p].mode \in Modes
  BY Worker, AtWork DEF IInv, Answer, Working
<1>2. /\ RunOf(p).attempt /\ RunOf(p).result = "none" /\ RunOf(p).started /\ job[p].mode = "live"
      /\ called[d] = 1 /\ transport[p] /\ d \notin accepted
  BY <1>1 DEF Inside
<1>3. /\ step'[p] = "finishing" /\ Others(p)
      /\ run' = run /\ job' = job /\ called' = called /\ transport' = transport
      /\ \A e \in Slots : e # d => (e \in accepted' <=> e \in accepted)
      /\ verdict'[p] = CASE outcome = "accepted" -> "provider_accepted"
                         [] outcome = "rejected" -> "provider_rejected"
                         [] outcome = "unclear"  -> "provider_unclear"
      /\ outcome = "accepted" => d \in accepted'
      /\ outcome = "rejected" => d \notin accepted'
  BY <1>1, <1>2 DEF IInv, TypeOK, Answer, Goto, Others
<1>4. Told(p)'
  BY <1>3 DEF Told, Sent
<1>5. Phase(p)'
  BY <1>2, <1>3, <1>4 DEF Phase, Inside, RunOf, Working, Before, Trying
<1>6. SlotOK(d)'
  BY <1>1, <1>2, <1>3 DEF SlotOK, RunOf
<1>7. OwnRunOnly(p)
  BY <1>2, <1>3 DEF OwnRunOnly
<1> QED
  BY <1>1, <1>3, <1>5, <1>6, <1>7, OwnStep DEF Working

\* The first result of a run is what its process knows of the mail.
LEMMA RecordKeeps ==
  ASSUME IInv, TypeOK', NEW p \in Processes, NEW result \in Results, Working(p), Others(p),
         Record(job[p].slot, job[p].mode, result), called' = called, accepted' = accepted,
         IF transport[p] THEN result = verdict[p] ELSE result \notin Sent,
         step[p] # "sending", step'[p] \in {"idle", "caught"},
         step'[p] = "caught" => job' = job /\ transport' = transport /\ verdict' = verdict,
         step'[p] = "idle" => ~transport'[p] /\ verdict'[p] = "none",
         step[p] \in {"finishing", "caught"}
  PROVE  IInv'
<1> DEFINE d == job[p].slot
           m == job[p].mode
<1>1. /\ Apart(p) /\ Inside(p) /\ SlotOK(d)
      /\ d \in Slots /\ m \in Modes /\ run[d] \in [Modes -> Run] /\ run[d][m] \in Run
  BY Worker, AtWork, RunEntry DEF IInv, Working
<1>2. /\ run'[d][m] = [run[d][m] EXCEPT !.result = IF @ = "none" THEN result ELSE @]
      /\ \A e \in Slots, n \in Modes : ~(e = d /\ n = m) => run'[e][n] = run[e][n]
  BY <1>1 DEF IInv, TypeOK, Record
<1>3. /\ run'[d][m].attempt = run[d][m].attempt /\ run'[d][m].started = run[d][m].started
      /\ run'[d][m].result = IF run[d][m].result = "none" THEN result ELSE run[d][m].result
  BY <1>1, <1>2 DEF Run
<1>4. run[d][m].started
  BY <1>1 DEF Inside, RunOf
<1>5. Phase(p)'
  <2>1. CASE step'[p] = "idle"
    BY <2>1 DEF Phase, Working
  <2>2. CASE step'[p] = "caught"
    <3>1. Inside(p)'
      BY <2>2, <1>1, <1>3 DEF Inside, Told, RunOf, Before, Trying
    <3> QED
      BY <3>1, <2>2 DEF Phase, Working
  <2> QED
    BY <2>1, <2>2
<1>6. ASSUME NEW e \in Slots, e = d PROVE SlotOK(e)'
  <2>1. SlotOK(e) /\ "live" \in Modes
    BY <1>1, <1>6, ModesAssumption
  <2>2. \A n \in Modes : run'[e][n].attempt \/ run'[e][n].result # "none" => run'[e][n].started
    <3> SUFFICES ASSUME NEW n \in Modes, run'[e][n].attempt \/ run'[e][n].result # "none"
                 PROVE  run'[e][n].started
      OBVIOUS
    <3>1. CASE n = m
      BY <3>1, <1>3, <1>4, <1>6
    <3>2. CASE n # m
      <4>1. run'[e][n] = run[e][n]
        BY <3>2, <1>2
      <4> QED
        BY <4>1, <2>1 DEF SlotOK
    <3> QED
      BY <3>1, <3>2
  <2>3. CASE m # "live"
    <3>1. run'[e]["live"] = run[e]["live"]
      BY <2>1, <2>3, <1>2
    <3> QED
      BY <3>1, <2>1, <2>2 DEF SlotOK
  <2>4. CASE m = "live" /\ transport[p]
    <3>1. called[d] = 1 /\ Told(p) /\ result = verdict[p] /\ Inside(p)
      BY <2>4, <1>1 DEF Inside
    <3>2. result \in Sent /\ (result = "provider_accepted" => e \in accepted) /\ (result = "provider_rejected" => e \notin accepted)
      BY <3>1, <1>6 DEF Told
    <3> QED
      BY <3>1, <3>2, <2>1, <2>2, <2>4, <1>3, <1>6 DEF SlotOK
  <2>5. CASE m = "live" /\ ~transport[p]
    <3>1. called[e] = 0 /\ result # "provider_accepted"
      BY <2>5, <1>1, <1>6 DEF Inside, Sent
    <3>2. run'[e]["live"].result = "provider_accepted" => run[e]["live"].result = "provider_accepted"
      BY <3>1, <2>5, <1>3, <1>6
    <3> QED
      BY <3>1, <3>2, <2>1, <2>2 DEF SlotOK
  <2> QED
    BY <2>3, <2>4, <2>5
<1>7. OwnRunOnly(p)
  BY <1>2 DEF OwnRunOnly
<1>8. Working(p)' => job'[p].slot = d /\ job'[p].mode = m
  BY DEF Working
<1> QED
  BY <1>1, <1>5, <1>6, <1>7, <1>8, OwnStep DEF Working

LEMMA ConcludingKeeps ==
  ASSUME IInv, TypeOK', NEW p \in Processes, Finish(p) \/ FinishFails(p) \/ Catch(p)
  PROVE  IInv'
<1>1. /\ Working(p) /\ Inside(p) /\ step[p] \in {"finishing", "caught"}
      /\ verdict[p] \in Results /\ called' = called /\ accepted' = accepted
  BY Worker DEF IInv, TypeOK, Finish, FinishFails, Catch, Working, history
<1>2. (transport[p] => verdict[p] \in Sent) /\ (~transport[p] => verdict[p] \notin Sent)
  BY <1>1 DEF Inside, Told
<1>3. ASSUME Done(p)
      PROVE  Others(p) /\ step'[p] = "idle" /\ ~transport'[p] /\ verdict'[p] = "none"
  BY <1>3 DEF IInv, TypeOK, Done, Forget, Goto, Others
<1>4. CASE Finish(p)
  <2>1. Record(job[p].slot, job[p].mode, verdict[p]) /\ Done(p)
    BY <1>4 DEF Finish
  <2> QED
    BY <1>1, <1>2, <1>3, <2>1, RecordKeeps
<1>5. CASE FinishFails(p)
  <2>1. /\ Others(p) /\ step'[p] = "caught" /\ job' = job /\ transport' = transport /\ verdict' = verdict
    BY <1>5 DEF IInv, TypeOK, FinishFails, Throw, Goto, Others
  <2>2. CASE Record(job[p].slot, job[p].mode, verdict[p])
    BY <1>1, <1>2, <2>1, <2>2, RecordKeeps
  <2>3. CASE UNCHANGED run
    <3>1. Phase(p)'
      BY <1>1, <2>1, <2>3 DEF Phase, Inside, Told, RunOf, Working, Before, Trying
    <3> QED
      BY <1>1, <2>1, <2>3, <3>1, QuietStep
  <2> QED
    BY <1>5, <2>2, <2>3 DEF FinishFails
<1>6. CASE Catch(p)
  <2> DEFINE result == IF verdict[p] \in Sent THEN verdict[p]
                       ELSE IF transport[p] THEN "provider_unclear"
                       ELSE IF RunOf(p).attempt \/ ~ControlUnchanged(p) THEN "blocked"
                       ELSE "failed"
  <2>1. Record(job[p].slot, job[p].mode, result) /\ Done(p)
    BY <1>6 DEF Catch
  <2>2. result \in Results /\ IF transport[p] THEN result = verdict[p] ELSE result \notin Sent
    BY <1>1, <1>2 DEF Results, Sent
  <2> QED
    BY <1>1, <1>3, <2>1, <2>2, RecordKeeps
<1> QED
  BY <1>4, <1>5, <1>6

\* p moves on without touching run or history.
Moves(p) ==
  /\ step[p] \in Before \cup Trying /\ run' = run /\ called' = called /\ accepted' = accepted /\ transport' = transport
  /\ step'[p] \in {"admitted", "capturing", "prepared", "finishing", "caught", "cleared", "locked", "routed"}
  /\ Others(p) /\ job'[p].slot = job[p].slot /\ job'[p].mode = job[p].mode
  /\ step[p] \in Before => step'[p] \in Before \cup {"finishing", "caught"}
  /\ step[p] \in Trying => step'[p] \in Trying \cup {"finishing", "caught"}
  /\ step'[p] \in Before \cup Trying => verdict' = verdict
  /\ verdict'[p] = verdict[p] \/ verdict'[p] \in {"no_open", "simulated", "blocked"}

\* Steps between claim and result that write neither run nor history.
LEMMA MovingKeeps ==
  ASSUME IInv, TypeOK', NEW p \in Processes,
         \/ Admit(p) \/ StartCapture(p) \/ Simulate(p) \/ GiveUp(p)
         \/ LockControl(p) \/ LockRouting(p) \/ Abandon(p)
         \/ \E open \in BOOLEAN : EndCapture(p, open)
         \/ \E pass \in BOOLEAN : Preflight(p, pass)
  PROVE  IInv'
<1>1. Moves(p)
  <2>0. job[p] \in Job \/ step[p] = "idle"
    BY DEF IInv, TypeOK
  <2>1. CASE Admit(p) \/ StartCapture(p) \/ LockControl(p) \/ LockRouting(p)
    BY <2>1 DEF Moves, IInv, TypeOK, Admit, StartCapture, LockControl, LockRouting, Goto, Others, Before, Trying, history
  <2>2. CASE Simulate(p)
    BY <2>2 DEF Moves, IInv, TypeOK, Simulate, Goto, Others, Before, Trying, history
  <2>3. CASE GiveUp(p) \/ Abandon(p)
    BY <2>3 DEF Moves, IInv, TypeOK, GiveUp, Abandon, Throw, Goto, Others, Before, Trying, history
  <2>4. ASSUME NEW open \in BOOLEAN, EndCapture(p, open)
        PROVE  Moves(p)
    BY <2>0, <2>4 DEF Moves, IInv, TypeOK, EndCapture, Goto, Others, Before, Trying, history, Job
  <2>5. ASSUME NEW pass \in BOOLEAN, Preflight(p, pass)
        PROVE  Moves(p)
    BY <2>5 DEF Moves, IInv, TypeOK, Preflight, Goto, Others, Before, Trying, history
  <2> QED
    BY <2>1, <2>2, <2>3, <2>4, <2>5
<1>2. Working(p) /\ Inside(p)
  BY <1>1, Worker DEF Moves, Working, Before, Trying
<1>3. Working(p)' /\ RunOf(p)' = RunOf(p)
  BY <1>1 DEF Moves, Working, RunOf, Before, Trying
<1>4. Inside(p)'
  BY <1>1, <1>2, <1>3 DEF Moves, Inside, Before, Trying, Sent
<1> QED
  BY <1>1, <1>2, <1>3, <1>4, QuietStep DEF Moves, Phase

LEMMA NextInv == IInv /\ [Next]_vars => IInv'
<1> SUFFICES ASSUME IInv, [Next]_vars PROVE IInv'
  OBVIOUS
<1>1. TypeOK'
  BY NextType DEF IInv
<1>2. ASSUME NEW p \in Processes, NEW d \in Slots, NEW m \in Modes, Due(p, d, m) PROVE IInv'
  <2>1. /\ step'[p] = "due" /\ Others(p) /\ run' = run /\ called' = called /\ accepted' = accepted
        /\ transport' = transport /\ verdict' = verdict /\ step[p] = "idle"
    BY <1>2 DEF IInv, TypeOK, Due, Goto, Others, history
  <2>2. Phase(p)' /\ ~Working(p)'
    BY <2>1 DEF IInv, Phase, Working
  <2> QED
    BY <1>1, <2>1, <2>2, QuietStep
<1>3. ASSUME NEW p \in Processes, ClaimRefused(p) PROVE IInv'
  <2>1. /\ step'[p] = "idle" /\ Others(p) /\ run' = run /\ called' = called /\ accepted' = accepted
        /\ transport' = transport /\ verdict' = verdict /\ step[p] = "due"
    BY <1>3 DEF IInv, TypeOK, ClaimRefused, Forget, Goto, Others, history
  <2>2. Phase(p)' /\ ~Working(p)'
    BY <2>1 DEF IInv, Phase, Working
  <2> QED
    BY <1>1, <2>1, <2>2, QuietStep
<1>4. ASSUME NEW p \in Processes, Die(p) PROVE IInv'
  <2>1. /\ step'[p] = "idle" /\ Others(p) /\ run' = run /\ called' = called /\ accepted' = accepted
        /\ ~transport'[p] /\ verdict'[p] = "none"
    BY <1>4 DEF IInv, TypeOK, Die, Done, Forget, Goto, Others
  <2>2. Phase(p)' /\ ~Working(p)'
    BY <2>1 DEF Phase, Working
  <2> QED
    BY <1>1, <2>1, <2>2, QuietStep
<1>5. ASSUME NEW p \in Processes, Work(p) PROVE IInv'
  BY <1>1, <1>3, <1>5, ClaimKeeps, AttemptKeeps, StartTransportKeeps, AnswerKeeps, ConcludingKeeps, MovingKeeps DEF Work
<1>6. CASE Environment
  BY <1>1, <1>6, EnvironmentStep
     DEF history, Environment, Change, ChangeRouting, ChangeScope, StartPreview, EndPreview, PreviewNothing, CooldownEnds, PassTime
<1>7. CASE UNCHANGED vars
  BY <1>1, <1>7, EnvironmentStep DEF vars, history
<1> QED
  BY <1>2, <1>4, <1>5, <1>6, <1>7 DEF Next

LEMMA InvariantHolds == Spec => []IInv
BY InitInv, NextInv, PTL DEF Spec

-----------------------------------------------------------------------------
(* No run is forgotten. *)

\* p has a run in hand, this one.
AtRun(p, d, m) == step[p] \notin {"idle", "due"} /\ job[p].slot = d /\ job[p].mode = m

\* Who is about to record a result has one.
Decided == \A p \in Processes : step[p] = "finishing" => verdict[p] # "none"

\* What a step of p must leave behind in its own run, if it lets go of it.
LEMMA HandedOver ==
  ASSUME TypeOK, NoRunForgotten, NEW p \in Processes, step[p] # "idle",
         \A q \in Processes \ {p} : step'[q] = step[q] /\ job'[q] = job[q],
         \A d \in Slots, m \in Modes : ~(d = job[p].slot /\ m = job[p].mode) =>
            run'[d][m].started = run[d][m].started /\ run'[d][m].result = run[d][m].result,
         lost \subseteq lost',
         \A d \in Slots, m \in Modes : d = job[p].slot /\ m = job[p].mode /\ run'[d][m].started /\ run'[d][m].result = "none" =>
            \/ <<d, m>> \in lost'
            \/ AtRun(p, d, m)'
            \/ run[d][m].started /\ run[d][m].result = "none" /\ ~AtRun(p, d, m)
  PROVE  NoRunForgotten'
<1> SUFFICES ASSUME NEW d \in Slots, NEW m \in Modes, run'[d][m].started, run'[d][m].result = "none",
                    <<d, m>> \notin lost'
             PROVE  \E q \in Processes : AtRun(q, d, m)'
  BY DEF NoRunForgotten, AtRun
<1>1. CASE d = job[p].slot /\ m = job[p].mode /\ AtRun(p, d, m)'
  BY <1>1
<1>2. CASE ~(d = job[p].slot /\ m = job[p].mode /\ AtRun(p, d, m)')
  <2>1. run[d][m].started /\ run[d][m].result = "none" /\ ~AtRun(p, d, m) /\ <<d, m>> \notin lost
    BY <1>2 DEF AtRun
  <2>2. PICK q \in Processes : AtRun(q, d, m)
    BY <2>1 DEF NoRunForgotten, AtRun
  <2>3. q # p
    BY <2>1, <2>2
  <2> QED
    BY <2>2, <2>3 DEF AtRun
<1> QED
  BY <1>1, <1>2

\* Recording a result settles the run.
LEMMA RecordSettles ==
  ASSUME TypeOK, NEW d \in Slots, NEW m \in Modes, NEW result \in Results, result # "none", Record(d, m, result)
  PROVE  /\ run'[d][m].result # "none"
         /\ \A e \in Slots, n \in Modes : ~(e = d /\ n = m) => run'[e][n] = run[e][n]
<1>1. run \in [Slots -> [Modes -> Run]] /\ run[d][m] \in Run
  BY RunEntry DEF TypeOK
<1> QED
  BY <1>1 DEF Record, Run

LEMMA ForgottenInit == Init => NoRunForgotten /\ Decided
BY DEF Init, NoRunForgotten, NoRun, Decided

\* p stays with its run.
WorksOn(p) ==
  /\ step[p] \notin {"idle", "due"} /\ step'[p] \notin {"idle", "due"} /\ lost' = lost
  /\ \A q \in Processes \ {p} : step'[q] = step[q] /\ job'[q] = job[q] /\ verdict'[q] = verdict[q]
  /\ job'[p].slot = job[p].slot /\ job'[p].mode = job[p].mode
  /\ step'[p] = "finishing" => verdict'[p] # "none"

LEMMA ForgottenStep ==
  ASSUME TypeOK, NoRunForgotten, Decided, [Next]_vars
  PROVE  NoRunForgotten' /\ Decided'
<1>1. ASSUME NEW p \in Processes, NEW d \in Slots, NEW m \in Modes, Due(p, d, m)
      PROVE  NoRunForgotten' /\ Decided'
  BY <1>1 DEF TypeOK, Due, Goto, history, NoRunForgotten, Decided
<1>2. ASSUME NEW p \in Processes, Claim(p)
      PROVE  NoRunForgotten' /\ Decided'
  <2>1. /\ step[p] = "due" /\ verdict' = verdict
        /\ \A q \in Processes \ {p} : step'[q] = step[q] /\ job'[q] = job[q]
        /\ step'[p] \in {"claimed", "idle"} /\ lost \subseteq lost'
        /\ step'[p] = "claimed" => job' = job
        /\ step'[p] = "claimed" \/ <<job[p].slot, job[p].mode>> \in lost'
    BY <1>2 DEF TypeOK, Claim, Forget, Goto
  <2>2. \A d \in Slots, m \in Modes : ~(d = job[p].slot /\ m = job[p].mode) => run'[d][m] = run[d][m]
    BY <1>2 DEF TypeOK, Claim, Forget
  <2>3. NoRunForgotten'
    BY <2>1, <2>2, HandedOver DEF AtRun
  <2>4. Decided'
    BY <2>1 DEF Decided
  <2> QED BY <2>3, <2>4
<1>3. ASSUME NEW p \in Processes, ClaimRefused(p)
      PROVE  NoRunForgotten' /\ Decided'
  BY <1>3 DEF TypeOK, ClaimRefused, Forget, Goto, history, NoRunForgotten, Decided
<1>4. ASSUME NEW p \in Processes, Die(p)
      PROVE  NoRunForgotten' /\ Decided'
  <2>1. /\ step[p] # "idle" /\ run' = run
        /\ \A q \in Processes \ {p} : step'[q] = step[q] /\ job'[q] = job[q] /\ verdict'[q] = verdict[q]
        /\ step'[p] = "idle" /\ lost \subseteq lost'
        /\ step[p] = "due" \/ <<job[p].slot, job[p].mode>> \in lost'
    BY <1>4 DEF TypeOK, Die, Done, Forget, Goto
  <2>2. NoRunForgotten'
    BY <2>1, HandedOver DEF AtRun
  <2>3. Decided'
    BY <2>1 DEF Decided
  <2> QED BY <2>2, <2>3
<1>5. ASSUME NEW p \in Processes, Finish(p) \/ FinishFails(p) \/ Catch(p)
      PROVE  NoRunForgotten' /\ Decided'
  <2>1. /\ step[p] \in {"finishing", "caught"} /\ lost' = lost
        /\ \A q \in Processes \ {p} : step'[q] = step[q] /\ job'[q] = job[q] /\ verdict'[q] = verdict[q]
        /\ step'[p] \in {"idle", "caught"}
        /\ step'[p] = "caught" => job'[p] = job[p]
    BY <1>5 DEF TypeOK, Finish, FinishFails, Catch, Done, Forget, Throw, Goto, history
  <2>2. job[p].slot \in Slots /\ job[p].mode \in Modes
    BY <2>1, AtWork
  <2>3. \/ step'[p] = "caught" /\ UNCHANGED run
        \/ \E result \in Results : result # "none" /\ Record(job[p].slot, job[p].mode, result)
    <3>1. CASE Finish(p)
      BY <3>1 DEF Finish, TypeOK, Decided
    <3>2. CASE FinishFails(p)
      <4>1. step'[p] = "caught"
        BY <3>2 DEF FinishFails, Throw, Goto, TypeOK
      <4> QED BY <3>2, <4>1 DEF FinishFails, TypeOK, Decided
    <3>3. CASE Catch(p)
      <4> DEFINE result == IF verdict[p] \in Sent THEN verdict[p]
                           ELSE IF transport[p] THEN "provider_unclear"
                           ELSE IF RunOf(p).attempt \/ ~ControlUnchanged(p) THEN "blocked"
                           ELSE "failed"
      <4>1. Record(job[p].slot, job[p].mode, result)
        BY <3>3 DEF Catch
      <4>2. result \in Results /\ result # "none"
        BY DEF Results, Sent
      <4> QED BY <4>1, <4>2
    <3> QED BY <1>5, <3>1, <3>2, <3>3
  <2>4. NoRunForgotten'
    <3>1. CASE step'[p] = "caught" /\ UNCHANGED run
      BY <2>1, <3>1, HandedOver DEF AtRun
    <3>2. ASSUME NEW result \in Results, result # "none", Record(job[p].slot, job[p].mode, result)
          PROVE  NoRunForgotten'
      BY <2>1, <2>2, <3>2, RecordSettles, HandedOver DEF AtRun
    <3> QED BY <2>3, <3>1, <3>2
  <2>5. Decided'
    BY <2>1 DEF Decided
  <2> QED BY <2>4, <2>5
<1>6. ASSUME NEW p \in Processes,
             \/ Admit(p) \/ StartCapture(p) \/ Simulate(p) \/ GiveUp(p) \/ Attempt(p)
             \/ LockControl(p) \/ LockRouting(p) \/ StartTransport(p) \/ Abandon(p)
             \/ \E open \in BOOLEAN : EndCapture(p, open)
             \/ \E pass \in BOOLEAN : Preflight(p, pass)
             \/ \E outcome \in {"accepted", "rejected", "unclear"} : Answer(p, outcome)
      PROVE  NoRunForgotten' /\ Decided'
  <2>0. job[p] \in Job \/ step[p] = "idle"
    BY DEF TypeOK
  <2>1. WorksOn(p)
    <3>1. CASE Admit(p) \/ StartCapture(p) \/ Simulate(p) \/ GiveUp(p)
      BY <3>1 DEF WorksOn, TypeOK, Admit, StartCapture, Simulate, GiveUp, Throw, Goto, history
    <3>2. CASE Attempt(p) \/ LockControl(p) \/ LockRouting(p) \/ StartTransport(p) \/ Abandon(p)
      BY <3>2 DEF WorksOn, TypeOK, Attempt, LockControl, LockRouting, StartTransport, Abandon, Throw, Goto, history
    <3>3. ASSUME NEW open \in BOOLEAN, EndCapture(p, open) PROVE WorksOn(p)
      BY <2>0, <3>3 DEF WorksOn, TypeOK, EndCapture, Goto, history, Job
    <3>4. ASSUME NEW pass \in BOOLEAN, Preflight(p, pass) PROVE WorksOn(p)
      BY <3>4 DEF WorksOn, TypeOK, Preflight, Goto, history
    <3>5. ASSUME NEW outcome \in {"accepted", "rejected", "unclear"}, Answer(p, outcome) PROVE WorksOn(p)
      BY <3>5 DEF WorksOn, TypeOK, Answer, Goto
    <3> QED BY <1>6, <3>1, <3>2, <3>3, <3>4, <3>5
  <2>2. \A d \in Slots, m \in Modes : run'[d][m].started = run[d][m].started /\ run'[d][m].result = run[d][m].result
    <3>1. CASE Attempt(p)
      <4> DEFINE d == job[p].slot
                 m == job[p].mode
      <4>1. d \in Slots /\ m \in Modes
        BY <2>1, AtWork DEF WorksOn
      <4>2. run[d] \in [Modes -> Run] /\ run[d][m] \in Run /\ run \in [Slots -> [Modes -> Run]]
        BY <4>1, RunEntry DEF TypeOK
      <4>3. run' = run \/ run' = [run EXCEPT ![d][m].attempt = TRUE]
        BY <3>1 DEF Attempt
      <4>4. CASE run' = [run EXCEPT ![d][m].attempt = TRUE]
        <5>1. /\ run'[d][m] = [run[d][m] EXCEPT !.attempt = TRUE]
              /\ \A e \in Slots, n \in Modes : ~(e = d /\ n = m) => run'[e][n] = run[e][n]
          BY <4>1, <4>2, <4>4
        <5>2. run'[d][m].started = run[d][m].started /\ run'[d][m].result = run[d][m].result
          BY <4>2, <5>1 DEF Run
        <5> HIDE DEF d, m
        <5> QED BY <5>1, <5>2
      <4> QED BY <4>3, <4>4
    <3>2. CASE ~Attempt(p)
      BY <1>6, <3>2 DEF Admit, StartCapture, Simulate, GiveUp, LockControl, LockRouting, StartTransport, Abandon,
                        EndCapture, Preflight, Answer
    <3> QED BY <3>1, <3>2
  <2>3. NoRunForgotten'
    BY <2>1, <2>2, HandedOver DEF AtRun, WorksOn
  <2>4. Decided'
    BY <2>1 DEF Decided, WorksOn
  <2> QED BY <2>3, <2>4
<1>7. CASE Environment
  <2>1. UNCHANGED <<run, local, lost>>
    BY <1>7 DEF Environment, Change, ChangeRouting, ChangeScope, StartPreview, EndPreview, PreviewNothing, CooldownEnds,
                PassTime, history
  <2> QED BY <2>1 DEF local, NoRunForgotten, Decided
<1>8. CASE UNCHANGED vars
  BY <1>8 DEF vars, local, history, NoRunForgotten, Decided
<1> QED
  BY <1>1, <1>2, <1>3, <1>4, <1>5, <1>6, <1>7, <1>8 DEF Next, Work


-----------------------------------------------------------------------------
(* Theorems *)

\* The provider is contacted at most once for a slot, whatever the number of
\* processes, deaths and failed writes.
THEOREM OneCall == Spec => []OneCallPerSlot
<1>1. IInv => OneCallPerSlot
  BY DEF IInv, SlotOK, OneCallPerSlot
<1> QED
  BY <1>1, InvariantHolds, PTL

\* Whatever fails, changes or expires during a run, somebody is on the way to
\* recording its result, unless a process died or could not write (runDue).
THEOREM NothingForgotten == Spec => []NoRunForgotten
<1>1. TypeOK /\ NoRunForgotten /\ Decided /\ [Next]_vars => (NoRunForgotten /\ Decided)'
  BY ForgottenStep
<1> QED
  BY <1>1, ForgottenInit, TypeCorrect, PTL DEF Spec

\* A mail that went out is never recorded as one that did not.
THEOREM NeverDenied == Spec => []MailNotDenied
<1>1. IInv => MailNotDenied
  BY DEF IInv, SlotOK, MailNotDenied
<1> QED
  BY <1>1, InvariantHolds, PTL

\* Only an administrator's first activation sets the start of the control
\* period; no pause, reactivation or run moves it.
THEOREM PeriodNeverMoves == Spec => PeriodIsFixed
<1>1. [Next]_vars => [activation # 0 => activation' = activation]_vars
  BY DEF Next, Work, Environment, Due, Claim, Forget, ClaimRefused, Admit, StartCapture, EndCapture, Simulate, GiveUp, Attempt,
         Preflight, LockControl, LockRouting, StartTransport, Abandon, Answer, Finish, FinishFails, Catch, Die,
         Change, ChangeRouting, ChangeScope, StartPreview, EndPreview, PreviewNothing, CooldownEnds, PassTime, tenant
<1> QED
  BY <1>1, PTL DEF Spec, PeriodIsFixed

\* The locks a process holds keep control and routing as it has read them.
LocksHold ==
  \A p \in Processes :
    /\ step[p] \in {"locked", "routed", "sending"} => ControlUnchanged(p)
    /\ step[p] \in {"routed", "sending"} => routing = job[p].route

LEMMA NextLocks == TypeOK /\ LocksHold /\ [Next]_vars => LocksHold'
<1> SUFFICES ASSUME TypeOK, LocksHold, [Next]_vars PROVE LocksHold'
  OBVIOUS
<1> USE DEF LocksHold, ControlUnchanged, ValidForSlot
<1>1. ASSUME NEW p \in Processes, UNCHANGED tenant,
             \A q \in Processes \ {p} : step'[q] = step[q] /\ job'[q] = job[q],
             step'[p] \notin {"locked", "routed", "sending"}
      PROVE  LocksHold'
  BY <1>1 DEF tenant
<1>2. ASSUME NEW p \in Processes, LockControl(p) \/ LockRouting(p) \/ StartTransport(p)
      PROVE  LocksHold'
  <2>1. UNCHANGED tenant /\ job' = job /\ \A q \in Processes \ {p} : step'[q] = step[q]
    BY <1>2 DEF TypeOK, LockControl, LockRouting, StartTransport, Goto
  <2>2. CASE LockControl(p)
    BY <2>1, <2>2 DEF TypeOK, LockControl, Goto, tenant
  <2>3. CASE LockRouting(p)
    BY <2>1, <2>3 DEF TypeOK, LockRouting, Goto, tenant
  <2>4. CASE StartTransport(p)
    BY <2>1, <2>4 DEF TypeOK, StartTransport, Goto, tenant
  <2> QED
    BY <1>2, <2>2, <2>3, <2>4
<1>3. ASSUME NEW p \in Processes,
             \/ Claim(p) \/ ClaimRefused(p) \/ Admit(p) \/ StartCapture(p) \/ Simulate(p)
             \/ \E pass \in BOOLEAN : Preflight(p, pass)
             \/ \E d \in Slots, m \in Modes : Due(p, d, m)
      PROVE  LocksHold'
  BY <1>1, <1>3 DEF TypeOK, Claim, Forget, ClaimRefused, Admit, StartCapture, Simulate, Preflight, Due, Goto
<1>4. ASSUME NEW p \in Processes, NEW open \in BOOLEAN, EndCapture(p, open) PROVE LocksHold'
  BY <1>1, <1>4 DEF TypeOK, EndCapture, Goto
<1>5. ASSUME NEW p \in Processes, GiveUp(p) \/ Attempt(p) \/ Abandon(p) \/ FinishFails(p) PROVE LocksHold'
  BY <1>1, <1>5 DEF TypeOK, GiveUp, Attempt, Abandon, FinishFails, Throw, Goto
<1>6. ASSUME NEW p \in Processes, NEW outcome \in {"accepted", "rejected", "unclear"}, Answer(p, outcome) PROVE LocksHold'
  BY <1>1, <1>6 DEF TypeOK, Answer, Goto
<1>7. ASSUME NEW p \in Processes, Finish(p) \/ Catch(p) \/ Die(p) PROVE LocksHold'
  BY <1>1, <1>7 DEF TypeOK, Finish, Catch, Die, Done, Forget, Goto
<1>8. ASSUME NEW enabling \in BOOLEAN, Change(enabling) PROVE LocksHold'
  BY <1>8 DEF Change, SendLockHeld, local
<1>9. CASE ChangeRouting
  BY <1>9 DEF ChangeRouting, RouteLockHeld, local
<1>10. CASE ChangeScope \/ StartPreview \/ EndPreview \/ PreviewNothing \/ CooldownEnds \/ PassTime
  BY <1>10 DEF ChangeScope, StartPreview, EndPreview, PreviewNothing, CooldownEnds, PassTime, tenant, local
<1>11. CASE UNCHANGED vars
  BY <1>11 DEF vars, tenant, local
<1> QED
  BY <1>2, <1>3, <1>4, <1>5, <1>6, <1>7, <1>8, <1>9, <1>10, <1>11 DEF Next, Work, Environment

\* While a mail is with the provider no pause and no new recipients take effect.
THEOREM NothingOvertaken == Spec => []MailUnderCurrentControl
<1>1. Init => LocksHold
  BY DEF Init, LocksHold
<1>2. LocksHold => MailUnderCurrentControl
  BY DEF LocksHold, MailUnderCurrentControl
<1> QED
  BY <1>1, <1>2, NextLocks, TypeCorrect, PTL DEF Spec

\* The slots that have passed the control by lie before its latest activation.
OffBefore ==
  /\ \A d \in off : SlotTime(d) <= now
  /\ control.enabled => \A d \in off : SlotTime(d) <= control.enabledAt

LEMMA NextOff == TypeOK /\ OffBefore /\ [Next]_vars => OffBefore'
<1> SUFFICES ASSUME TypeOK, OffBefore, [Next]_vars PROVE OffBefore'
  OBVIOUS
<1>1. now \in Nat /\ \A d \in Slots : SlotTime(d) \in Nat
  BY SlotsAssumption DEF TypeOK, Slots, SlotTime, LastTime
<1>2. ASSUME NEW enabling \in BOOLEAN, Change(enabling) PROVE OffBefore'
  BY <1>1, <1>2 DEF Change, OffBefore, Passed, TypeOK
<1>3. CASE PassTime
  BY <1>1, <1>3 DEF PassTime, OffBefore, Passed, TypeOK, tenant
<1>4. UNCHANGED <<now, control, off>> => OffBefore'
  BY DEF OffBefore
<1> QED
  BY <1>2, <1>3, <1>4
     DEF Next, Work, Environment, vars, history, tenant, Due, Claim, Forget, ClaimRefused, Admit, StartCapture, EndCapture, Simulate,
         GiveUp, Attempt, Preflight, LockControl, LockRouting, StartTransport, Abandon, Answer, Finish, FinishFails, Catch,
         Die, ChangeRouting, ChangeScope, StartPreview, EndPreview, PreviewNothing, CooldownEnds

\* No mail of a slot during or after which the control was off, whatever was
\* claimed before and however often the control is activated again.
THEOREM PassedStaySilent == Spec => PassedSlotsStaySilent
<1>1. Init => OffBefore /\ LocksHold
  BY DEF Init, OffBefore, LocksHold
<1>2. TypeOK /\ LocksHold /\ OffBefore /\ [Next]_vars => [\A d \in off : called'[d] = called[d]]_vars
  <2> SUFFICES ASSUME TypeOK, LocksHold, OffBefore, Next, NEW d \in off
               PROVE  called'[d] = called[d]
    OBVIOUS
  <2>1. ASSUME NEW p \in Processes, StartTransport(p) PROVE called'[d] = called[d]
    <3>1. ValidForSlot(control, job[p].slot) /\ job[p].slot \in Slots
      BY <2>1 DEF StartTransport, LocksHold, ControlUnchanged, TypeOK, Job
    <3>2. d \in Slots /\ SlotTime(d) <= control.enabledAt
      BY <3>1 DEF ValidForSlot, OffBefore, TypeOK
    <3>3. d # job[p].slot
      BY <3>1, <3>2, SlotsAssumption DEF ValidForSlot, TypeOK, Slots, SlotTime, LastTime
    <3> QED
      BY <2>1, <3>2, <3>3 DEF StartTransport, TypeOK
  <2> QED
    BY <2>1
       DEF Next, Work, Environment, vars, history, Due, Claim, Forget, ClaimRefused, Admit, StartCapture, EndCapture, Simulate,
           GiveUp, Attempt, Preflight, LockControl, LockRouting, Abandon, Answer, Finish, FinishFails, Catch, Die, Change,
           ChangeRouting, ChangeScope, StartPreview, EndPreview, PreviewNothing, CooldownEnds, PassTime
<1> QED
  BY <1>1, <1>2, NextLocks, NextOff, TypeCorrect, PTL DEF Spec, PassedSlotsStaySilent

-----------------------------------------------------------------------------
(* The approval control implements MailDelivery *)

LEMMA InitDelivers == Init => Delivery!Init
BY ModesAssumption DEF Init, Delivery!Init, Outcome, NoRun

LEMMA SameDelivery ==
  ASSUME \A d \in Slots : /\ run'[d]["live"].started = run[d]["live"].started
                          /\ run'[d]["live"].result = run[d]["live"].result
                          /\ d \in accepted' <=> d \in accepted
  PROVE  UNCHANGED Delivery!vars
BY DEF Delivery!vars, Outcome

\* The first result of a live run decides what becomes of its mail.
LEMMA RecordDelivers ==
  ASSUME IInv, NEW p \in Processes, NEW result \in Results, Working(p),
         Record(job[p].slot, job[p].mode, result), accepted' = accepted,
         IF transport[p] THEN result = verdict[p] ELSE result \notin Sent,
         step[p] \in {"finishing", "caught"}
  PROVE  [Delivery!Next]_(Delivery!vars)
<1> DEFINE d == job[p].slot
           m == job[p].mode
<1>1. d \in Slots /\ m \in Modes /\ run[d] \in [Modes -> Run] /\ run[d][m] \in Run /\ Inside(p)
  BY Worker, AtWork, RunEntry DEF IInv, Working
<1>2. /\ run'[d][m] = [run[d][m] EXCEPT !.result = IF @ = "none" THEN result ELSE @]
      /\ \A e \in Slots, n \in Modes : ~(e = d /\ n = m) => run'[e][n] = run[e][n]
  BY <1>1 DEF IInv, TypeOK, Record
<1>3. /\ run'[d][m].started = run[d][m].started
      /\ run'[d][m].result = IF run[d][m].result = "none" THEN result ELSE run[d][m].result
  BY <1>1, <1>2 DEF Run
<1>4. CASE m # "live" \/ run[d][m].result # "none"
  <2> SUFFICES ASSUME NEW e \in Slots
               PROVE  /\ run'[e]["live"].started = run[e]["live"].started
                      /\ run'[e]["live"].result = run[e]["live"].result
    BY SameDelivery
  <2>1. CASE e = d /\ m = "live"
    BY <2>1, <1>3, <1>4
  <2>2. CASE ~(e = d /\ m = "live")
    <3>1. run'[e]["live"] = run[e]["live"]
      BY <2>2, <1>2, ModesAssumption
    <3> QED
      BY <3>1
  <2> QED
    BY <2>1, <2>2
<1>5. CASE m = "live" /\ run[d][m].result = "none"
  <2> PICK e \in Slots : e = d
    BY <1>1
  <2>1. /\ run[e]["live"].started /\ run[e]["live"].result = "none"
        /\ run'[e]["live"].started /\ run'[e]["live"].result = result
    <3>1. run[d][m].started
      BY <1>1 DEF Inside, RunOf
    <3>2. e = d /\ m = "live"
      BY <1>5
    <3> QED
      BY <3>1, <3>2, <1>3, <1>5
  <2>2. \A x \in Slots : x # e => run'[x]["live"] = run[x]["live"]
    BY <1>2, ModesAssumption
  <2>3. Outcome(e) = "pending" /\ \A x \in Slots : x # e => Outcome(x)' = Outcome(x)
    BY <2>1, <2>2 DEF Outcome
  <2>4. CASE result = "none"
    <3>1. run'[e]["live"].started = run[e]["live"].started /\ run'[e]["live"].result = run[e]["live"].result
      BY <2>1, <2>4, <1>3, <1>5
    <3>2. \A x \in Slots : /\ run'[x]["live"].started = run[x]["live"].started
                           /\ run'[x]["live"].result = run[x]["live"].result
      BY <3>1, <2>2
    <3> QED
      BY <3>2, SameDelivery
  <2>5. CASE result = "provider_accepted"
    <3>1. e \in accepted
      BY <2>5, <1>1 DEF Inside, Told, Sent
    <3>2. Outcome(e)' = "sent"
      BY <2>1, <2>5 DEF Outcome
    <3> QED
      BY <3>1, <3>2, <2>3 DEF Delivery!Next, Delivery!Confirm
  <2>6. CASE result \notin {"none", "provider_accepted"}
    <3>1. Outcome(e)' = "dead"
      BY <2>1, <2>6 DEF Outcome
    <3> QED
      BY <3>1, <2>3 DEF Delivery!Next, Delivery!GiveUp
  <2> QED
    BY <2>4, <2>5, <2>6
<1> QED
  BY <1>4, <1>5

LEMMA ClaimDelivers ==
  ASSUME IInv, NEW p \in Processes, Claim(p)
  PROVE  [Delivery!Next]_(Delivery!vars)
<1> DEFINE d == job[p].slot
           m == job[p].mode
<1>1. d \in Slots /\ m \in Modes /\ run[d] \in [Modes -> Run] /\ run[d][m] \in Run
  BY AtWork, RunEntry DEF IInv, Claim, Forget
<1>2. /\ run' = [run EXCEPT ![d][m].started = TRUE] /\ ~run[d][m].started /\ accepted' = accepted
  BY DEF Claim, Forget
<1>3. /\ run'[d][m] = [run[d][m] EXCEPT !.started = TRUE]
      /\ \A e \in Slots, n \in Modes : ~(e = d /\ n = m) => run'[e][n] = run[e][n]
  BY <1>1, <1>2 DEF IInv, TypeOK
<1>4. run'[d][m].started /\ run'[d][m].result = run[d][m].result
  BY <1>1, <1>3 DEF Run
<1>5. CASE m # "live"
  <2>1. \A e \in Slots : run'[e]["live"] = run[e]["live"]
    BY <1>3, <1>5, ModesAssumption
  <2> QED
    BY <2>1, <1>2, SameDelivery
<1>6. CASE m = "live"
  <2> PICK e \in Slots : e = d
    BY <1>1
  <2>1. ~run[e]["live"].started /\ run[e]["live"].result = "none" /\ SlotOK(e)
    BY <1>2, <1>6, ModesAssumption DEF IInv, SlotOK
  <2>2. run'[e]["live"].started /\ run'[e]["live"].result = "none"
    BY <2>1, <1>4, <1>6
  <2>3. \A x \in Slots : x # e => run'[x]["live"] = run[x]["live"]
    BY <1>3, ModesAssumption
  <2>4. /\ Outcome(e) = "absent" /\ Outcome(e)' = "pending"
        /\ \A x \in Slots : x # e => Outcome(x)' = Outcome(x)
    BY <2>1, <2>2, <2>3 DEF Outcome
  <2> QED
    BY <2>4, <1>2 DEF Delivery!Next, Delivery!Accept
<1> QED
  BY <1>5, <1>6

LEMMA AnswerDelivers ==
  ASSUME IInv, NEW p \in Processes, NEW outcome \in {"accepted", "rejected", "unclear"}, Answer(p, outcome)
  PROVE  [Delivery!Next]_(Delivery!vars)
<1> DEFINE d == job[p].slot
<1>1. Working(p) /\ Inside(p) /\ d \in Slots /\ step[p] = "sending"
  BY Worker, AtWork DEF IInv, Answer, Working
<1>2. PICK e \in Slots : e = d
  BY <1>1
<1>3. run[e]["live"].started /\ run[e]["live"].result = "none" /\ e \notin accepted
  BY <1>1, <1>2 DEF Inside, RunOf
<1>4. Outcome(e) = "pending"
  BY <1>3 DEF Outcome
<1>5. run' = run /\ (accepted' = accepted \/ accepted' = accepted \cup {e})
  BY <1>2 DEF Answer
<1>6. CASE accepted' = accepted
  BY <1>5, <1>6, SameDelivery
<1>7. CASE accepted' = accepted \cup {e}
  <2> DEFINE C == [x \in Slots |-> IF x \in accepted THEN {1} ELSE {}]
  <2>1. [x \in Slots |-> Outcome(x)]' = [x \in Slots |-> Outcome(x)]
    BY <1>5 DEF Outcome
  <2>2. C[e] = {} /\ 1 \in (1..1) \ C[e]
    BY <1>3
  <2>3. C' = [C EXCEPT ![e] = {1}]
    BY <1>7
  <2>4. C' = [C EXCEPT ![e] = @ \cup {1}]
    BY <2>2, <2>3
  <2>5. Delivery!Deliver(e)
    BY <2>1, <2>2, <2>4, <1>4 DEF Delivery!Deliver
  <2> QED
    BY <2>5 DEF Delivery!Next
<1> QED
  BY <1>5, <1>6, <1>7

LEMMA NextDelivers == IInv /\ [Next]_vars => [Delivery!Next]_(Delivery!vars)
<1> SUFFICES ASSUME IInv, [Next]_vars PROVE [Delivery!Next]_(Delivery!vars)
  OBVIOUS
<1>1. ASSUME UNCHANGED run, accepted' = accepted PROVE [Delivery!Next]_(Delivery!vars)
  BY <1>1, SameDelivery
<1>2. ASSUME NEW p \in Processes, Claim(p) PROVE [Delivery!Next]_(Delivery!vars)
  BY <1>2, ClaimDelivers
<1>3. ASSUME NEW p \in Processes, Attempt(p) PROVE [Delivery!Next]_(Delivery!vars)
  <2>1. job[p].slot \in Slots /\ job[p].mode \in Modes /\ accepted' = accepted
    BY <1>3, AtWork DEF IInv, Attempt, history
  <2>2. CASE run' = run
    BY <2>1, <2>2, <1>1
  <2>3. CASE run' = [run EXCEPT ![job[p].slot][job[p].mode].attempt = TRUE]
    <3>1. ASSUME NEW d \in Slots
          PROVE  run'[d]["live"].started = run[d]["live"].started /\ run'[d]["live"].result = run[d]["live"].result
      <4>1. run[d] \in [Modes -> Run] /\ run[d]["live"] \in Run
        BY RunEntry, ModesAssumption DEF IInv
      <4>2. run'[d]["live"] = run[d]["live"] \/ run'[d]["live"] = [run[d]["live"] EXCEPT !.attempt = TRUE]
        BY <2>1, <2>3, <4>1, ModesAssumption DEF IInv, TypeOK
      <4> QED
        BY <4>1, <4>2 DEF Run
    <3> QED
      BY <3>1, <2>1, SameDelivery
  <2> QED
    BY <1>3, <2>2, <2>3 DEF Attempt
<1>4. ASSUME NEW p \in Processes, NEW outcome \in {"accepted", "rejected", "unclear"}, Answer(p, outcome)
      PROVE  [Delivery!Next]_(Delivery!vars)
  BY <1>4, AnswerDelivers
<1>5. ASSUME NEW p \in Processes, Finish(p) \/ FinishFails(p) \/ Catch(p) PROVE [Delivery!Next]_(Delivery!vars)
  <2>1. /\ Working(p) /\ Inside(p) /\ step[p] \in {"finishing", "caught"} /\ verdict[p] \in Results /\ accepted' = accepted
        /\ IF transport[p] THEN verdict[p] \in Sent ELSE verdict[p] \notin Sent
    BY <1>5, Worker DEF IInv, TypeOK, Finish, FinishFails, Catch, Working, Inside, Told, history
  <2>2. CASE Record(job[p].slot, job[p].mode, verdict[p])
    BY <2>1, <2>2, RecordDelivers
  <2>3. CASE UNCHANGED run
    BY <2>1, <2>3, <1>1
  <2>4. CASE Catch(p)
    <3> DEFINE result == IF verdict[p] \in Sent THEN verdict[p]
                         ELSE IF transport[p] THEN "provider_unclear"
                         ELSE IF RunOf(p).attempt \/ ~ControlUnchanged(p) THEN "blocked"
                         ELSE "failed"
    <3>1. Record(job[p].slot, job[p].mode, result)
      BY <2>4 DEF Catch
    <3>2. result \in Results /\ IF transport[p] THEN result = verdict[p] ELSE result \notin Sent
      BY <2>1 DEF Results, Sent
    <3> QED
      BY <2>1, <3>1, <3>2, RecordDelivers
  <2> QED
    BY <1>5, <2>2, <2>3, <2>4 DEF Finish, FinishFails
<1> QED
  BY <1>1, <1>2, <1>3, <1>4, <1>5
     DEF Next, Work, Environment, vars, history, Due, ClaimRefused, Forget, Admit, StartCapture, EndCapture, Simulate, GiveUp, Preflight,
         LockControl, LockRouting, StartTransport, Abandon, Die, Change, ChangeRouting, ChangeScope,
         StartPreview, EndPreview, PreviewNothing, CooldownEnds, PassTime

\* The summary of every slot is delivered at most once, only while its run has
\* no result, and is reported as sent only when it was.
THEOREM ApprovalDelivers == Spec => DeliveryPromise
BY InitDelivers, NextDelivers, InvariantHolds, PTL DEF Spec, DeliveryPromise, Delivery!Spec
=============================================================================
