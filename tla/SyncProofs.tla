----------------------------- MODULE SyncProofs -----------------------------
(***************************************************************************)
(* Theorems about the sync queue, for any number of processes, jobs,       *)
(* retries and faults, and the theorem that the worker implements it, so   *)
(* that they hold of the worker too.                                       *)
(*                                                                         *)
(* The inductive invariant is about who holds what: a job at work is       *)
(* "running", or a bootstrap job that the script has failed meanwhile;     *)
(* hence it is never on offer, hence nobody else claims it; and a process  *)
(* about to insert a delta job counts as an active delta job.              *)
(***************************************************************************)
EXTENDS SyncWorker, TLAPS, FiniteSetTheorems

\* What a worker holds is running; only the script changes that, for bootstraps.
HeldRuns == \A w \in Workers, j \in Jobs :
  Holds(w, j) => \/ job[j].status = "running"
                 \/ job[j].type = "bootstrap" /\ job[j].status = "failed"

Schedulers == {w \in Workers : worker[w].at = "scheduling"}
\* Every process that is about to insert a delta job counts as one.
DeltasReserved == Cardinality(ActiveDeltas) + Cardinality(Schedulers) <= Cardinality(Workers)

JInv == JobsTypeOK /\ AttemptsLeft /\ HeldRuns /\ OneHolder

LEMMA JobsInitInv == JobsInit => JInv
<1> SUFFICES ASSUME JobsInit PROVE JInv
  OBVIOUS
<1>1. 1 \in Jobs /\ 0 \in 0..MaxRetries /\ 0 \in 0..MaxTime
  BY BoundsAssumption DEF Jobs
<1>2. NoJob \in JobType /\ [NoJob EXCEPT !.type = "bootstrap", !.status = "queued"] \in JobType
  BY <1>1 DEF NoJob, JobType, Types, Statuses
<1>3. Idle \in WorkerType /\ Idle.at = "idle"
  BY <1>1 DEF Idle, WorkerType
<1>4. \A w \in Workers : ~Working(w)
  BY <1>3 DEF JobsInit, Working
<1>5. JobsTypeOK
  BY <1>2, <1>3, <1>4, BoundsAssumption DEF JobsInit, JobsTypeOK
<1>6. \A j \in Jobs : job[j].retries = 0
  BY DEF JobsInit, NoJob
<1>7. AttemptsLeft
  BY <1>4, <1>6, BoundsAssumption DEF AttemptsLeft
<1> QED BY <1>4, <1>5, <1>7 DEF JInv, HeldRuns, OneHolder, Holds

LEMMA PollInv == ASSUME JInv, NEW w \in Workers, Poll(w) PROVE JInv'
<1>1. JobsTypeOK'
  BY DEF JInv, JobsTypeOK, Poll, WorkerType, Working
<1>2. \A v \in Workers, j \in Jobs : Holds(v, j)' <=> Holds(v, j)
  BY DEF JInv, JobsTypeOK, Poll, WorkerType, Holds, Working
<1>3. AttemptsLeft'
  BY DEF JInv, JobsTypeOK, Poll, WorkerType, AttemptsLeft, Working
<1> QED BY <1>1, <1>2, <1>3 DEF JInv, HeldRuns, OneHolder, Poll

\* A new job in the first free row.
LEMMA NewJobTyped ==
  ASSUME JobsTypeOK, NEW t \in Types
  PROVE  /\ NewJob(t) \in JobType /\ NewJob(t).retries = 0
         /\ NewJob(t).status = "queued" /\ NewJob(t).type = t
BY BoundsAssumption DEF JobsTypeOK, NewJob, JobType, Statuses

\* Nobody holds a row that is free.
LEMMA FreeNotHeld ==
  ASSUME JInv, NEW w \in Workers, NEW j \in Jobs, IsNext(j) PROVE ~Holds(w, j)
BY DEF JInv, HeldRuns, IsNext, Free

LEMMA ScheduleDeltaInv == ASSUME JInv, NEW w \in Workers, ScheduleDelta(w) PROVE JInv'
<1>1. NewJob("delta") \in JobType /\ NewJob("delta").retries = 0
  BY NewJobTyped DEF JInv, Types
<1>2. JobsTypeOK'
  <2>1. job' \in [Jobs -> JobType]
    BY <1>1 DEF JInv, JobsTypeOK, ScheduleDelta
  <2> QED BY <2>1 DEF JInv, JobsTypeOK, ScheduleDelta, WorkerType, Working
<1>3. \A v \in Workers, j \in Jobs : Holds(v, j)' <=> Holds(v, j)
  BY DEF JInv, JobsTypeOK, ScheduleDelta, WorkerType, Holds, Working
<1>4. \A v \in Workers, j \in Jobs : Holds(v, j) => job'[j] = job[j]
  BY FreeNotHeld DEF ScheduleDelta
<1>5. AttemptsLeft'
  <2>1. \A j \in Jobs : job'[j] = job[j] \/ job'[j].retries = 0
    BY <1>1 DEF ScheduleDelta
  <2>2. \A v \in Workers : Working(v)' => worker'[v].retries = worker[v].retries /\ Working(v)
    BY DEF JInv, JobsTypeOK, ScheduleDelta, WorkerType, Working
  <2> QED BY <2>1, <2>2, BoundsAssumption DEF JInv, AttemptsLeft
<1> QED BY <1>2, <1>3, <1>4, <1>5 DEF JInv, HeldRuns, OneHolder

LEMMA ClaimInv == ASSUME JInv, NEW w \in Workers, NEW j \in Jobs, Claim(w, j) PROVE JInv'
<1>1. job[j] \in JobType /\ job[j].retries \in 0..MaxRetries /\ job[j].status = "queued"
  BY DEF JInv, JobsTypeOK, JobType, Claim, Claimable
<1>2. \A v \in Workers : ~Holds(v, j)
  BY <1>1 DEF JInv, HeldRuns
<1>3. /\ job' = [job EXCEPT ![j].status = "running"]
      /\ worker' = [worker EXCEPT ![w] = [at |-> "working", job |-> j, retries |-> job[j].retries]]
  BY DEF Claim
<1>4. JobsTypeOK'
  <2>1. job' \in [Jobs -> JobType]
    BY <1>3 DEF JInv, JobsTypeOK, JobType, Statuses
  <2>2. worker' \in [Workers -> WorkerType] /\ \A v \in Workers : Working(v)' => worker'[v].job \in Jobs
    BY <1>1, <1>3 DEF JInv, JobsTypeOK, WorkerType, Working
  <2> QED BY <2>1, <2>2 DEF JInv, JobsTypeOK, Claim
<1>5. \A v \in Workers, k \in Jobs : Holds(v, k)' <=> (IF v = w THEN k = j ELSE Holds(v, k))
  BY <1>3 DEF JInv, JobsTypeOK, Holds, Working
<1>6. HeldRuns'
  <2>1. job'[j].status = "running"
    BY <1>3 DEF JInv, JobsTypeOK, JobType
  <2>2. \A k \in Jobs : k # j => job'[k] = job[k]
    BY <1>3 DEF JInv, JobsTypeOK
  <2> QED BY <1>2, <1>5, <2>1, <2>2 DEF JInv, HeldRuns
<1>7. OneHolder'
  BY <1>2, <1>5 DEF JInv, OneHolder
<1>8. AttemptsLeft'
  <2>1. \A k \in Jobs : job'[k].retries = job[k].retries /\ (job'[k].status = "queued" => job[k].status = "queued")
    BY <1>3 DEF JInv, JobsTypeOK, JobType
  <2>2. \A v \in Workers : v # w => worker'[v] = worker[v]
    BY <1>3 DEF JInv, JobsTypeOK
  <2>3. worker'[w].retries = job[j].retries
    BY <1>3 DEF JInv, JobsTypeOK
  <2> QED BY <1>1, <2>1, <2>2, <2>3 DEF JInv, AttemptsLeft, Working
<1> QED BY <1>4, <1>6, <1>7, <1>8 DEF JInv

\* A worker that goes back to its loop holds nothing, and no other is touched.
LEMMA BackToIdle ==
  ASSUME JInv, NEW w \in Workers, worker' = [worker EXCEPT ![w] = Idle]
  PROVE  /\ worker' \in [Workers -> WorkerType]
         /\ \A v \in Workers : Working(v)' => v # w /\ Working(v) /\ worker'[v] = worker[v]
         /\ \A v \in Workers, j \in Jobs : Holds(v, j)' => v # w /\ Holds(v, j)
<1>1. Idle \in WorkerType /\ Idle.at # "working"
  BY BoundsAssumption DEF Idle, WorkerType
<1> QED BY <1>1 DEF JInv, JobsTypeOK, Holds, Working

LEMMA NothingToClaimInv == ASSUME JInv, NEW w \in Workers, NothingToClaim(w) PROVE JInv'
<1>1. worker' = [worker EXCEPT ![w] = Idle] /\ UNCHANGED <<job, now, asking, resets, faults>>
  BY DEF NothingToClaim
<1> QED BY <1>1, BackToIdle DEF JInv, JobsTypeOK, AttemptsLeft, HeldRuns, OneHolder

\* Whoever settles a job leaves the rows others hold alone.
LEMMA SettledInv ==
  ASSUME JInv, NEW w \in Workers, Working(w),
         worker' = [worker EXCEPT ![w] = Idle],
         NEW new \in JobType, job' = [job EXCEPT ![worker[w].job] = new],
         new.status = "queued" => new.retries < MaxRetries,
         UNCHANGED <<now, asking, resets>>, faults' \in 0..MaxFaults
  PROVE  JInv'
<1> DEFINE mine == worker[w].job
<1>1. mine \in Jobs /\ Holds(w, mine)
  BY DEF JInv, JobsTypeOK, Holds
<1>2. job' \in [Jobs -> JobType] /\ job'[mine] = new /\ \A k \in Jobs : k # mine => job'[k] = job[k]
  BY <1>1 DEF JInv, JobsTypeOK
<1>3. \A v \in Workers, j \in Jobs : Holds(v, j)' => v # w /\ Holds(v, j)
  BY BackToIdle
<1>4. \A v \in Workers, j \in Jobs : Holds(v, j)' => Holds(v, j) /\ job'[j] = job[j]
  BY <1>1, <1>2, <1>3 DEF JInv, OneHolder
<1>5. JobsTypeOK'
  BY <1>2, BackToIdle DEF JInv, JobsTypeOK
<1>6. AttemptsLeft'
  BY <1>2, BackToIdle DEF JInv, AttemptsLeft
<1> QED BY <1>4, <1>5, <1>6 DEF JInv, HeldRuns, OneHolder

LEMMA SucceedInv == ASSUME JInv, NEW w \in Workers, Succeed(w) PROVE JInv'
<1> DEFINE new == [job[worker[w].job] EXCEPT !.status = "success", !.ripe = TRUE]
<1>1. worker[w].job \in Jobs /\ job[worker[w].job] \in JobType
  BY DEF JInv, JobsTypeOK, Succeed
<1>2. new \in JobType /\ new.status # "queued"
  BY <1>1 DEF JobType, Statuses
<1>3. job' = [job EXCEPT ![worker[w].job] = new]
  BY <1>1 DEF JInv, JobsTypeOK, Succeed
<1>4. /\ Working(w) /\ worker' = [worker EXCEPT ![w] = Idle]
      /\ UNCHANGED <<now, asking, resets>> /\ faults' \in 0..MaxFaults
  BY DEF JInv, JobsTypeOK, Succeed
<1> QED BY <1>2, <1>3, <1>4, SettledInv

LEMMA FaultCounted == ASSUME JobsTypeOK, Fault PROVE faults' \in 0..MaxFaults
BY BoundsAssumption DEF JobsTypeOK, Fault

LEMMA FailInv == ASSUME JInv, NEW w \in Workers, Fail(w) PROVE JInv'
<1> DEFINE tries == worker[w].retries + 1
           over == tries >= MaxRetries
           new == [job[worker[w].job] EXCEPT !.status = IF over THEN "failed" ELSE "queued",
                                             !.retries = tries, !.ripe = over]
<1>1. worker[w].job \in Jobs /\ job[worker[w].job] \in JobType
  BY DEF JInv, JobsTypeOK, Fail
<1>2. worker[w].retries \in Nat /\ worker[w].retries < MaxRetries
  BY BoundsAssumption DEF JInv, JobsTypeOK, AttemptsLeft, WorkerType, Fail
<1>3. tries \in 0..MaxRetries /\ over \in BOOLEAN
  BY <1>2, BoundsAssumption
<1>4. new \in JobType
  BY <1>1, <1>3 DEF JobType, Statuses
<1>5. new.status = "queued" => new.retries < MaxRetries
  BY <1>1, <1>2, <1>3, BoundsAssumption DEF JobType
<1>6. job' = [job EXCEPT ![worker[w].job] = new]
  BY <1>1 DEF JInv, JobsTypeOK, Fail
<1>7. /\ Working(w) /\ worker' = [worker EXCEPT ![w] = Idle]
      /\ UNCHANGED <<now, asking, resets>> /\ faults' \in 0..MaxFaults
  BY FaultCounted DEF JInv, Fail
<1> QED BY <1>4, <1>5, <1>6, <1>7, SettledInv

LEMMA LoseInv == ASSUME JInv, NEW w \in Workers, Lose(w) PROVE JInv'
<1>1. worker' = [worker EXCEPT ![w] = Idle] /\ UNCHANGED <<job, now, asking, resets>> /\ faults' \in 0..MaxFaults
  BY FaultCounted DEF JInv, Lose
<1> QED BY <1>1, BackToIdle DEF JInv, JobsTypeOK, AttemptsLeft, HeldRuns, OneHolder

LEMMA StumbleInv == ASSUME JInv, NEW w \in Workers, Stumble(w) PROVE JInv'
<1>1. UNCHANGED <<job, worker, now, asking, resets>> /\ faults' \in 0..MaxFaults
  BY FaultCounted DEF JInv, Stumble
<1> QED BY <1>1 DEF JInv, JobsTypeOK, AttemptsLeft, HeldRuns, OneHolder, Holds, Working

\* Steps of others change rows nobody holds, or fail a bootstrap job.
LEMMA RowsInv ==
  ASSUME JInv, UNCHANGED <<worker, faults>>, job' \in [Jobs -> JobType],
         now' \in 0..MaxTime, asking' \in 0..MaxManual, resets' \in 0..MaxResets,
         \A j \in Jobs : job'[j].status = "queued" => job'[j].retries < MaxRetries,
         \A j \in Jobs : \/ \A w \in Workers : ~Holds(w, j)
                         \/ job'[j] = job[j]
                         \/ job'[j].type = "bootstrap" /\ job'[j].status = "failed"
  PROVE  JInv'
<1>1. \A v \in Workers, j \in Jobs : Holds(v, j)' <=> Holds(v, j)
  BY DEF Holds, Working
<1>2. HeldRuns'
  BY <1>1 DEF JInv, HeldRuns
<1>3. JobsTypeOK'
  BY DEF JInv, JobsTypeOK, Working
<1>4. AttemptsLeft'
  BY DEF JInv, AttemptsLeft, Working
<1>5. OneHolder'
  BY <1>1 DEF JInv, OneHolder
<1> QED BY <1>2, <1>3, <1>4, <1>5 DEF JInv

LEMMA AskSyncInv == ASSUME JInv, AskSync PROVE JInv'
<1>1. asking' \in 0..MaxManual
  BY BoundsAssumption DEF JInv, JobsTypeOK, AskSync
<1> QED BY <1>1 DEF AskSync, JInv, JobsTypeOK, AttemptsLeft, HeldRuns, OneHolder, Holds, Working

LEMMA InsertManualInv == ASSUME JInv, InsertManual PROVE JInv'
<1>1. PICK n \in Jobs : IsNext(n) /\ job' = [job EXCEPT ![n] = NewJob("manual")]
  BY DEF InsertManual
<1>2. NewJob("manual") \in JobType /\ NewJob("manual").retries = 0
  BY NewJobTyped DEF JInv, Types
<1>3. job' \in [Jobs -> JobType] /\ job'[n] = NewJob("manual") /\ \A j \in Jobs : j # n => job'[j] = job[j]
  BY <1>1, <1>2 DEF JInv, JobsTypeOK
<1>4. \A j \in Jobs : job'[j].status = "queued" => job'[j].retries < MaxRetries
  BY <1>2, <1>3, BoundsAssumption DEF JInv, AttemptsLeft
<1>5. \A j \in Jobs : (\A w \in Workers : ~Holds(w, j)) \/ job'[j] = job[j]
  BY <1>1, <1>3, FreeNotHeld
<1>6. asking' \in 0..MaxManual /\ UNCHANGED <<worker, now, resets, faults>>
  BY BoundsAssumption DEF InsertManual, JInv, JobsTypeOK
<1>7. now' \in 0..MaxTime /\ resets' \in 0..MaxResets
  BY <1>6 DEF JInv, JobsTypeOK
<1> QED BY <1>3, <1>4, <1>5, <1>6, <1>7, RowsInv

LEMMA RequeueBootstrapInv == ASSUME JInv, RequeueBootstrap PROVE JInv'
<1>1. PICK n \in Jobs : IsNext(n) /\ job' = [j \in Jobs |->
       IF j = n THEN NewJob("bootstrap")
       ELSE IF job[j].type = "bootstrap" /\ job[j].status = "running" THEN [job[j] EXCEPT !.status = "failed"]
       ELSE job[j]]
  BY DEF RequeueBootstrap
<1>2. NewJob("bootstrap") \in JobType /\ NewJob("bootstrap").retries = 0
  BY NewJobTyped DEF JInv, Types
<1>3. \A j \in Jobs : job[j] \in JobType
  BY DEF JInv, JobsTypeOK
<1>4. job' \in [Jobs -> JobType]
  BY <1>1, <1>2, <1>3 DEF JobType, Statuses
<1>5. ASSUME NEW j \in Jobs, j # n
      PROVE  \/ job'[j] = job[j]
             \/ job'[j].type = "bootstrap" /\ job'[j].status = "failed"
  BY <1>1, <1>3, <1>5 DEF JobType
<1>6. job'[n].retries = 0
  BY <1>1, <1>2
<1>7. \A j \in Jobs : job'[j].status = "queued" => job'[j].retries < MaxRetries
  BY <1>5, <1>6, BoundsAssumption DEF JInv, AttemptsLeft
<1>8. \A j \in Jobs : \/ \A w \in Workers : ~Holds(w, j)
                      \/ job'[j] = job[j]
                      \/ job'[j].type = "bootstrap" /\ job'[j].status = "failed"
  BY <1>1, <1>5, FreeNotHeld
<1>9. resets' \in 0..MaxResets /\ UNCHANGED <<worker, now, asking, faults>>
  BY BoundsAssumption DEF RequeueBootstrap, JInv, JobsTypeOK
<1>10. now' \in 0..MaxTime /\ asking' \in 0..MaxManual
  BY <1>9 DEF JInv, JobsTypeOK
<1> QED BY <1>4, <1>7, <1>8, <1>9, <1>10, RowsInv

LEMMA RipenInv == ASSUME JInv, NEW j \in Jobs, Ripen(j) PROVE JInv'
<1>1. job[j] \in JobType /\ job[j].status = "queued"
  BY DEF Ripen, JInv, JobsTypeOK
<1>2. job' \in [Jobs -> JobType] /\ job'[j].retries = job[j].retries /\ \A k \in Jobs : k # j => job'[k] = job[k]
  BY <1>1 DEF Ripen, JInv, JobsTypeOK, JobType
<1>3. \A k \in Jobs : job'[k].status = "queued" => job'[k].retries < MaxRetries
  BY <1>1, <1>2 DEF JInv, AttemptsLeft
<1>4. \A w \in Workers : ~Holds(w, j)
  BY <1>1 DEF JInv, HeldRuns
<1>5. \A k \in Jobs : (\A w \in Workers : ~Holds(w, k)) \/ job'[k] = job[k]
  BY <1>2, <1>4
<1>6. UNCHANGED <<worker, now, asking, resets, faults>>
  BY DEF Ripen
<1>7. now' \in 0..MaxTime /\ asking' \in 0..MaxManual /\ resets' \in 0..MaxResets
  BY <1>6 DEF JInv, JobsTypeOK
<1> QED BY <1>2, <1>3, <1>5, <1>6, <1>7, RowsInv

LEMMA NextIntervalInv == ASSUME JInv, NextInterval PROVE JInv'
<1>1. now' \in 0..MaxTime
  BY BoundsAssumption DEF JInv, JobsTypeOK, NextInterval
<1> QED BY <1>1 DEF NextInterval, JInv, JobsTypeOK, AttemptsLeft, HeldRuns, OneHolder, Holds, Working

LEMMA JobsStep == JInv /\ [JobsNext]_jobVars => JInv'
<1> SUFFICES ASSUME JInv, [JobsNext]_jobVars PROVE JInv'
  OBVIOUS
<1>1. CASE \E w \in Workers : Poll(w) \/ ScheduleDelta(w) \/ NothingToClaim(w)
  BY <1>1, PollInv, ScheduleDeltaInv, NothingToClaimInv
<1>2. CASE \E w \in Workers, j \in Jobs : Claim(w, j)
  BY <1>2, ClaimInv
<1>3. CASE \E w \in Workers : Succeed(w) \/ Fail(w) \/ Lose(w) \/ Stumble(w)
  BY <1>3, SucceedInv, FailInv, LoseInv, StumbleInv
<1>4. CASE AskSync \/ InsertManual \/ RequeueBootstrap \/ NextInterval
  BY <1>4, AskSyncInv, InsertManualInv, RequeueBootstrapInv, NextIntervalInv
<1>5. CASE \E j \in Jobs : Ripen(j)
  BY <1>5, RipenInv
<1>6. CASE UNCHANGED jobVars
  BY <1>6 DEF jobVars, JInv, JobsTypeOK, AttemptsLeft, HeldRuns, OneHolder, Holds, Working
<1> QED BY <1>1, <1>2, <1>3, <1>4, <1>5, <1>6 DEF JobsNext

THEOREM JobsInvariant == JobsSpec => []JInv
BY JobsInitInv, JobsStep, PTL DEF JobsSpec

-----------------------------------------------------------------------------
(* The number of delta jobs. *)

LEMMA SmallSets ==
  /\ IsFiniteSet(ActiveDeltas) /\ IsFiniteSet(Schedulers)
  /\ Cardinality(ActiveDeltas) \in Nat /\ Cardinality(Schedulers) \in Nat /\ Cardinality(Workers) \in Nat
<1>1. IsFiniteSet(Jobs)
  BY BoundsAssumption, FS_Interval DEF Jobs
<1>2. ActiveDeltas \subseteq Jobs /\ Schedulers \subseteq Workers
  BY DEF ActiveDeltas, OfType, Schedulers
<1> QED BY <1>1, <1>2, WorkersAssumption, FS_Subset, FS_CardinalityType

LEMMA SmallSetsAfter ==
  /\ IsFiniteSet(ActiveDeltas') /\ IsFiniteSet(Schedulers')
  /\ Cardinality(ActiveDeltas') \in Nat /\ Cardinality(Schedulers') \in Nat
<1>1. IsFiniteSet(Jobs)
  BY BoundsAssumption, FS_Interval DEF Jobs
<1>2. ActiveDeltas' \subseteq Jobs /\ Schedulers' \subseteq Workers
  BY DEF ActiveDeltas, OfType, Schedulers
<1> QED BY <1>1, <1>2, WorkersAssumption, FS_Subset, FS_CardinalityType

\* A step that adds neither a delta job nor somebody about to insert one.
LEMMA NoneAdded ==
  ASSUME DeltasReserved, ActiveDeltas' \subseteq ActiveDeltas, Schedulers' \subseteq Schedulers
  PROVE  DeltasReserved'
<1>1. Cardinality(ActiveDeltas') <= Cardinality(ActiveDeltas) /\ Cardinality(Schedulers') <= Cardinality(Schedulers)
  BY SmallSets, FS_Subset
<1> QED BY <1>1, SmallSets, SmallSetsAfter DEF DeltasReserved

LEMMA PollReserves == ASSUME JInv, DeltasReserved, NEW w \in Workers, Poll(w) PROVE DeltasReserved'
<1>1. CASE DeltaDue /\ Free # {}
  <2>1. ActiveDeltas' = {}
    BY <1>1 DEF Poll, DeltaDue, ActiveDeltas, OfType, Active
  <2>2. Schedulers' \subseteq Workers
    BY DEF Schedulers
  <2>3. Cardinality(Schedulers') <= Cardinality(Workers)
    BY <2>2, WorkersAssumption, FS_Subset
  <2>4. Cardinality(ActiveDeltas') = 0
    BY <2>1, FS_EmptySet
  <2> QED BY <2>3, <2>4, SmallSetsAfter DEF DeltasReserved
<1>2. CASE ~(DeltaDue /\ Free # {})
  <2>1. ActiveDeltas' = ActiveDeltas
    BY DEF Poll, ActiveDeltas, OfType, Active
  <2>2. Schedulers' \subseteq Schedulers
    BY <1>2 DEF Poll, Schedulers, JInv, JobsTypeOK, WorkerType
  <2> QED BY <2>1, <2>2, NoneAdded
<1> QED BY <1>1, <1>2

LEMMA ScheduleReserves == ASSUME JInv, DeltasReserved, NEW w \in Workers, ScheduleDelta(w) PROVE DeltasReserved'
<1>1. w \in Schedulers /\ Schedulers' = Schedulers \ {w}
  BY DEF ScheduleDelta, Schedulers, JInv, JobsTypeOK, WorkerType
<1>2. Cardinality(Schedulers') = Cardinality(Schedulers) - 1
  BY <1>1, SmallSets, FS_RemoveElement
<1>3. CASE \E n \in Jobs : IsNext(n)
  <2>1. PICK n \in Jobs : IsNext(n)
    BY <1>3
  <2>2. \A j \in Jobs : IsNext(j) => j = n
    BY <2>1 DEF IsNext, Free, Jobs
  <2>3. ActiveDeltas' \subseteq ActiveDeltas \cup {n}
    BY <2>2 DEF ScheduleDelta, ActiveDeltas, OfType, Active
  <2>4. IsFiniteSet(ActiveDeltas \cup {n}) /\ Cardinality(ActiveDeltas \cup {n}) <= Cardinality(ActiveDeltas) + 1
    <3>1. IsFiniteSet(ActiveDeltas)
      BY SmallSets
    <3>2. IsFiniteSet(ActiveDeltas \cup {n})
      BY <3>1, FS_AddElement
    <3>3. Cardinality(ActiveDeltas \cup {n}) = IF n \in ActiveDeltas THEN Cardinality(ActiveDeltas)
                                               ELSE Cardinality(ActiveDeltas) + 1
      BY <3>1, FS_AddElement
    <3> QED BY <3>2, <3>3, SmallSets
  <2>5. Cardinality(ActiveDeltas') <= Cardinality(ActiveDeltas \cup {n}) /\ Cardinality(ActiveDeltas \cup {n}) \in Nat
    BY <2>3, <2>4, FS_Subset, FS_CardinalityType
  <2> QED BY <1>2, <2>4, <2>5, SmallSets, SmallSetsAfter DEF DeltasReserved
<1>4. CASE ~\E n \in Jobs : IsNext(n)
  <2>1. ActiveDeltas' \subseteq ActiveDeltas
    BY <1>4 DEF ScheduleDelta, ActiveDeltas, OfType, Active
  <2> QED BY <1>1, <2>1, NoneAdded
<1> QED BY <1>3, <1>4

\* Leaving a step of the loop never leads to "scheduling".
LEMMA IdleReserves ==
  ASSUME JInv, NEW w \in Workers, worker' = [worker EXCEPT ![w] = Idle]
  PROVE  Schedulers' \subseteq Schedulers
BY DEF Schedulers, Idle, JInv, JobsTypeOK

LEMMA WorkReserves ==
  ASSUME JInv, DeltasReserved, NEW w \in Workers,
         \/ \E j \in Jobs : Claim(w, j)
         \/ NothingToClaim(w) \/ Succeed(w) \/ Fail(w) \/ Lose(w) \/ Stumble(w)
  PROVE  DeltasReserved'
<1>1. ASSUME NEW j \in Jobs, Claim(w, j) PROVE DeltasReserved'
  <2>1. ActiveDeltas' \subseteq ActiveDeltas
    <3>1. job[j].status = "queued"
      BY <1>1 DEF Claim, Claimable
    <3> QED BY <1>1, <3>1 DEF Claim, ActiveDeltas, OfType, Active, JInv, JobsTypeOK, JobType
  <2>2. Schedulers' \subseteq Schedulers
    BY <1>1 DEF Claim, Schedulers, JInv, JobsTypeOK
  <2> QED BY <2>1, <2>2, NoneAdded
<1>2. CASE NothingToClaim(w) \/ Lose(w)
  <2>1. ActiveDeltas' = ActiveDeltas
    BY <1>2 DEF NothingToClaim, Lose, ActiveDeltas, OfType, Active
  <2> QED BY <1>2, <2>1, IdleReserves, NoneAdded DEF NothingToClaim, Lose
<1>3. CASE Stumble(w)
  BY <1>3, NoneAdded DEF Stumble, ActiveDeltas, OfType, Active, Schedulers
<1>4. CASE Succeed(w)
  <2>1. ActiveDeltas' \subseteq ActiveDeltas
    BY <1>4 DEF Succeed, ActiveDeltas, OfType, Active, JInv, JobsTypeOK, JobType
  <2> QED BY <1>4, <2>1, IdleReserves, NoneAdded DEF Succeed
<1>5. CASE Fail(w)
  <2> DEFINE mine == worker[w].job
  <2>1. mine \in Jobs /\ Holds(w, mine)
    BY <1>5 DEF Fail, JInv, JobsTypeOK, Holds
  <2>2. job[mine].type = "delta" => job[mine].status = "running"
    BY <2>1 DEF JInv, HeldRuns
  <2>3. \A j \in Jobs : job'[j].type = job[j].type /\ (j # mine => job'[j] = job[j])
    BY <1>5, <2>1 DEF Fail, JInv, JobsTypeOK, JobType
  <2>4. ActiveDeltas' \subseteq ActiveDeltas
    BY <2>2, <2>3 DEF ActiveDeltas, OfType, Active
  <2> QED BY <1>5, <2>4, IdleReserves, NoneAdded DEF Fail
<1> QED BY <1>1, <1>2, <1>3, <1>4, <1>5

LEMMA OthersReserve ==
  ASSUME JInv, DeltasReserved,
         \/ AskSync \/ InsertManual \/ RequeueBootstrap \/ NextInterval
         \/ \E j \in Jobs : Ripen(j)
         \/ UNCHANGED jobVars
  PROVE  DeltasReserved'
<1>1. UNCHANGED worker
  BY DEF AskSync, InsertManual, RequeueBootstrap, NextInterval, Ripen, jobVars
<1>2. Schedulers' = Schedulers
  BY <1>1 DEF Schedulers
<1>3. CASE AskSync \/ NextInterval \/ UNCHANGED jobVars
  <2>1. ActiveDeltas' = ActiveDeltas
    BY <1>3 DEF AskSync, NextInterval, jobVars, ActiveDeltas, OfType, Active
  <2> QED BY <1>2, <2>1, NoneAdded
<1>4. CASE InsertManual
  <2>1. NewJob("manual").type = "manual"
    BY NewJobTyped DEF JInv, Types
  <2>2. ActiveDeltas' \subseteq ActiveDeltas
    BY <1>4, <2>1 DEF InsertManual, ActiveDeltas, OfType, Active, JInv, JobsTypeOK
  <2> QED BY <1>2, <2>2, NoneAdded
<1>5. CASE RequeueBootstrap
  <2>1. NewJob("bootstrap").type = "bootstrap"
    BY NewJobTyped DEF JInv, Types
  <2>2. ActiveDeltas' \subseteq ActiveDeltas
    BY <1>5, <2>1 DEF RequeueBootstrap, ActiveDeltas, OfType, Active, JInv, JobsTypeOK, JobType
  <2> QED BY <1>2, <2>2, NoneAdded
<1>6. CASE \E j \in Jobs : Ripen(j)
  <2>1. ActiveDeltas' \subseteq ActiveDeltas
    BY <1>6 DEF Ripen, ActiveDeltas, OfType, Active, JInv, JobsTypeOK, JobType
  <2> QED BY <1>2, <2>1, NoneAdded
<1> QED BY <1>3, <1>4, <1>5, <1>6

LEMMA ReservedInit == JobsInit => DeltasReserved
<1> SUFFICES ASSUME JobsInit PROVE DeltasReserved
  OBVIOUS
<1>1. ActiveDeltas = {} /\ Schedulers = {}
  BY DEF JobsInit, ActiveDeltas, Schedulers, OfType, NoJob, Idle
<1> QED BY <1>1, FS_EmptySet, SmallSets DEF DeltasReserved

LEMMA ReservedStep == JInv /\ DeltasReserved /\ [JobsNext]_jobVars => DeltasReserved'
BY PollReserves, ScheduleReserves, WorkReserves, OthersReserve DEF JobsNext

-----------------------------------------------------------------------------
(* What follows. *)

\* The tables of the queue keep their types (sync_job and the poll loops).
THEOREM JobsTypeCorrect == JobsSpec => []JobsTypeOK
BY JobsInvariant, PTL DEF JInv

\* No job is worked on by two processes, with any number of crashes, retries
\* and resets (claimNextSyncJob, markJobFailure, the requeue script).
THEOREM OneHolderAtMost == JobsSpec => []OneHolder
BY JobsInvariant, PTL DEF JInv

\* What is on offer has attempts left, so no job goes round for ever.
THEOREM AttemptsAreBounded == JobsSpec => []AttemptsLeft
BY JobsInvariant, PTL DEF JInv

\* However many processes look at once, no more delta jobs than processes are
\* ever active (scheduleDeltaJobs).
THEOREM DeltaJobsBounded == JobsSpec => []DeltasBounded
<1>1. DeltasReserved => DeltasBounded
  BY SmallSets DEF DeltasReserved, DeltasBounded
<1>2. JobsSpec => []DeltasReserved
  BY JobsInvariant, ReservedInit, ReservedStep, PTL DEF JobsSpec
<1> QED BY <1>1, <1>2, PTL

-----------------------------------------------------------------------------
(* SyncWorker implements SyncJobs. *)

LEMMA WorkerStepIsJobsStep == [Next]_vars => [JobsNext]_jobVars
<1> SUFFICES ASSUME [Next]_vars PROVE [JobsNext]_jobVars
  OBVIOUS
<1>1. ASSUME NEW w \in Workers, Step(w) PROVE [JobsNext]_jobVars
  <2>1. CASE Poll(w) \/ ScheduleDelta(w) \/ NothingToClaim(w) \/ \E j \in Jobs : Start(w, j)
    BY <2>1 DEF Start, JobsNext
  <2>2. CASE FinishJob(w)
    BY <2>2 DEF FinishJob, JobsNext
  <2>3. CASE \/ ReadDue(w) \/ RetryStored(w) \/ RetryResolved(w) \/ RoundDone(w)
             \/ \E p \in Pages : RetryFetched(w, p)
    BY <2>3 DEF ReadDue, RetryStored, RetryResolved, RoundDone, RetryFetched
  <2>4. CASE StartPass(w) \/ FetchPage(w) \/ StorePage(w) \/ LogPage(w) \/ EndPass(w)
    BY <2>4 DEF StartPass, FetchPage, StorePage, LogPage, EndPass
  <2> QED BY <1>1, <2>1, <2>2, <2>3, <2>4 DEF Step
<1>2. ASSUME NEW w \in Workers, Trouble(w) PROVE [JobsNext]_jobVars
  <2>1. CASE \E retryable \in BOOLEAN : PageFailed(w, retryable)
    BY <2>1 DEF PageFailed, JobsNext
  <2>2. CASE \E retryable \in BOOLEAN, p \in Pages : RetryFailed(w, p, retryable)
    BY <2>2 DEF RetryFailed
  <2>3. CASE SkipEnrichment(w) \/ FailJob(w) \/ LoseJob(w)
    BY <2>3 DEF SkipEnrichment, FailJob, LoseJob, JobsNext
  <2> QED BY <1>2, <2>1, <2>2, <2>3 DEF Trouble
<1>3. CASE Outside
  BY <1>3 DEF Outside, Requeue, Change, TakeAway, JobsNext
<1>4. CASE Ripening
  BY <1>4 DEF Ripening, JobsNext
<1>5. CASE UNCHANGED vars
  BY <1>5 DEF vars
<1> QED BY <1>1, <1>2, <1>3, <1>4, <1>5 DEF Next

\* Whatever the worker does with its job, pages, backlog and data, it keeps to
\* the queue's protocol (syncWorker.js against syncJob.js).
THEOREM WorkerIsAQueueUser == Spec => JobsSpec
BY WorkerStepIsJobsStep, PTL DEF Spec, Init, JobsSpec

\* ... so that a job at work has one worker there too.
THEOREM OneWorkerPerJob == Spec => []OneHolder
BY WorkerIsAQueueUser, OneHolderAtMost, PTL

=============================================================================
