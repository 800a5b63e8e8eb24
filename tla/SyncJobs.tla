------------------------------ MODULE SyncJobs ------------------------------
(***************************************************************************)
(* The queue of synchronisation jobs of one tenant (table sync_job) and    *)
(* the poll loop of the server processes that work on it.                  *)
(*                                                                         *)
(* What a job does while it is "working" is left open here: the worker may *)
(* finish it, fail it, die, or meet an error it survives, at any moment.   *)
(* SyncWorker fills that in and implements JobsSpec.                       *)
(*                                                                         *)
(* Time is counted in delta intervals (12 hours); the back-off of a failed *)
(* job is the flag "ripe".                                                 *)
(***************************************************************************)
EXTENDS Integers, FiniteSets

CONSTANTS
  Workers,      \* server processes, each with its own poll loop
  MaxJobs,      \* bound: rows of sync_job
  MaxRetries,   \* MAX_JOB_RETRIES
  MaxTime,      \* bound: delta intervals
  MaxManual,    \* bound: manual requests that have looked but not yet inserted
  MaxResets,    \* bound: runs of the requeue script
  MaxFaults,    \* bound: errors and crashes
  None

ASSUME WorkersAssumption == IsFiniteSet(Workers)
ASSUME BoundsAssumption ==
  /\ MaxJobs \in Nat \ {0}
  /\ MaxRetries \in Nat \ {0}
  /\ MaxTime \in Nat /\ MaxManual \in Nat /\ MaxResets \in Nat /\ MaxFaults \in Nat
ASSUME NoneAssumption == None \notin 1..MaxJobs

VARIABLES
  job,      \* the rows of sync_job
  worker,   \* where each poll loop is, and the row its claim returned
  now,      \* the delta interval
  asking,   \* manual requests between their look-up and their insert
  resets,   \* runs of the script so far
  faults    \* errors and crashes so far

jobVars == <<job, worker, now, asking, resets, faults>>

-----------------------------------------------------------------------------
Jobs == 1..MaxJobs
Types == {"bootstrap", "delta", "manual"}
Statuses == {"absent", "queued", "running", "success", "failed"}

JobType == [type : Types, status : Statuses, retries : 0..MaxRetries, ripe : BOOLEAN, born : 0..MaxTime]
WorkerType == [at : {"idle", "scheduling", "claiming", "working"}, job : Jobs \cup {None},
               retries : 0..MaxRetries]

Idle == [at |-> "idle", job |-> None, retries |-> 0]
NoJob == [type |-> "delta", status |-> "absent", retries |-> 0, ripe |-> TRUE, born |-> 0]
NewJob(t) == [type |-> t, status |-> "queued", retries |-> 0, ripe |-> TRUE, born |-> now]

Working(w) == worker[w].at = "working"
Holds(w, j) == Working(w) /\ worker[w].job = j
Active(j) == job[j].status \in {"queued", "running"}
OfType(t) == {j \in Jobs : job[j].type = t /\ job[j].status # "absent"}

\* Rows are numbered in the order of their creation.
Free == {j \in Jobs : job[j].status = "absent"}
IsNext(j) == j \in Free /\ \A k \in Free : j <= k

-----------------------------------------------------------------------------
\* The conditions of the INSERT ... SELECT that schedules delta jobs.
DeltaDue ==
  /\ \E j \in OfType("bootstrap") : job[j].status = "success"
  /\ \A j \in OfType("delta") : ~Active(j) /\ job[j].born < now

\* A process sees whether a delta job is due (with nothing due it goes on to
\* its claim) ...
Poll(w) ==
  /\ worker[w].at = "idle"
  /\ worker' = [worker EXCEPT ![w].at = IF DeltaDue /\ Free # {} THEN "scheduling" ELSE "claiming"]
  /\ UNCHANGED <<job, now, asking, resets, faults>>

\* ... and inserts it; another process may have seen the same.
ScheduleDelta(w) ==
  /\ worker[w].at = "scheduling"
  /\ job' = [j \in Jobs |-> IF IsNext(j) THEN NewJob("delta") ELSE job[j]]
  /\ worker' = [worker EXCEPT ![w].at = "claiming"]
  /\ UNCHANGED <<now, asking, resets, faults>>

-----------------------------------------------------------------------------
Rank(t) == [manual |-> 0, bootstrap |-> 1, delta |-> 3][t]
Claimable(j) == job[j].status = "queued" /\ job[j].ripe
ComesFirst(j, k) ==
  \/ Rank(job[j].type) < Rank(job[k].type)
  \/ Rank(job[j].type) = Rank(job[k].type) /\ j <= k

Claim(w, j) ==
  /\ worker[w].at = "claiming"
  /\ Claimable(j) /\ \A k \in Jobs : Claimable(k) => ComesFirst(j, k)
  /\ job' = [job EXCEPT ![j].status = "running"]
  /\ worker' = [worker EXCEPT ![w] = [at |-> "working", job |-> j, retries |-> job[j].retries]]
  /\ UNCHANGED <<now, asking, resets, faults>>

NothingToClaim(w) ==
  /\ worker[w].at = "claiming" /\ \A j \in Jobs : ~Claimable(j)
  /\ worker' = [worker EXCEPT ![w] = Idle]
  /\ UNCHANGED <<job, now, asking, resets, faults>>

\* Both ways of settling a job write its row whatever its status is by then.
Succeed(w) ==
  /\ Working(w)
  /\ job' = [job EXCEPT ![worker[w].job].status = "success", ![worker[w].job].ripe = TRUE]
  /\ worker' = [worker EXCEPT ![w] = Idle]
  /\ UNCHANGED <<now, asking, resets, faults>>

Fault == faults < MaxFaults /\ faults' = faults + 1

Fail(w) ==
  /\ Working(w) /\ Fault
  /\ LET tries == worker[w].retries + 1
         over == tries >= MaxRetries
     IN job' = [job EXCEPT ![worker[w].job].status = IF over THEN "failed" ELSE "queued",
                           ![worker[w].job].retries = tries,
                           ![worker[w].job].ripe = over]
  /\ worker' = [worker EXCEPT ![w] = Idle]
  /\ UNCHANGED <<now, asking, resets>>

\* Work on a job may meet an error and go on.
Stumble(w) ==
  /\ Working(w) /\ Fault
  /\ UNCHANGED <<job, worker, now, asking, resets>>

\* The process dies, or the statement that would record the failure fails
\* too: the row stays "running".
Lose(w) ==
  /\ Working(w) /\ Fault
  /\ worker' = [worker EXCEPT ![w] = Idle]
  /\ UNCHANGED <<job, now, asking, resets>>

-----------------------------------------------------------------------------
\* requestSync and queueFitterhoursSync: look for an active job of the
\* endpoint, then insert one, with no lock in between.
AskSync ==
  /\ asking < MaxManual /\ \A j \in OfType("manual") : ~Active(j)
  /\ asking' = asking + 1
  /\ UNCHANGED <<job, worker, now, resets, faults>>

InsertManual ==
  /\ asking > 0
  /\ \E j \in Jobs : IsNext(j) /\ job' = [job EXCEPT ![j] = NewJob("manual")]
  /\ asking' = asking - 1
  /\ UNCHANGED <<worker, now, resets, faults>>

\* restart_and_requeue_bootstrap.js, in one transaction.
RequeueBootstrap ==
  /\ resets < MaxResets /\ resets' = resets + 1
  /\ \E n \in Jobs : IsNext(n) /\ job' = [j \in Jobs |->
       IF j = n THEN NewJob("bootstrap")
       ELSE IF job[j].type = "bootstrap" /\ job[j].status = "running" THEN [job[j] EXCEPT !.status = "failed"]
       ELSE job[j]]
  /\ UNCHANGED <<worker, now, asking, faults>>

\* next_retry_at is reached.
Ripen(j) ==
  /\ job[j].status = "queued" /\ ~job[j].ripe
  /\ job' = [job EXCEPT ![j].ripe = TRUE]
  /\ UNCHANGED <<worker, now, asking, resets, faults>>

NextInterval ==
  /\ now < MaxTime /\ now' = now + 1
  /\ UNCHANGED <<job, worker, asking, resets, faults>>

-----------------------------------------------------------------------------
\* Onboarding has queued the first bootstrap job.
JobsInit ==
  /\ job = [j \in Jobs |-> IF j = 1 THEN [NoJob EXCEPT !.type = "bootstrap", !.status = "queued"] ELSE NoJob]
  /\ worker = [w \in Workers |-> Idle]
  /\ now = 0 /\ asking = 0 /\ resets = 0 /\ faults = 0

JobsNext ==
  \/ \E w \in Workers :
       \/ Poll(w) \/ ScheduleDelta(w) \/ NothingToClaim(w)
       \/ \E j \in Jobs : Claim(w, j)
       \/ Succeed(w) \/ Fail(w) \/ Lose(w) \/ Stumble(w)
  \/ AskSync \/ InsertManual \/ RequeueBootstrap \/ NextInterval
  \/ \E j \in Jobs : Ripen(j)

JobsSpec == JobsInit /\ [][JobsNext]_jobVars

-----------------------------------------------------------------------------
\* Types of the queue's variables.
JobsTypeOK ==
  /\ job \in [Jobs -> JobType]
  /\ worker \in [Workers -> WorkerType]
  /\ \A w \in Workers : Working(w) => worker[w].job \in Jobs
  /\ now \in 0..MaxTime /\ asking \in 0..MaxManual /\ resets \in 0..MaxResets /\ faults \in 0..MaxFaults

\* Two processes never work on the same job, whatever failed, was queued again
\* or was reset under a process still at work (claimNextSyncJob, markJobFailure).
OneHolder == \A v, w \in Workers, j \in Jobs : Holds(v, j) /\ Holds(w, j) => v = w

\* A job somebody works on is not on offer, so a failure that is queued again
\* was its worker's own.
HeldIsTaken == \A w \in Workers, j \in Jobs : Holds(w, j) => job[j].status \in {"running", "failed"}

\* A job on offer has attempts left: a page that always fails cannot keep a
\* job going round for ever.
AttemptsLeft ==
  /\ \A j \in Jobs : job[j].status = "queued" => job[j].retries < MaxRetries
  /\ \A w \in Workers : Working(w) => worker[w].retries < MaxRetries

\* As many delta jobs as there are processes can be active at once, when all
\* of them looked before the first had inserted, and never more: once one is
\* there, nobody adds a second to it (scheduleDeltaJobs).
ActiveDeltas == {j \in OfType("delta") : Active(j)}
DeltasBounded == Cardinality(ActiveDeltas) <= Cardinality(Workers)

=============================================================================
