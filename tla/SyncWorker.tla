----------------------------- MODULE SyncWorker -----------------------------
(***************************************************************************)
(* What a worker does with a job of SyncJobs: first the retry round of     *)
(* every endpoint's backlog, then a pass over every endpoint, page by      *)
(* page.  A page that cannot be had goes to the backlog and the pass goes  *)
(* on with the next one.                                                   *)
(*                                                                         *)
(* Three endpoints stand for the ways of reading pages.  "projects_v4"     *)
(* stores a page, its log and the endpoint's state in one transaction.     *)
(* "projects_v3" enriches what v4 has stored, one row after the other, and *)
(* its failure is not the job's.  "worksheets" stores and logs in two      *)
(* transactions and reconciles at the end of a full pass.  Manual jobs,    *)
(* which read none of them, are left to SyncJobs.                          *)
(*                                                                         *)
(* The remote system's rows carry the logical time of their last change,   *)
(* and a page is a slice of the listing in row order.                      *)
(***************************************************************************)
EXTENDS SyncJobs, Sequences

CONSTANTS
  Endpoints,    \* the tenant's endpoints in their order of execution
  Rows,         \* ids of remote rows
  PageSize,     \* PAGE_SIZE
  MaxTries,     \* MAX_BACKLOG_ATTEMPTS
  MaxClock      \* bound: changes of remote rows, counted from 1

ASSUME EndpointsAssumption ==
  Endpoints \in Seq({"projects_v4", "projects_v3", "worksheets"}) /\ Endpoints # <<>>
ASSUME RowsAssumption == Rows \subseteq Nat /\ IsFiniteSet(Rows)
ASSUME SizesAssumption == PageSize \in Nat \ {0} /\ MaxTries \in Nat \ {0} /\ MaxClock \in Nat \ {0}

VARIABLES
  remote,    \* per endpoint, the time each row was last changed (0: not listed)
  clock,     \* logical time
  store,     \* per endpoint, the change that each stored row reflects (0: none)
  source,    \* worksheets: the reconciliation an access source was last seen by
  endpoint,  \* sync_endpoint_state: last successful page and watermark
  backlog,   \* sync_failure_backlog: one entry per endpoint and page
  run        \* the local variables of a worker's job

passVars == <<remote, clock, store, source, endpoint, backlog, run>>
vars == <<jobVars, passVars>>
data == <<remote, clock, store, source, endpoint, backlog>>

-----------------------------------------------------------------------------
Selected == {Endpoints[i] : i \in 1..Len(Endpoints)}
LastPage == Cardinality(Rows) \div PageSize + 1
\* Failing pages push a pass past the end; each push is a fault.
Pages == 1..(LastPage + 1 + MaxFaults)
Unmarked == 0       \* seen by no reconciliation
Absent == -1

\* The rows a listing shows, those changed after the given time, and its pages.
Listed(e, after) == {r \in Rows : remote[e][r] > after}
Position(e, after, r) == Cardinality({q \in Listed(e, after) : q <= r})
Page(e, after, p) ==
  {r \in Listed(e, after) : Position(e, after, r) \in ((p - 1) * PageSize + 1)..(p * PageSize)}
Copy(e, rows) == [r \in rows |-> remote[e][r]]
Nothing == [r \in {} |-> 0]

Pending(e) == {p \in Pages : backlog[e][p].status = "deferred"}
Failed(e) == {p \in Pages : backlog[e][p].status = "failed"}

NoRun == [step |-> "none", i |-> 1, due |-> [p \in {} |-> 0], page |-> 0, after |-> 0, last |-> 0, have |-> Nothing,
          seen |-> 0, full |-> FALSE, alone |-> TRUE, still |-> TRUE]
At(w, s) == Working(w) /\ run[w].step = s
Type(w) == job[worker[w].job].type
E(w) == Endpoints[run[w].i]
AtEnd(w) == run[w].i > Len(Endpoints)

\* After the retry round of one endpoint, and before the first: the next
\* endpoint's round, or the passes.
Round(w, i) ==
  IF i > Len(Endpoints) THEN [NoRun EXCEPT !.step = "passes", !.alone = run[w].alone]
  ELSE [NoRun EXCEPT !.step = "rounds", !.alone = run[w].alone, !.i = i]

\* A run has another process's job beside it.
Alone(w) == \A v \in Workers \ {w} : ~Working(v)

-----------------------------------------------------------------------------
\* A claim starts the job with the backlog, and no other run is alone any more.
Start(w, j) ==
  /\ Claim(w, j)
  /\ run' = [v \in Workers |->
               IF v = w THEN [NoRun EXCEPT !.step = "rounds", !.alone = Alone(w)]
               ELSE IF Working(v) THEN [run[v] EXCEPT !.alone = FALSE] ELSE run[v]]
  /\ UNCHANGED data

\* When a pending page is due is a choice; with none due there is no round.
ReadDue(w) ==
  /\ At(w, "rounds")
  /\ \E due \in SUBSET Pending(E(w)) :
       run' = [run EXCEPT ![w] = IF due = {} THEN Round(w, run[w].i + 1)
                                 ELSE [@ EXCEPT !.step = "retry", !.due = [p \in due |-> backlog[E(w)][p].tries]]]
  /\ UNCHANGED <<jobVars, data>>

\* What a retry makes of a page: no row of v3 carries a status, and the retry
\* round keeps rows with a status only, unlike the pass.
Kept(e, rows) == IF e = "projects_v3" THEN Nothing ELSE Copy(e, rows)

\* A mutant of RetryFetched: the page is asked for with the filter of a delta.
RetryFetchedFiltered(w, p) ==
  /\ At(w, "retry") /\ p \in DOMAIN run[w].due
  /\ run' = [run EXCEPT ![w].step = "retried", ![w].page = p, ![w].seen = clock,
                        ![w].have = Kept(E(w), Page(E(w), endpoint[E(w)].mark, p)), ![w].still = TRUE]
  /\ UNCHANGED <<jobVars, data>>

\* The page is asked for again without a filter, ...
RetryFetched(w, p) ==
  /\ At(w, "retry") /\ p \in DOMAIN run[w].due
  /\ run' = [run EXCEPT ![w].step = "retried", ![w].page = p, ![w].seen = clock,
                        ![w].have = Kept(E(w), Page(E(w), 0, p)), ![w].still = TRUE]
  /\ UNCHANGED <<jobVars, data>>

\* v3 only adds to projects that v4 has stored.
Known(e, r) == e = "projects_v3" => "projects_v4" \in Selected /\ store["projects_v4"][r] # 0
Upsert(e, rows) ==
  store' = [store EXCEPT ![e] = [r \in Rows |-> IF r \in DOMAIN rows /\ Known(e, r) THEN rows[r] ELSE @[r]]]
Mark(e, rows, m) ==
  source' = IF e = "worksheets" THEN [r \in Rows |-> IF r \in DOMAIN rows THEN m ELSE source[r]] ELSE source
Resolve(e, p) == backlog' = [backlog EXCEPT ![e][p].status = "resolved"]
Forget(w, p) == [q \in DOMAIN run[w].due \ {p} |-> run[w].due[q]]

\* ... stored, for v4 together with the end of the entry, ...
RetryStored(w) ==
  /\ At(w, "retried")
  /\ Upsert(E(w), run[w].have) /\ Mark(E(w), run[w].have, Unmarked)
  /\ IF E(w) = "projects_v4"
     THEN /\ Resolve(E(w), run[w].page)
          /\ run' = [run EXCEPT ![w].step = "retry", ![w].due = Forget(w, run[w].page), ![w].have = Nothing]
     ELSE run' = [run EXCEPT ![w].step = "resolving"] /\ UNCHANGED backlog
  /\ UNCHANGED <<jobVars, remote, clock, endpoint>>

RetryResolved(w) ==
  /\ At(w, "resolving")
  /\ Resolve(E(w), run[w].page)
  /\ run' = [run EXCEPT ![w].step = "retry", ![w].due = Forget(w, run[w].page), ![w].have = Nothing]
  /\ UNCHANGED <<jobVars, remote, clock, store, source, endpoint>>

\* ... or fails once more: the count is one more than the count read.
RetryFailed(w, p, retryable) ==
  /\ \/ At(w, "retry") /\ p \in DOMAIN run[w].due
     \/ (At(w, "retried") \/ At(w, "resolving")) /\ p = run[w].page
  /\ LET tries == run[w].due[p] + 1
     IN backlog' = [backlog EXCEPT ![E(w)][p] =
          [status |-> IF ~retryable \/ tries >= MaxTries THEN "failed" ELSE "deferred", tries |-> tries]]
  /\ run' = [run EXCEPT ![w].step = "retry", ![w].due = Forget(w, p), ![w].have = Nothing]
  /\ UNCHANGED <<jobVars, remote, clock, store, source, endpoint>>

RoundDone(w) ==
  /\ At(w, "retry") /\ DOMAIN run[w].due = {}
  /\ run' = [run EXCEPT ![w] = Round(w, run[w].i + 1)]
  /\ UNCHANGED <<jobVars, data>>

-----------------------------------------------------------------------------
\* The state read here decides the filter and the first page.
StrictDelta(w) ==
  /\ Type(w) = "delta" /\ endpoint[E(w)].mark # 0
  /\ E(w) # "worksheets" => Pending(E(w)) = {}

StartPass(w) ==
  /\ At(w, "passes") /\ ~AtEnd(w)
  /\ LET first == IF Type(w) = "bootstrap" THEN 1 ELSE endpoint[E(w)].page + 1
         after == IF StrictDelta(w) THEN endpoint[E(w)].mark ELSE 0
     IN run' = [run EXCEPT ![w].step = "fetch", ![w].page = first, ![w].after = after, ![w].last = endpoint[E(w)].page,
                           ![w].seen = clock, ![w].full = (first = 1 /\ after = 0),
                           ![w].alone = Alone(w), ![w].still = TRUE]
  /\ UNCHANGED <<jobVars, data>>

FetchPage(w) ==
  /\ At(w, "fetch") /\ run[w].page \in Pages
  /\ run' = [run EXCEPT ![w].step = "have", ![w].have = Copy(E(w), Page(E(w), run[w].after, run[w].page))]
  /\ UNCHANGED <<jobVars, data>>

Logged(w) == [endpoint EXCEPT ![E(w)].page = run[w].page]

\* A mutant of NextPage: a full page does not advance the page.
NextPageStays(w) ==
  LET rows == Cardinality(DOMAIN run[w].have)
  IN run' = [run EXCEPT ![w].step = IF rows < PageSize THEN "ending" ELSE "fetch",
                        ![w].last = IF rows > 0 THEN run[w].page ELSE @, ![w].have = Nothing]

\* A short page is the last.
NextPage(w) ==
  LET rows == Cardinality(DOMAIN run[w].have)
  IN run' = [run EXCEPT ![w].step = IF rows < PageSize THEN "ending" ELSE "fetch",
                        ![w].last = IF rows > 0 THEN run[w].page ELSE @,
                        ![w].page = IF rows < PageSize THEN @ ELSE @ + 1, ![w].have = Nothing]

\* v4 stores the rows and logs the page at once, the others one after the other.
StorePage(w) ==
  /\ At(w, "have")
  /\ Upsert(E(w), run[w].have)
  /\ Mark(E(w), run[w].have, IF Type(w) = "delta" THEN Unmarked ELSE worker[w].job)
  /\ IF E(w) = "projects_v4"
     THEN endpoint' = Logged(w) /\ NextPage(w)
     ELSE run' = [run EXCEPT ![w].step = "stored"] /\ UNCHANGED endpoint
  /\ UNCHANGED <<jobVars, remote, clock, backlog>>

LogPage(w) ==
  /\ At(w, "stored")
  /\ endpoint' = Logged(w) /\ NextPage(w)
  /\ UNCHANGED <<jobVars, remote, clock, store, source, backlog>>

\* A mutant of PageFailed: only what can be retried goes to the backlog.
PageFailedDropped(w, retryable) ==
  /\ Stumble(w)
  /\ At(w, "fetch") \/ At(w, "have") \/ At(w, "stored")
  /\ backlog' = IF retryable THEN [backlog EXCEPT ![E(w)][run[w].page] = [status |-> "deferred", tries |-> 1]]
                ELSE backlog
  /\ run' = [run EXCEPT ![w].step = "fetch", ![w].page = @ + 1, ![w].have = Nothing]
  /\ UNCHANGED <<remote, clock, store, source, endpoint>>

\* Any error on the page: it goes to the backlog, whatever is there already.
PageFailed(w, retryable) ==
  /\ Stumble(w)
  /\ At(w, "fetch") \/ At(w, "have") \/ At(w, "stored")
  /\ LET old == backlog[E(w)][run[w].page].tries
     IN backlog' = [backlog EXCEPT ![E(w)][run[w].page] =
          [status |-> IF retryable THEN "deferred" ELSE "failed", tries |-> IF old > 1 THEN old ELSE 1]]
  /\ endpoint' = IF E(w) = "worksheets" /\ run[w].last > 0
                 THEN [endpoint EXCEPT ![E(w)].page = run[w].last] ELSE endpoint
  /\ run' = [run EXCEPT ![w].step = "fetch", ![w].page = @ + 1, ![w].have = Nothing]
  /\ UNCHANGED <<remote, clock, store, source>>

\* A mutant of Reconciles: pages that failed for good are not counted.
ReconcilesInSpite(w) ==
  E(w) = "worksheets" /\ Type(w) # "delta" /\ Pending(E(w)) = {}

\* Worksheets: after a full pass with no page in the backlog, the sources it
\* did not see lose their access.
Reconciles(w) ==
  E(w) = "worksheets" /\ Type(w) # "delta" /\ Pending(E(w)) = {} /\ Failed(E(w)) = {}

SupportsDelta(w) == E(w) # "worksheets" \/ Type(w) = "delta"

EndPass(w) ==
  /\ At(w, "ending")
  /\ source' = IF Reconciles(w)
               THEN [r \in Rows |-> IF source[r] = worker[w].job THEN source[r] ELSE Absent] ELSE source
  /\ endpoint' = [endpoint EXCEPT ![E(w)] = [page |-> IF run[w].last > 0 THEN run[w].last ELSE @.page,
                                            mark |-> IF SupportsDelta(w) THEN clock ELSE @.mark]]
  /\ run' = [run EXCEPT ![w] = [NoRun EXCEPT !.step = "passes", !.i = run[w].i + 1, !.alone = run[w].alone]]
  /\ UNCHANGED <<jobVars, remote, clock, store, backlog>>

\* Whatever goes wrong in the pass over v3 beside its pages ends that pass only.
SkipEnrichment(w) ==
  /\ Stumble(w)
  /\ run[w].step \in {"passes", "fetch", "have", "stored", "ending"} /\ ~AtEnd(w) /\ E(w) = "projects_v3"
  /\ run' = [run EXCEPT ![w] = [NoRun EXCEPT !.step = "passes", !.i = run[w].i + 1, !.alone = run[w].alone]]
  /\ UNCHANGED data

-----------------------------------------------------------------------------
\* The job is settled, fails with whatever it has stored by then, or is lost.
Leave(w) == run' = [run EXCEPT ![w] = NoRun] /\ UNCHANGED data
FinishJob(w) == At(w, "passes") /\ AtEnd(w) /\ Succeed(w) /\ Leave(w)
FailJob(w) == Fail(w) /\ Leave(w)
LoseJob(w) == Lose(w) /\ Leave(w)

\* The script also puts the state of the projects endpoints back.
Requeue ==
  /\ RequeueBootstrap
  /\ endpoint' = [e \in DOMAIN endpoint |-> IF e = "worksheets" THEN endpoint[e] ELSE [page |-> 0, mark |-> 0]]
  /\ UNCHANGED <<remote, clock, store, source, backlog, run>>

\* The remote system: a row is changed or entered, a worksheet taken away.
\* The runs under way remember that the listing moved.
Moves(e) == run' = [w \in Workers |-> IF Working(w) /\ run[w].step \notin {"rounds", "passes"} /\ E(w) = e
                                      THEN [run[w] EXCEPT !.still = FALSE] ELSE run[w]]
Change(e, r) ==
  /\ clock < MaxClock /\ clock' = clock + 1
  /\ remote' = [remote EXCEPT ![e][r] = clock + 1]
  /\ IF remote[e][r] = 0 THEN Moves(e) ELSE UNCHANGED run
  /\ UNCHANGED <<jobVars, store, source, endpoint, backlog>>
TakeAway(r) ==
  /\ clock < MaxClock /\ clock' = clock + 1
  /\ "worksheets" \in Selected /\ remote["worksheets"][r] > 0
  /\ remote' = [remote EXCEPT !["worksheets"][r] = 0]
  /\ Moves("worksheets")
  /\ UNCHANGED <<jobVars, store, source, endpoint, backlog>>

-----------------------------------------------------------------------------
Init ==
  /\ JobsInit
  /\ remote = [e \in Selected |-> [r \in Rows |-> 1]] /\ clock = 1
  /\ store = [e \in Selected |-> [r \in Rows |-> 0]]
  /\ source = [r \in Rows |-> Absent]
  /\ endpoint = [e \in Selected |-> [page |-> 0, mark |-> 0]]
  /\ backlog = [e \in Selected |-> [p \in Pages |-> [status |-> "none", tries |-> 0]]]
  /\ run = [w \in Workers |-> NoRun]

Step(w) ==
  \/ (Poll(w) \/ ScheduleDelta(w) \/ NothingToClaim(w)) /\ UNCHANGED passVars
  \/ \E j \in Jobs : Start(w, j)
  \/ ReadDue(w) \/ RetryStored(w) \/ RetryResolved(w) \/ RoundDone(w)
  \/ \E p \in Pages : RetryFetched(w, p)
  \/ StartPass(w) \/ FetchPage(w) \/ StorePage(w) \/ LogPage(w) \/ EndPass(w) \/ FinishJob(w)

Trouble(w) ==
  \/ \E retryable \in BOOLEAN : PageFailed(w, retryable) \/ \E p \in Pages : RetryFailed(w, p, retryable)
  \/ SkipEnrichment(w) \/ FailJob(w) \/ LoseJob(w)

Outside ==
  \/ NextInterval /\ UNCHANGED passVars
  \/ Requeue
  \/ \E e \in Selected, r \in Rows : Change(e, r)
  \/ \E r \in Rows : TakeAway(r)

Ripening == (\E j \in Jobs : Ripen(j)) /\ UNCHANGED passVars

Next == (\E w \in Workers : Step(w) \/ Trouble(w)) \/ Outside \/ Ripening
Spec == Init /\ [][Next]_vars
FairSpec == Spec /\ (\A w \in Workers : WF_vars(Step(w))) /\ WF_vars(Ripening)

-----------------------------------------------------------------------------
Entry == [status : {"none", "deferred", "failed", "resolved"}, tries : 0..(MaxTries + MaxFaults)]
\* Types; a process has a pass exactly while it has a job, and no pass or entry
\* runs past the pages there can be.
TypeOK ==
  /\ JobsTypeOK
  /\ remote \in [Selected -> [Rows -> 0..MaxClock]] /\ clock \in 1..MaxClock
  /\ store \in [Selected -> [Rows -> 0..MaxClock]]
  /\ source \in [Rows -> {Absent, Unmarked} \cup Jobs]
  /\ endpoint \in [Selected -> [page : Pages \cup {0}, mark : 0..MaxClock]]
  /\ backlog \in [Selected -> [Pages -> Entry]]
  /\ \A w \in Workers : Working(w) <=> run[w].step # "none"
  /\ \A w \in Workers : run[w].page \in Pages \cup {0}

\* Rows as they were when a run looked, and have been since.
Settled(w, e, r) == remote[e][r] <= run[w].seen
UpToDate(w, e, p) ==
  \A r \in Page(e, 0, p) : Settled(w, e, r) /\ Known(e, r) => store[e][r] = remote[e][r]
\* Another job at work, or rows that entered or left the listing, may make a
\* pass see a row on a page it has passed: the offsets are not held fast.
Undisturbed(w) == run[w].alone /\ run[w].still

NothingLost(w) ==
  \A p \in Pages : backlog[E(w)][p].status \in {"none", "resolved"} => UpToDate(w, E(w), p)

\* A pass from page 1 without a filter, of which nothing may be lost: whatever
\* failed on the way, a page that is not in the backlog at its end is stored
\* as it was when the pass began (runReadOnlyEndpoint, runProjectsSourceSync).
FullPassIsComplete ==
  \A w \in Workers : At(w, "ending") /\ run[w].full /\ Undisturbed(w) => NothingLost(w)

\* sync_bootstrap_flow.md: "Projects v4 forced full scan even in delta mode", so
\* that its pass loses nothing either, whatever the kind of the job.
ProjectsAreScanned ==
  \A w \in Workers : At(w, "ending") /\ E(w) = "projects_v4" /\ Undisturbed(w) => NothingLost(w)

\* An entry that leaves the backlog has had its page read and stored: a page
\* that failed is not forgotten by a job that fails or dies between the two
\* (runProjectsBacklogRetryRound, runReadOnlyBacklogRetryRound).  It is not so
\* for the enrichment, whose retried rows RetryFetched loses.
Healed(e) == \A w \in Workers, p \in Pages :
  /\ backlog[e][p].status # "resolved" /\ backlog'[e][p].status = "resolved"
  /\ (At(w, "retried") \/ At(w, "resolving")) /\ E(w) = e /\ run[w].page = p
  /\ Undisturbed(w)
  => UpToDate(w, e, p)'
BacklogHeals == [][\A e \in Selected \ {"projects_v3"} : Healed(e)]_vars

\* The reconciliation takes an access source away only when the worksheet is no
\* longer listed: a pass with holes takes nobody's access, a page that failed,
\* was retried and stored by an earlier job included (reconcileMissingWorksheetSources).
AccessKept == [][\A r \in Rows : source[r] # Absent /\ source'[r] = Absent =>
  \E w \in Workers : At(w, "ending") /\ (remote["worksheets"][r] = 0 \/ ~Undisturbed(w))]_vars

\* Every queued job is worked off or fails for good, unless the process that
\* held it died or could not even record the failure (pollOnce, processSyncJob).
JobSettles == \A j \in Jobs :
  (job[j].status = "queued") ~> (\/ job[j].status \in {"success", "failed"}
                             \/ (job[j].status = "running" /\ \A w \in Workers : ~Holds(w, j)))
=============================================================================
