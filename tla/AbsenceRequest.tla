--------------------------- MODULE AbsenceRequest ---------------------------
(***************************************************************************)
(* The vacation-day requests of one employee around one special window     *)
(* (modules/absence): drafts, submission against the window's quota of     *)
(* exempt days, split submissions, cancellation, the manager's decision    *)
(* and the promotion of waiting days when an exempt request ends.          *)
(*                                                                         *)
(* Each server call is one READ COMMITTED transaction.  A call is cut into *)
(* steps where it may wait for a lock: the advisory lock of its            *)
(* idempotency key, the row of its request, the advisory lock of the       *)
(* quota, and the rows of other requests.  What it wrote before waiting is *)
(* seen by nobody else, so a call changes the tables in its last step.     *)
(***************************************************************************)
EXTENDS Integers, FiniteSets, Sequences, Functions

CONSTANTS
  Requests,   \* rows of absence_request, numbered: the ids
  Callers,    \* server calls that may be under way at the same time
  Days,       \* dates
  Window,     \* absence_start_date .. absence_end_date of the special window
  Asks,       \* the ranges of dates employees ask for
  Splits,     \* the sequences of ranges they submit as split segments
  CreateKeys, \* Idempotency-Key headers of createDraft: bound the drafts
  SplitKeys,  \* and those of submitSplitSegments, which have a lock of their own
  Quotas,     \* values of vacation_day_exemption_quota administrators choose
  LateAllowed,    \* late_submission_policy is not "blocked"
  StartPhases, \* where today may lie when the story begins
  MaxVersion,     \* bound on the edits of a draft
  MaxWindow,      \* bound on the changes of the window
  None

ASSUME NumbersAssumption ==
  /\ Requests \subseteq Nat /\ IsFiniteSet(Requests) /\ Requests # {}
  /\ Days \subseteq Nat /\ IsFiniteSet(Days) /\ Window \subseteq Days
  /\ Quotas \subseteq Nat /\ MaxVersion \in Nat /\ MaxWindow \in Nat
  /\ StartPhases \subseteq 1..4
ASSUME AsksAssumption ==
  /\ Asks \subseteq (SUBSET Days) \ {{}}
  /\ Splits \subseteq Seq((SUBSET Days) \ {{}})
ASSUME NoneAssumption == None \notin Requests \cup Callers \cup CreateKeys \cup SplitKeys

Keys == CreateKeys \cup SplitKeys

VARIABLES
  request,      \* absence_request
  absence,      \* approved_absence: the dates materialised for each request
  window,       \* the row of absence_special_window
  phase,        \* where today lies among the window's dates
  call,         \* the server calls
  confirmed,    \* history: the endings clients were told of, for each request
  rowHolder,    \* who holds the row lock of a request
  quotaHolder,  \* who holds the advisory quota lock of employee and window
  keyHolder     \* who holds the advisory lock of an idempotency key

locks == <<rowHolder, quotaHolder, keyHolder>>
vars == <<request, absence, window, phase, call, confirmed, locks>>
tables == <<request, absence>>

Phases == <<"closed", "open", "late", "review">>
Terminal == {"approved", "rejected", "cancelled"}
Statuses == {"none", "draft", "submitted"} \cup Terminal
RowKinds == {"edit", "submit", "cancel", "approve", "reject"}
Ending == {"cancel", "reject"}

\* A row: the dates, whether it waits for the collective review
\* (special_window_id), its optimistic version, submitted_at, and the key and
\* segment number its creation was recorded under.
NoRequest ==
  [status |-> "none", days |-> {}, special |-> FALSE, version |-> 0, at |-> 0,
   key |-> None, segment |-> 0]

NoCall ==
  [step |-> "idle", kind |-> "edit", req |-> None,
   saw |-> [version |-> 0, days |-> {}, special |-> FALSE], asks |-> <<>>,
   key |-> None, window |-> [active |-> FALSE, quota |-> 0], at |-> 0, todo |-> {}]

Init ==
  /\ request = [r \in Requests |-> NoRequest]
  /\ absence = [r \in Requests |-> {}]
  /\ window \in [active : {TRUE}, quota : Quotas, version : {1}]
  /\ phase \in StartPhases
  /\ call = [c \in Callers |-> NoCall]
  /\ confirmed = [r \in Requests |-> {}]
  /\ rowHolder = [r \in Requests |-> None]
  /\ quotaHolder = None
  /\ keyHolder = [k \in Keys |-> None]
------------------------------------------------------------------------------
\* status NOT IN ('draft', 'rejected', 'cancelled')
Active(r) == request[r].status \in {"submitted", "approved"}

Inside(days) == days \cap Window

\* listVacationDayQuotaUsageDates
UsedDays ==
  UNION {Inside(request[r].days) : r \in {q \in Requests : Active(q) /\ ~request[q].special}}

\* Rows in the order COALESCE(submitted_at, created_at), id.
Earlier(q, r) ==
  \/ request[q].at < request[r].at
  \/ request[q].at = request[r].at /\ q < r

\* findCreatedByIdempotencyKey, findCreatedBySplitIdempotencyKey
CreatedUnder(k) == {r \in Requests : request[r].key = k}

FreeRows == {r \in Requests : request[r].status = "none"}

\* now() of a new transaction, on a clock that ticks with every submission:
\* submissions under way together may be stamped alike, and the id decides.
Now == 1 + CHOOSE m \in {request[r].at : r \in Requests} : \A r \in Requests : request[r].at <= m

\* Mutated: one day more than the quota.
RoomForOneMore(quota, used) ==
  IF Cardinality(used) <= quota THEN quota - Cardinality(used) + 1 ELSE 0

Room(quota, used) == IF Cardinality(used) < quota THEN quota - Cardinality(used) ELSE 0

\* resolveSpecialWindow for a window the request overlaps: exempt when all its
\* dates inside fit what is left of the quota, collective when none does, and
\* otherwise refused with a suggested split.
Verdict(days, quota, used) ==
  LET inside == Inside(days) IN
  IF inside \cap used = {} /\ Cardinality(inside) <= Room(quota, used) THEN "exempt"
  ELSE IF (inside \subseteq used \/ Room(quota, used) = 0) /\ days \subseteq Window THEN "collective"
  ELSE "split"

\* validateSpecialWindowSubmissionTiming: only collective requests keep dates.
InTime(verdict) ==
  verdict = "collective" => Phases[phase] = "open" \/ (Phases[phase] # "closed" /\ LateAllowed)

\* The window a call has to reckon with; an archived one is not found.
Touches(days, w) == w.active /\ Inside(days) # {}
------------------------------------------------------------------------------
\* The end of a transaction: the locks go and the client has its answer.
Release(c) ==
  /\ rowHolder' = [r \in Requests |-> IF rowHolder[r] = c THEN None ELSE rowHolder[r]]
  /\ quotaHolder' = IF quotaHolder = c THEN None ELSE quotaHolder
  /\ keyHolder' = [k \in Keys |-> IF keyHolder[k] = c THEN None ELSE keyHolder[k]]

Answer(c) ==
  /\ call' = [call EXCEPT ![c] = NoCall]
  /\ Release(c)

Target == [submit |-> "submitted", cancel |-> "cancelled", approve |-> "approved", reject |-> "rejected"]

\* An approval, rejection or cancellation the client is told has happened.
Confirm(c) ==
  confirmed' = [confirmed EXCEPT ![call[c].req] = @ \cup ({Target[call[c].kind]} \cap Terminal)]

\* The tables, the window and the date stay as they are.
ReadOnly == UNCHANGED <<tables, window, phase, confirmed>>

Seen(r) == [version |-> request[r].version, days |-> request[r].days, special |-> request[r].special]

\* A user acts on a request as a page read some time before showed it.
Send(c, r, kind, asks) ==
  /\ call[c].step = "idle"
  /\ call' = [call EXCEPT ![c] =
       [NoCall EXCEPT !.step = "sent", !.kind = kind, !.req = r, !.saw = Seen(r), !.asks = asks]]
  /\ ReadOnly /\ UNCHANGED locks

\* The employee creates a draft, or submits split segments, under a new key.
SendNew(c, kind, asks, k) ==
  /\ call[c].step = "idle"
  /\ \A d \in Callers : call[d].key # k
  /\ CreatedUnder(k) = {}
  /\ call' = [call EXCEPT ![c] =
       [NoCall EXCEPT !.step = "sent", !.kind = kind, !.asks = asks, !.key = k]]
  /\ ReadOnly /\ UNCHANGED locks

\* The client, or the network, sends a call again while it has no answer; the
\* copy may well be served long after the original.
Repeat(c, d) ==
  /\ call[c].step = "idle" /\ call[d].step # "idle"
  /\ call' = [call EXCEPT ![c] =
       [call[d] EXCEPT !.step = "sent", !.window = NoCall.window, !.at = 0, !.todo = {}]]
  /\ ReadOnly /\ UNCHANGED locks
------------------------------------------------------------------------------
\* Mutated: the row is read without FOR UPDATE.
ReadsUnlocked(c) == call[c].step = "sent" /\ call[c].kind \in RowKinds

\* Calls on one request begin by locking its row (findByIdForEmployee and
\* findByIdForManager, FOR UPDATE) and check what they then read.
Locks(c) ==
  /\ call[c].step = "sent" /\ call[c].kind \in RowKinds
  /\ rowHolder[call[c].req] = None

\* The call, or its twin, has had its effect already.
Done(c) ==
  LET row == request[call[c].req] IN
  /\ call[c].kind # "edit" /\ row.status = Target[call[c].kind]
  /\ row.version \in {call[c].saw.version, call[c].saw.version + 1}

AllowedFrom == [edit |-> {"draft"}, submit |-> {"draft"}, cancel |-> {"draft", "submitted"},
                approve |-> {"submitted"}, reject |-> {"submitted"}]

\* approval_blocked_before_review, which an override lifts.
Reviewable(row, override) == row.special => Phases[phase] = "review" \/ override

\* Mutated: the version is not compared.
AllowedAtAnyVersion(c) == request[call[c].req].status \in AllowedFrom[call[c].kind]

Allowed(c) ==
  LET row == request[call[c].req] IN
  /\ row.status \in AllowedFrom[call[c].kind]
  /\ row.version = call[c].saw.version

MayGo(c) == Locks(c) /\ ~Done(c) /\ Allowed(c)

AnswerDone(c) ==
  /\ Locks(c) /\ Done(c)
  /\ Answer(c) /\ Confirm(c)
  /\ UNCHANGED <<tables, window, phase>>

\* A status that does not allow the call, a stale version, or a decision
\* before the review without an override.
Refuse(c) ==
  /\ Locks(c) /\ ~Done(c)
  /\ \/ ~Allowed(c)
     \/ call[c].kind \in {"approve", "reject"} /\ ~Reviewable(request[call[c].req], FALSE)
  /\ Answer(c) /\ ReadOnly

UpdateDraft(c) ==
  /\ MayGo(c) /\ call[c].kind = "edit"
  /\ request' = [request EXCEPT ![call[c].req].days = call[c].asks[1], ![call[c].req].version = @ + 1]
  /\ Answer(c)
  /\ UNCHANGED <<absence, window, phase, confirmed>>

\* decideManaged with materializeFromApprovedRequest, in one transaction.
Approve(c) ==
  /\ MayGo(c) /\ call[c].kind = "approve"
  /\ \E override \in BOOLEAN : Reviewable(request[call[c].req], override)
  /\ request' = [request EXCEPT ![call[c].req].status = "approved", ![call[c].req].version = @ + 1]
  /\ absence' = [absence EXCEPT ![call[c].req] = request[call[c].req].days]
  /\ Answer(c) /\ Confirm(c)
  /\ UNCHANGED <<window, phase>>

Submitted(row, special, at) ==
  [row EXCEPT !.status = "submitted", !.special = special, !.at = at, !.version = @ + 1]

Ended(c) == [request[call[c].req] EXCEPT !.status = Target[call[c].kind], !.version = @ + 1]

\* submitDraft far from any window.
SubmitPlainly(c) ==
  /\ MayGo(c) /\ call[c].kind = "submit"
  /\ ~Touches(request[call[c].req].days, window)
  /\ request' = [request EXCEPT ![call[c].req] = Submitted(@, FALSE, Now)]
  /\ Answer(c)
  /\ UNCHANGED <<absence, window, phase, confirmed>>

\* What the call goes on with when it needs the quota lock: the row stays
\* locked and the window as read now is what it will decide by.
WaitForQuota(c, at) ==
  /\ call' = [call EXCEPT ![c].step = "quota", ![c].at = at,
                          ![c].window = [active |-> TRUE, quota |-> window.quota]]
  /\ rowHolder' = IF call[c].req = None THEN rowHolder ELSE [rowHolder EXCEPT ![call[c].req] = c]
  /\ UNCHANGED quotaHolder

SubmitNearWindow(c) ==
  /\ MayGo(c) /\ call[c].kind = "submit"
  /\ Touches(request[call[c].req].days, window)
  /\ WaitForQuota(c, Now)
  /\ ReadOnly /\ UNCHANGED keyHolder

\* reclassifyVacationDayQuotaAfterTerminalTransition has something to do.
FreesQuota(c) ==
  LET row == request[call[c].req] IN
  /\ row.status = "submitted" /\ ~row.special
  /\ Touches(row.days, window) /\ Phases[phase] # "review"

\* cancelOwn, or decideManaged with a rejection.
End(c) ==
  /\ MayGo(c) /\ call[c].kind \in Ending
  /\ call[c].kind = "reject" => \E override \in BOOLEAN : Reviewable(request[call[c].req], override)
  /\ ~FreesQuota(c)
  /\ request' = [request EXCEPT ![call[c].req] = Ended(c)]
  /\ Answer(c) /\ Confirm(c)
  /\ UNCHANGED <<absence, window, phase>>

EndFreeingQuota(c) ==
  /\ MayGo(c) /\ call[c].kind \in Ending
  /\ FreesQuota(c)
  /\ WaitForQuota(c, 0)
  /\ ReadOnly /\ UNCHANGED keyHolder
------------------------------------------------------------------------------
\* Mutated: nobody waits for the lock of the key.
ReadsKeyUnlocked(c) == call[c].step = "sent" /\ call[c].kind \in {"create", "split"}

\* createDraft and submitSplitSegments begin with the lock of their key and
\* look for what was created under it.
LocksKey(c) ==
  /\ call[c].step = "sent" /\ call[c].kind \in {"create", "split"}
  /\ keyHolder[call[c].key] = None

AnswerCreated(c) ==
  /\ LocksKey(c) /\ CreatedUnder(call[c].key) # {}
  /\ Answer(c) /\ ReadOnly

\* Segments up to the first that touches the window need no quota.
FirstTouching(c) == {i \in DOMAIN call[c].asks : Touches(call[c].asks[i], window)}

BeginCreate(c) ==
  /\ LocksKey(c) /\ CreatedUnder(call[c].key) = {}
  /\ call[c].kind = "create" \/ FirstTouching(c) = {}
  /\ call' = [call EXCEPT ![c].step = "insert", ![c].at = IF call[c].kind = "split" THEN Now ELSE 0]
  /\ keyHolder' = [keyHolder EXCEPT ![call[c].key] = c]
  /\ ReadOnly /\ UNCHANGED <<rowHolder, quotaHolder>>

BeginSplit(c) ==
  /\ LocksKey(c) /\ CreatedUnder(call[c].key) = {}
  /\ call[c].kind = "split" /\ FirstTouching(c) # {}
  /\ WaitForQuota(c, Now)
  /\ keyHolder' = [keyHolder EXCEPT ![call[c].key] = c]
  /\ ReadOnly

\* Segment i of a split: the window it is judged by.  The first that touches
\* one was read before the wait for the quota, the others are read after it.
WindowFor(c, i) ==
  IF \E j \in 1..(i - 1) : Inside(call[c].asks[j]) # {}
    THEN [active |-> window.active, quota |-> window.quota]
    ELSE call[c].window

\* The dates inside the window that segments before the i-th take exempt.
ReservedBefore(c, verdict, i) ==
  UNION {Inside(call[c].asks[j]) : j \in
    {k \in 1..(i - 1) : verdict[k] = "exempt" /\ Touches(call[c].asks[k], WindowFor(c, k))}}

SegmentVerdict(c, verdict, i) ==
  IF ~Touches(call[c].asks[i], WindowFor(c, i)) THEN "exempt"
  ELSE Verdict(call[c].asks[i], WindowFor(c, i).quota, UsedDays \cup ReservedBefore(c, verdict, i))

Accepted(verdict) == verdict # "split" /\ InTime(verdict)

\* validateSplitSegmentsForSubmit: one segment after the other is judged, and all
\* have to be accepted.
Accepts(c, verdict) ==
  \A i \in DOMAIN call[c].asks :
    verdict[i] = SegmentVerdict(c, verdict, i) /\ Accepted(verdict[i])

Judgements(c) == [DOMAIN call[c].asks -> {"exempt", "collective"}]

\* Inserts one row per segment, under ids that come in any order (uuids); a draft is submitted in the same transaction.
InsertSegments(c, special) ==
  LET asks == call[c].asks
      new(i) == [NoRequest EXCEPT !.status = "draft", !.days = asks[i], !.version = 1,
                                !.key = call[c].key, !.segment = i]
      row(i) == IF call[c].kind = "create" THEN new(i) ELSE Submitted(new(i), special[i], call[c].at)
  IN /\ \E id \in Injection(DOMAIN asks, FreeRows) :
          request' = [r \in Requests |->
            IF r \in Range(id) THEN row(CHOOSE i \in DOMAIN asks : id[i] = r) ELSE request[r]]
     /\ UNCHANGED <<absence, window, phase, confirmed>>

InsertPlainly(c) ==
  /\ call[c].step = "insert"
  /\ InsertSegments(c, [i \in DOMAIN call[c].asks |-> FALSE])
  /\ Answer(c)

SubmitSegments(c) ==
  /\ call[c].step = "quota" /\ call[c].kind = "split" /\ quotaHolder = None
  /\ \E verdict \in Judgements(c) :
       /\ Accepts(c, verdict)
       /\ InsertSegments(c, [i \in DOMAIN call[c].asks |-> verdict[i] = "collective"])
  /\ Answer(c)

RefuseSegments(c) ==
  /\ call[c].step = "quota" /\ call[c].kind = "split" /\ quotaHolder = None
  /\ ~\E verdict \in Judgements(c) : Accepts(c, verdict)
  /\ Answer(c) /\ ReadOnly
------------------------------------------------------------------------------
\* submitDraft with the quota lock: usage is read under it.
VerdictOn(c) == Verdict(request[call[c].req].days, call[c].window.quota, UsedDays)

SubmitDraft(c) ==
  /\ call[c].step = "quota" /\ call[c].kind = "submit" /\ quotaHolder = None
  /\ Accepted(VerdictOn(c))
  /\ request' = [request EXCEPT ![call[c].req] = Submitted(@, VerdictOn(c) = "collective", call[c].at)]
  /\ Answer(c)
  /\ UNCHANGED <<absence, window, phase, confirmed>>

RefuseSubmit(c) ==
  /\ call[c].step = "quota" /\ call[c].kind = "submit" /\ quotaHolder = None
  /\ ~Accepted(VerdictOn(c))
  /\ Answer(c) /\ ReadOnly

\* listVacationDayQuotaAllocationRows FOR UPDATE: the rows of the snapshot,
\* locked one after the other in their order.
Allocated(r) == Active(r) /\ Inside(request[r].days) # {}

\* Mutated: submissions lock and reclassify the other rows too.
TakeQuotaAlways(c) ==
  /\ call[c].step = "quota" /\ quotaHolder = None
  /\ quotaHolder' = c
  /\ call' = [call EXCEPT ![c].step = "rows",
                          ![c].todo = {r \in Requests \ {call[c].req} : Allocated(r)}]
  /\ ReadOnly /\ UNCHANGED <<rowHolder, keyHolder>>

TakeQuota(c) ==
  /\ call[c].step = "quota" /\ call[c].kind \in Ending /\ quotaHolder = None
  /\ quotaHolder' = c
  /\ call' = [call EXCEPT ![c].step = "rows",
                          ![c].todo = {r \in Requests \ {call[c].req} : Allocated(r)}]
  /\ ReadOnly /\ UNCHANGED <<rowHolder, keyHolder>>

NextRow(todo) == CHOOSE r \in todo : \A q \in todo \ {r} : Earlier(r, q)

LockRow(c) ==
  /\ call[c].step = "rows" /\ call[c].todo # {}
  /\ LET r == NextRow(call[c].todo) IN
     /\ rowHolder[r] = None
     /\ rowHolder' = [rowHolder EXCEPT ![r] = c]
     /\ call' = [call EXCEPT ![c].todo = @ \ {r}]
  /\ ReadOnly /\ UNCHANGED <<quotaHolder, keyHolder>>

\* Mutated: an approved request that was collective is still taken for waiting.
WaitingOrApproved(r) == Active(r) /\ request[r].special

\* The dates that move to ordinary treatment: of the waiting ones, row by row
\* in order of submission, as many as the quota has room for.
Waiting(r) == request[r].status = "submitted" /\ request[r].special

\* Mutated: the latest submission first.
LatestFirst(x, y) == Earlier(y[1], x[1]) \/ (x[1] = y[1] /\ x[2] < y[2])

Before(x, y) == Earlier(x[1], y[1]) \/ (x[1] = y[1] /\ x[2] < y[2])

Chosen(c) ==
  LET rows == {r \in Requests \ {call[c].req} : rowHolder[r] = c /\ Active(r)}
      used == UNION {Inside(request[r].days) : r \in {q \in rows : ~request[q].special}}
      lines == UNION {{<<r, d>> : d \in Inside(request[r].days)} : r \in {q \in rows : Waiting(q)}}
  IN {x \in lines : Cardinality({y \in lines : Before(y, x)}) < Room(call[c].window.quota, used)}

Promoted(c, r) == {d \in request[r].days : <<r, d>> \in Chosen(c)}

\* Mutated: the remainder is submitted now and goes to the end of the order.
RemainderAtTheEnd(c, r) ==
  [request[r] EXCEPT !.days = @ \ Promoted(c, r), !.version = 1, !.key = None,
                     !.segment = 0, !.at = Now]

\* insertQuotaReclassificationSegment: the dates of a request that are not
\* promoted with its first ones keep their place in the order.
Remainder(c, r) ==
  [request[r] EXCEPT !.days = @ \ Promoted(c, r), !.version = 1, !.key = None, !.segment = 0]

\* The terminal transition with updateQuotaReclassificationSegment for what is
\* promoted.
Promote(c) ==
  LET cut == {r \in Requests : Promoted(c, r) # {} /\ Promoted(c, r) # request[r].days}
      shorten(r) == [request[r] EXCEPT !.days = Promoted(c, r), !.special = FALSE, !.version = @ + 1]
  IN /\ call[c].step = "rows" /\ call[c].todo = {}
     /\ \E id \in Injection(cut, FreeRows) :
          request' = [r \in Requests |->
            IF r = call[c].req THEN Ended(c)
            ELSE IF Promoted(c, r) # {} THEN shorten(r)
            ELSE IF r \in Range(id) THEN Remainder(c, CHOOSE q \in cut : id[q] = r)
            ELSE request[r]]
     /\ Answer(c) /\ Confirm(c)
     /\ UNCHANGED <<absence, window, phase>>
------------------------------------------------------------------------------
\* Whom a call waits for.
Blocker(c) ==
  LET its == call[c] IN
  IF its.step = "sent" THEN IF its.kind \in RowKinds THEN rowHolder[its.req] ELSE keyHolder[its.key]
  ELSE IF its.step = "quota" THEN quotaHolder
  ELSE IF its.todo # {} THEN rowHolder[NextRow(its.todo)]
  ELSE None

\* The database finds the calls that wait for each other in a circle.
OnCycle(c) ==
  \E S \in SUBSET Callers :
    c \in S /\ {Blocker(d) : d \in S} = S

RollBack(c) == Answer(c) /\ ReadOnly

\* The database rolls back one call of the circle.
Victim(c) == OnCycle(c) /\ RollBack(c)

\* The server or the connection dies in the middle of a call.
Crash(c) == call[c].step \in {"insert", "quota", "rows"} /\ RollBack(c)
------------------------------------------------------------------------------
\* countRequestsForWindow: requests that ever waited for this window.
Blocking == \E r \in Requests : request[r].special /\ request[r].status # "draft"

ChangeWindow(active, quota) ==
  /\ window.version < MaxWindow
  /\ window' = [active |-> active, quota |-> quota, version |-> window.version + 1]
  /\ UNCHANGED <<tables, phase, call, confirmed, locks>>

\* updateSpecialWindow, for the fields the requests depend on.
UpdateWindow ==
  /\ ~Blocking
  /\ \E active \in BOOLEAN, quota \in Quotas : ChangeWindow(active, quota)

\* archiveSpecialWindow counts no requests.
Archive == ChangeWindow(FALSE, window.quota)

DayPasses ==
  /\ phase < Len(Phases)
  /\ phase' = phase + 1
  /\ UNCHANGED <<tables, window, call, confirmed, locks>>

Serve(c) ==
  \/ AnswerDone(c) \/ Refuse(c) \/ UpdateDraft(c) \/ Approve(c)
  \/ SubmitPlainly(c) \/ SubmitNearWindow(c) \/ SubmitDraft(c) \/ RefuseSubmit(c)
  \/ End(c) \/ EndFreeingQuota(c) \/ TakeQuota(c) \/ LockRow(c) \/ Promote(c)
  \/ AnswerCreated(c) \/ BeginCreate(c) \/ BeginSplit(c)
  \/ InsertPlainly(c) \/ SubmitSegments(c) \/ RefuseSegments(c)
  \/ Victim(c)

\* The pages offer each request what its status allows.
Client(c) ==
  \/ \E r \in Requests :
       /\ request[r].status = "draft"
       /\ \/ /\ request[r].version < MaxVersion
             /\ \E days \in Asks \ {request[r].days} : Send(c, r, "edit", <<days>>)
          \/ \E kind \in {"submit", "cancel"} : Send(c, r, kind, <<>>)
  \/ \E r \in Requests :
       /\ request[r].status = "submitted"
       /\ \E kind \in {"cancel", "approve", "reject"} : Send(c, r, kind, <<>>)
  \/ \E days \in Asks, k \in CreateKeys : SendNew(c, "create", <<days>>, k)
  \/ \E asks \in Splits, k \in SplitKeys : SendNew(c, "split", asks, k)
  \/ \E d \in Callers : Repeat(c, d)

Next ==
  \/ \E c \in Callers : Serve(c) \/ Client(c) \/ Crash(c)
  \/ UpdateWindow \/ Archive \/ DayPasses

Spec == Init /\ [][Next]_vars

\* Lock queues are served in order, so a call that can go on again and again
\* does.
FairSpec == Spec /\ \A c \in Callers : SF_vars(Serve(c))
------------------------------------------------------------------------------
Rows ==
  [status : Statuses, days : SUBSET Days, special : BOOLEAN, version : Nat, at : Nat,
   key : Keys \cup {None}, segment : Nat]

Calls ==
  [step : {"idle", "sent", "insert", "quota", "rows"},
   kind : RowKinds \cup {"create", "split"}, req : Requests \cup {None},
   saw : [version : Nat, days : SUBSET Days, special : BOOLEAN],
   asks : Seq(SUBSET Days), key : Keys \cup {None}, window : [active : BOOLEAN, quota : Nat],
   at : Nat, todo : SUBSET Requests]

\* The tables and the calls keep their shape; a call that names a request names
\* one that exists, and only calls about requests do.
TypeOK ==
  /\ request \in [Requests -> Rows]
  /\ absence \in [Requests -> SUBSET Days]
  /\ window \in [active : BOOLEAN, quota : Quotas, version : Nat]
  /\ phase \in 1..Len(Phases)
  /\ call \in [Callers -> Calls]
  /\ confirmed \in [Requests -> SUBSET Terminal]
  /\ rowHolder \in [Requests -> Callers \cup {None}]
  /\ quotaHolder \in Callers \cup {None}
  /\ keyHolder \in [Keys -> Callers \cup {None}]
  /\ \A c \in Callers : call[c].step # "idle" /\ call[c].kind \in RowKinds =>
       call[c].req # None /\ request[call[c].req].status # "none"

\* Whatever ends, starts and waits at the same time, a call that decides under
\* the quota lock never brings the employee's exempt dates above the quota, as
\* long as the window is still as the call read it before waiting for the lock
\* (resolveSpecialWindow, reclassifyVacationDayQuotaAfterTerminalTransition).
QuotaRespected ==
  [][\A c \in Callers :
       /\ call[c].step \in {"quota", "rows"} /\ call'[c] # call[c]
       /\ window.active /\ window.quota = call[c].window.quota
       /\ ~(UsedDays' \subseteq UsedDays)
       => Cardinality(UsedDays') <= window.quota]_vars

\* A successful answer stays true: an ending the client was told of is what the
\* table says for ever after, so an approval and a cancellation of one request
\* are never both confirmed, whoever repeats what (versions, row locks and the
\* idempotent answers of decideManaged and cancelOwn).
AnswerStands == \A r \in Requests : confirmed[r] \subseteq {request[r].status}

\* The dates of approved_absence are those of the approved request, and nothing
\* shortens or moves an approved request afterwards.
CalendarMatches ==
  \A r \in Requests :
    absence[r] = IF request[r].status = "approved" THEN request[r].days ELSE {}

\* Nobody decides about something else than he saw: a request changes status
\* only by a call whose page showed its present dates and treatment.
ActsOnWhatWasSeen ==
  [][\A r \in Requests :
       request[r].status # "none" /\ request'[r].status # request[r].status =>
         \E c \in Callers :
           /\ call[c].req = r /\ call'[c] # call[c]
           /\ call[c].saw.days = request[r].days
           /\ call[c].saw.special = request[r].special]_vars

\* A promotion never loses a date: a submitted request only ever loses dates to
\* a new request of the same day of submission that waits with them.
NoDateIsLost ==
  [][\A r \in Requests :
       request[r].status = "submitted" /\ request'[r].days # request[r].days =>
         \E n \in Requests :
           /\ request[n].status = "none" /\ request'[n].status = "submitted" /\ request'[n].special
           /\ request'[n].at = request[r].at
           /\ request'[n].days = request[r].days \ request'[r].days]_vars

\* First come, first served: no request is promoted past one that was submitted
\* before it and still waits after the step.
PromotedInOrder ==
  [][\A q, r \in Requests :
       /\ request[r].special /\ ~request'[r].special
       /\ Waiting(q) /\ Earlier(q, r)
       => ~Waiting(q)']_vars

\* A key creates each of its segments once, however often the call is repeated.
KeyCreatesOnce ==
  \A q, r \in Requests :
    q # r /\ request[q].key # None =>
      <<request[q].key, request[q].segment>> # <<request[r].key, request[r].segment>>

\* Only cancellations and rejections can be rolled back for waiting in a circle.
VictimsAreEndings == \A c \in Callers : OnCycle(c) => call[c].kind \in Ending
==============================================================================
