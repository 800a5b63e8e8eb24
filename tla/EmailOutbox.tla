----------------------------- MODULE EmailOutbox -----------------------------
(***************************************************************************)
(* The transactional email outbox: rows enqueued by request transactions   *)
(* (emailOutbox.service.js), claimed in batches with FOR UPDATE SKIP       *)
(* LOCKED (emailOutbox.repository.js) and worked off by concurrent runs of *)
(* processDueEmails (emailOutbox.processor.js).  Each SQL statement that   *)
(* runs in its own transaction is one atomic step; the provider call lies  *)
(* between two transactions, and a run may die between any two steps.      *)
(*                                                                         *)
(* A Timekontrol mail (isTimeControlEmail) is attempted once and never     *)
(* retried; every other mail is retried up to max_attempts times.          *)
(***************************************************************************)
EXTENDS Naturals, FiniteSets

CONSTANTS
  Mails,        \* outbox rows, one per (tenant, idempotency_key)
  TimeControl,  \* the rows for which isTimeControlEmail holds
  Workers,      \* concurrent runs of processDueEmails
  MaxAttempts,  \* max_attempts (5 in the schema)
  BatchLimit,   \* limit of one claim (25 by default)
  NoRow         \* a run that is not working on a row

ASSUME MailsAssumption    == TimeControl \subseteq Mails
ASSUME AttemptsAssumption == MaxAttempts \in Nat \ {0}
ASSUME LimitAssumption    == BatchLimit \in Nat \ {0}

Statuses == {"absent", "queued", "processing", "retry", "sent", "dead_letter"}
Codes    == {"none", "failed", "local", "rejected", "unclear"}
Steps    == {"idle", "loop", "sending", "settling", "failing"}

\* What the provider call comes to.  "lost": accepted, but no usable answer
\* arrives; "conflict": 408 or 409; "permanent": any other 4xx except 429;
\* "transient": 5xx, 429, a refused connection, a disabled provider.
ProviderOutcomes == {"accepted", "lost", "transient", "permanent", "conflict"}
Replies == ProviderOutcomes \cup {"none", "local"}

\* The copy of an outbox row that a claim returns.
Row == [mail : Mails, attempt : 1..MaxAttempts, addressed : BOOLEAN]

ASSUME NoRowAssumption == NoRow \notin Row

VARIABLES
  status,     \* email_outbox.status
  attempts,   \* email_outbox.attempt_count
  due,        \* next_attempt_at <= now()
  expired,    \* last_attempt_at is older than the processing timeout
  addressed,  \* recipient_email IS NOT NULL
  errorCode,  \* last_error_code, by class
  step,       \* where each run stands
  batch,      \* the claimed rows a run has not reached yet
  row,        \* the row a run is working on
  reply,      \* how the current provider call ended
  called,     \* history: attempts for which the provider was called
  accepted,   \* history: attempts the provider accepted
  fault,      \* history: mails whose acceptance may be unknown to their row
  abandoned   \* history: mails a run died with

table   == <<status, attempts, due, expired, addressed, errorCode>>
runs    == <<step, batch, row, reply>>
history == <<called, accepted, fault, abandoned>>
vars    == <<table, runs, history>>

Init ==
  /\ status    = [m \in Mails |-> "absent"]
  /\ attempts  = [m \in Mails |-> 0]
  /\ due       = [m \in Mails |-> FALSE]
  /\ expired   = [m \in Mails |-> FALSE]
  /\ addressed = [m \in Mails |-> FALSE]
  /\ errorCode = [m \in Mails |-> "none"]
  /\ step      = [w \in Workers |-> "idle"]
  /\ batch     = [w \in Workers |-> {}]
  /\ row       = [w \in Workers |-> NoRow]
  /\ reply     = [w \in Workers |-> "none"]
  /\ called    = [m \in Mails |-> {}]
  /\ accepted  = [m \in Mails |-> {}]
  /\ fault     = {}
  /\ abandoned = {}

\* Rows in the hands of a run.
Holding(w) == batch[w] \cup ({row[w]} \ {NoRow})
IsHeld(m)  == \E w \in Workers : \E r \in Holding(w) : r.mail = m

-----------------------------------------------------------------------------
(* Enqueue and claim *)

\* enqueueEmail / upsertEmail: the first call inserts a due row, as a dead
\* letter when the recipient or a CC address is unusable; a later call with the
\* same key only replaces the content, the recipient among it.
Enqueue(m, recipient, cc) ==
  /\ addressed' = [addressed EXCEPT ![m] = recipient]
  /\ IF status[m] = "absent"
       THEN /\ status'    = [status EXCEPT ![m] = IF recipient /\ cc THEN "queued" ELSE "dead_letter"]
            /\ due'       = [due EXCEPT ![m] = TRUE]
            /\ errorCode' = [errorCode EXCEPT ![m] = IF recipient /\ cc THEN "none" ELSE "local"]
       ELSE UNCHANGED <<status, due, errorCode>>
  /\ UNCHANGED <<attempts, expired, runs, history>>

FirstAttempt(m) == status[m] = "queued" /\ attempts[m] = 0

\* A mutant of the claim: no rule of its own for Timekontrol mails.
ClaimableAgain(m) ==
  /\ attempts[m] < MaxAttempts
  /\ \/ status[m] \in {"queued", "retry"} /\ due[m]
     \/ status[m] = "processing" /\ expired[m]

\* A mutant of the claim: it does not wait for the processing timeout.
ClaimableAtOnce(m) ==
  /\ attempts[m] < MaxAttempts
  /\ m \in TimeControl => FirstAttempt(m)
  /\ \/ status[m] \in {"queued", "retry"} /\ due[m]
     \/ status[m] = "processing"

\* The predicate of claimDueBatch.
Claimable(m) ==
  /\ attempts[m] < MaxAttempts
  /\ m \in TimeControl => FirstAttempt(m)
  /\ \/ status[m] \in {"queued", "retry"} /\ due[m]
     \/ status[m] = "processing" /\ expired[m]

\* The predicate of claimTimeControlBatch.
TimeControlClaimable(m) == m \in TimeControl /\ FirstAttempt(m) /\ due[m]

\* Both claims: one UPDATE ... RETURNING that starts a new attempt on each row.
TakeBatch(w, picked) ==
  /\ step[w] = "idle"
  /\ picked # {}
  /\ status'    = [m \in Mails |-> IF m \in picked THEN "processing" ELSE status[m]]
  /\ attempts'  = [m \in Mails |-> IF m \in picked THEN attempts[m] + 1 ELSE attempts[m]]
  /\ expired'   = [m \in Mails |-> IF m \in picked THEN FALSE ELSE expired[m]]
  /\ errorCode' = [m \in Mails |-> IF m \in picked THEN "none" ELSE errorCode[m]]
  /\ batch'     = [batch EXCEPT ![w] =
                     {[mail |-> m, attempt |-> attempts[m] + 1, addressed |-> addressed[m]] : m \in picked}]
  /\ step'      = [step EXCEPT ![w] = "loop"]
  /\ UNCHANGED <<due, addressed, row, reply, history>>

\* SKIP LOCKED lets a claim pass over rows another transaction has locked, so
\* any claimable subset within the limit may be the one picked.
ClaimDueBatch(w) ==
  \E picked \in SUBSET {m \in Mails : Claimable(m)} :
    /\ Cardinality(picked) <= BatchLimit
    /\ TakeBatch(w, picked)

\* dispatchRun: a scheduled control claims just the mails it has queued.
ClaimTimeControlBatch(w) ==
  \E picked \in SUBSET TimeControl :
    /\ \A m \in picked : TimeControlClaimable(m)
    /\ TakeBatch(w, picked)

-----------------------------------------------------------------------------
(* The loop of processDueEmails *)

NextRow(w) ==
  /\ step[w] = "loop"
  /\ \E r \in batch[w] :
       /\ row'   = [row EXCEPT ![w] = r]
       /\ batch' = [batch EXCEPT ![w] = @ \ {r}]
  /\ step' = [step EXCEPT ![w] = "sending"]
  /\ UNCHANGED <<table, reply, history>>

FinishBatch(w) ==
  /\ step[w] = "loop"
  /\ batch[w] = {}
  /\ step' = [step EXCEPT ![w] = "idle"]
  /\ UNCHANGED <<table, batch, row, reply, history>>

\* Leave the current row and go on with the batch.
RowDone(w) ==
  /\ step'  = [step EXCEPT ![w] = "loop"]
  /\ row'   = [row EXCEPT ![w] = NoRow]
  /\ reply' = [reply EXCEPT ![w] = "none"]
  /\ UNCHANGED batch

\* An exception: on to the catch block of the row.
RowThrows(w, r) ==
  /\ step'  = [step EXCEPT ![w] = "failing"]
  /\ reply' = [reply EXCEPT ![w] = r]
  /\ UNCHANGED <<batch, row>>

MarkSent(m) ==
  IF status[m] = "processing"
    THEN /\ status'    = [status EXCEPT ![m] = "sent"]
         /\ errorCode' = [errorCode EXCEPT ![m] = "none"]
         /\ UNCHANGED <<attempts, due, expired, addressed>>
    ELSE UNCHANGED table

\* A mutant of markRetry: any row is reopened.
MarkRetryReopening(m) ==
  IF attempts[m] < MaxAttempts /\ m \notin TimeControl
    THEN /\ status'    = [status EXCEPT ![m] = "retry"]
         /\ due'       = [due EXCEPT ![m] = FALSE]
         /\ errorCode' = [errorCode EXCEPT ![m] = "failed"]
         /\ UNCHANGED <<attempts, expired, addressed>>
    ELSE UNCHANGED table

MarkRetry(m) ==
  IF status[m] = "processing" /\ attempts[m] < MaxAttempts /\ m \notin TimeControl
    THEN /\ status'    = [status EXCEPT ![m] = "retry"]
         /\ due'       = [due EXCEPT ![m] = FALSE]
         /\ errorCode' = [errorCode EXCEPT ![m] = "failed"]
         /\ UNCHANGED <<attempts, expired, addressed>>
    ELSE UNCHANGED table

MarkDeadLetter(m, code) ==
  IF status[m] \in {"processing", "queued", "retry"}
    THEN /\ status'    = [status EXCEPT ![m] = "dead_letter"]
         /\ errorCode' = [errorCode EXCEPT ![m] = code]
         /\ UNCHANGED <<attempts, due, expired, addressed>>
    ELSE UNCHANGED table

\* A row that never reaches the provider: no recipient in the claimed copy, or
\* a Timekontrol mail whose window, evidence or routing is no longer valid.
\* Its dead-lettering transaction may itself fail and throw.
Refuse(w) ==
  LET r == row[w] IN
  /\ step[w] = "sending"
  /\ ~r.addressed \/ r.mail \in TimeControl
  /\ \/ MarkDeadLetter(r.mail, "local") /\ RowDone(w)
     \/ UNCHANGED table /\ RowThrows(w, "local")
  /\ UNCHANGED history

\* sendEmailFn.  A 408 or 409 may or may not concern a message that was taken.
CallProvider(w, outcome) ==
  LET r == row[w] IN
  /\ step[w] = "sending"
  /\ r.addressed
  /\ called' = [called EXCEPT ![r.mail] = @ \cup {r.attempt}]
  /\ \E taken \in BOOLEAN :
       /\ outcome \in {"accepted", "lost"} => taken
       /\ outcome \in {"transient", "permanent"} => ~taken
       /\ accepted' = [accepted EXCEPT ![r.mail] = IF taken THEN @ \cup {r.attempt} ELSE @]
       /\ fault'    = IF taken /\ outcome # "accepted" THEN fault \cup {r.mail} ELSE fault
  /\ IF outcome = "accepted"
       THEN /\ step'  = [step EXCEPT ![w] = "settling"]
            /\ reply' = [reply EXCEPT ![w] = outcome]
            /\ UNCHANGED <<batch, row>>
       ELSE RowThrows(w, outcome)
  /\ UNCHANGED <<table, abandoned>>

\* The markSent transaction.  It finds the row in 'processing' or changes
\* nothing (which a Timekontrol mail reports as unclear); it may fail; or it
\* may commit although the connection dies before the answer.
Settle(w) ==
  LET m == row[w].mail IN
  /\ step[w] = "settling"
  /\ \/ /\ MarkSent(m)
        /\ IF m \in TimeControl /\ status[m] # "processing"
             THEN RowThrows(w, "lost")
             ELSE RowDone(w)
        /\ UNCHANGED fault
     \/ /\ UNCHANGED table
        /\ RowThrows(w, "lost")
        /\ fault' = fault \cup {m}
     \/ /\ MarkSent(m)
        /\ RowThrows(w, "lost")
        /\ UNCHANGED fault
  /\ UNCHANGED <<called, accepted, abandoned>>

\* A mutant of the retry limit, off by one.
WorthRetryOnceMore(r, how) ==
  /\ r.mail \notin TimeControl
  /\ how \notin {"permanent", "conflict"}
  /\ r.attempt <= MaxAttempts

\* classifySendError and classifyTimeControlProviderError.
WorthRetry(r, how) ==
  /\ r.mail \notin TimeControl
  /\ how \notin {"permanent", "conflict"}
  /\ r.attempt < MaxAttempts

\* A mutant of the classification: every 4xx answer is a rejection.
FailureCodeConflict(r, how) ==
  IF r.mail \notin TimeControl THEN "failed"
  ELSE IF how = "local" THEN "local"
  ELSE IF how \in {"permanent", "conflict"} THEN "rejected"
  ELSE "unclear"

FailureCode(r, how) ==
  IF r.mail \notin TimeControl THEN "failed"
  ELSE IF how = "local" THEN "local"
  ELSE IF how = "permanent" THEN "rejected"
  ELSE "unclear"

\* The catch block.
Fail(w) ==
  LET r == row[w] IN
  /\ step[w] = "failing"
  /\ IF WorthRetry(r, reply[w])
       THEN MarkRetry(r.mail)
       ELSE MarkDeadLetter(r.mail, FailureCode(r, reply[w]))
  /\ RowDone(w)
  /\ UNCHANGED history

\* The process dies, or the transaction of the catch block fails and the whole
\* run is abandoned; its claimed rows stay as they are.
Crash(w) ==
  /\ step[w] # "idle"
  /\ step'  = [step EXCEPT ![w] = "idle"]
  /\ batch' = [batch EXCEPT ![w] = {}]
  /\ row'   = [row EXCEPT ![w] = NoRow]
  /\ reply' = [reply EXCEPT ![w] = "none"]
  /\ fault' = IF step[w] = "settling" THEN fault \cup {row[w].mail} ELSE fault
  /\ abandoned' = abandoned \cup {r.mail : r \in Holding(w)}
  /\ UNCHANGED <<table, called, accepted>>

-----------------------------------------------------------------------------
(* Time *)

FallsDue(m) ==
  /\ status[m] = "retry" /\ ~due[m]
  /\ due' = [due EXCEPT ![m] = TRUE]
  /\ UNCHANGED <<status, attempts, expired, addressed, errorCode, runs, history>>

\* The processing timeout passes; a slow run may still be at work on the row.
TimeoutPasses(m) ==
  /\ status[m] = "processing" /\ ~expired[m]
  /\ expired' = [expired EXCEPT ![m] = TRUE]
  /\ fault'   = IF IsHeld(m) THEN fault \cup {m} ELSE fault
  /\ UNCHANGED <<status, attempts, due, addressed, errorCode, runs, called, accepted, abandoned>>

-----------------------------------------------------------------------------
Run(w) ==
  \/ ClaimDueBatch(w) \/ ClaimTimeControlBatch(w)
  \/ NextRow(w) \/ FinishBatch(w)
  \/ Refuse(w) \/ Settle(w) \/ Fail(w)
  \/ \E outcome \in ProviderOutcomes : CallProvider(w, outcome)

Time(m) == FallsDue(m) \/ TimeoutPasses(m)

Next ==
  \/ \E m \in Mails, recipient, cc \in BOOLEAN : Enqueue(m, recipient, cc)
  \/ \E w \in Workers : Run(w) \/ Crash(w)
  \/ \E m \in Mails : Time(m)

Spec == Init /\ [][Next]_vars

\* As long as the job keeps being invoked and its runs are not frozen.
FairSpec ==
  /\ Spec
  /\ \A w \in Workers : WF_vars(Run(w))
  /\ \A m \in Mails : WF_vars(Time(m))

-----------------------------------------------------------------------------
(* Properties *)

TableOK ==
  /\ status    \in [Mails -> Statuses]
  /\ attempts  \in [Mails -> 0..MaxAttempts]
  /\ due       \in [Mails -> BOOLEAN]
  /\ expired   \in [Mails -> BOOLEAN]
  /\ addressed \in [Mails -> BOOLEAN]
  /\ errorCode \in [Mails -> Codes]

RunsOK ==
  /\ step  \in [Workers -> Steps]
  /\ batch \in [Workers -> SUBSET Row]
  /\ row   \in [Workers -> Row \cup {NoRow}]
  /\ \A w \in Workers : row[w] = NoRow <=> step[w] \in {"idle", "loop"}
  /\ reply \in [Workers -> Replies]

HistoryOK ==
  /\ called    \in [Mails -> SUBSET (1..MaxAttempts)]
  /\ accepted  \in [Mails -> SUBSET (1..MaxAttempts)]
  /\ fault     \subseteq Mails
  /\ abandoned \subseteq Mails

\* Every variable keeps its shape; attempt_count never passes max_attempts.
TypeOK == TableOK /\ RunsOK /\ HistoryOK

\* No two runs ever call the provider on the same attempt of a mail, however
\* reclaims, retries and slow runs overlap: attempt_count is a fencing token.
NoRepeatedCall ==
  \A w \in Workers : step[w] = "sending" => row[w].attempt \notin called[row[w].mail]

\* "Automatic retries are disabled": a Timekontrol mail never reaches the
\* provider a second time, not after a crash, a timeout or an unclear answer.
TimeControlCalledOnce == \A m \in TimeControl : Cardinality(called[m]) <= 1

\* A mail shown as sent was accepted by the provider in some attempt.
SentMeansAccepted == \A m \in Mails : status[m] = "sent" => accepted[m] # {}

\* listTimeControlUncertain: the rows whose delivery an operator must clear up.
UncertainListed(m) ==
  /\ attempts[m] > 0
  /\ \/ status[m] = "processing"
     \/ status[m] = "dead_letter" /\ errorCode[m] = "unclear"

\* A Timekontrol mail the provider accepted is shown as sent or is on the list
\* of unclear deliveries; it is never written off as rejected or as not sent.
AcceptedIsVisible ==
  \A m \in TimeControl : accepted[m] # {} => status[m] = "sent" \/ UncertainListed(m)

\* A recipient gets a second copy only after a fault: a lost answer, a failed
\* settling transaction, a crash after acceptance, or a run slower than the
\* processing timeout.  Concurrent runs alone never duplicate.
NoDuplicateWithoutFault == \A m \in Mails : Cardinality(accepted[m]) > 1 => m \in fault

\* A queued or retried mail ends sent or dead-lettered, unless a run died with
\* it on its last attempt.
EventuallySettled ==
  \A m \in Mails :
    status[m] \in {"queued", "retry"} ~>
      \/ status[m] \in {"sent", "dead_letter"}
      \/ /\ status[m] = "processing" /\ m \in abandoned
         /\ m \in TimeControl \/ attempts[m] = MaxAttempts

\* The outbox implements MailDelivery.
Outcome(m) ==
  IF status[m] \in {"absent", "sent"} THEN status[m]
  ELSE IF status[m] = "dead_letter" THEN "dead"
  ELSE "pending"

Delivery == INSTANCE MailDelivery WITH
  Once <- TimeControl, Limit <- MaxAttempts,
  outcome <- [m \in Mails |-> Outcome(m)], copies <- accepted

\* What the modules that enqueue mail may rely on.
DeliveryPromise == Delivery!Spec
=============================================================================
