-------------------------- MODULE EmailOutboxProofs --------------------------
EXTENDS EmailOutbox, FiniteSetTheorems, TLAPS

\* The row of a run at work is a claimed row.
LEMMA RowType ==
  ASSUME TypeOK, NEW w \in Workers, step[w] \notin {"idle", "loop"}
  PROVE  /\ row[w] \in Row
         /\ row[w].mail \in Mails
         /\ row[w].attempt \in 1..MaxAttempts
         /\ row[w].addressed \in BOOLEAN
BY DEF TypeOK, RunsOK, Row

\* A marking statement keeps the types of the table.

LEMMA MarkType ==
  ASSUME TableOK, NEW m \in Mails, NEW code \in Codes,
         MarkSent(m) \/ MarkRetry(m) \/ MarkDeadLetter(m, code) \/ UNCHANGED table
  PROVE  TableOK'
<1>1. CASE MarkSent(m)
  BY <1>1 DEF TableOK, MarkSent, table, Statuses, Codes
<1>2. CASE MarkRetry(m)
  BY <1>2 DEF TableOK, MarkRetry, table, Statuses, Codes
<1>3. CASE MarkDeadLetter(m, code)
  BY <1>3 DEF TableOK, MarkDeadLetter, table, Statuses, Codes
<1>4. CASE UNCHANGED table
  BY <1>4 DEF TableOK, table
<1> QED
  BY <1>1, <1>2, <1>3, <1>4

LEMMA RunType ==
  ASSUME RunsOK, NEW w \in Workers, NEW r \in Replies, step[w] \notin {"idle", "loop"},
         RowDone(w) \/ RowThrows(w, r)
  PROVE  RunsOK'
<1>1. CASE RowDone(w)
  BY <1>1 DEF RunsOK, RowDone, Steps, Replies
<1>2. CASE RowThrows(w, r)
  BY <1>2 DEF RunsOK, RowThrows, Steps, Replies
<1> QED
  BY <1>1, <1>2

LEMMA TakeBatchType ==
  ASSUME TypeOK, NEW w \in Workers, NEW picked \in SUBSET Mails,
         \A m \in picked : attempts[m] < MaxAttempts, TakeBatch(w, picked)
  PROVE  TypeOK'
<1> USE AttemptsAssumption, NoRowAssumption
<1>1. TableOK'
  <2>1. attempts' \in [Mails -> 0..MaxAttempts]
    BY DEF TypeOK, TableOK, TakeBatch
  <2>2. status' \in [Mails -> Statuses] /\ errorCode' \in [Mails -> Codes]
    BY DEF TypeOK, TableOK, TakeBatch, Statuses, Codes
  <2> QED
    BY <2>1, <2>2 DEF TypeOK, TableOK, TakeBatch
<1>2. \A m \in picked : [mail |-> m, attempt |-> attempts[m] + 1, addressed |-> addressed[m]] \in Row
  <2> TAKE m \in picked
  <2>1. attempts[m] + 1 \in 1..MaxAttempts /\ addressed[m] \in BOOLEAN /\ m \in Mails
    BY DEF TypeOK, TableOK
  <2> QED
    BY <2>1 DEF Row
<1>3. RunsOK'
  BY <1>2 DEF TypeOK, RunsOK, TakeBatch, Steps
<1>4. HistoryOK'
  BY DEF TypeOK, HistoryOK, TakeBatch, history
<1> QED
  BY <1>1, <1>3, <1>4 DEF TypeOK

LEMMA InitType == Init => TypeOK
BY MailsAssumption, AttemptsAssumption, NoRowAssumption
   DEF Init, TypeOK, TableOK, RunsOK, HistoryOK, Statuses, Codes, Steps, Replies

LEMMA NextType == TypeOK /\ [Next]_vars => TypeOK'
<1> SUFFICES ASSUME TypeOK, [Next]_vars PROVE TypeOK'
  OBVIOUS
<1> USE MailsAssumption, AttemptsAssumption, NoRowAssumption
<1>1. ASSUME NEW m \in Mails, NEW recipient \in BOOLEAN, NEW cc \in BOOLEAN, Enqueue(m, recipient, cc)
      PROVE  TypeOK'
  BY <1>1 DEF TypeOK, TableOK, RunsOK, HistoryOK, Enqueue, Statuses, Codes, runs, history
<1>2. ASSUME NEW w \in Workers, ClaimDueBatch(w) PROVE TypeOK'
  BY <1>2, TakeBatchType DEF ClaimDueBatch, Claimable
<1>3. ASSUME NEW w \in Workers, ClaimTimeControlBatch(w) PROVE TypeOK'
  BY <1>3, TakeBatchType DEF ClaimTimeControlBatch, TimeControlClaimable, FirstAttempt
<1>4. ASSUME NEW w \in Workers, NextRow(w) PROVE TypeOK'
  BY <1>4 DEF TypeOK, TableOK, RunsOK, HistoryOK, NextRow, Steps, table, history
<1>5. ASSUME NEW w \in Workers, FinishBatch(w) PROVE TypeOK'
  BY <1>5 DEF TypeOK, TableOK, RunsOK, HistoryOK, FinishBatch, Steps, table, history
<1>6. ASSUME NEW w \in Workers, Refuse(w) PROVE TypeOK'
  <2>1. TableOK'
    BY <1>6, RowType, MarkType DEF TypeOK, Refuse, Codes
  <2>2. RunsOK'
    BY <1>6, RunType DEF TypeOK, Refuse, Replies
  <2>3. HistoryOK'
    BY <1>6 DEF TypeOK, HistoryOK, Refuse, history
  <2> QED
    BY <2>1, <2>2, <2>3 DEF TypeOK
<1>7. ASSUME NEW w \in Workers, NEW outcome \in ProviderOutcomes, CallProvider(w, outcome) PROVE TypeOK'
  <2>1. TableOK'
    BY <1>7 DEF TypeOK, TableOK, CallProvider, table
  <2>2. RunsOK'
    BY <1>7 DEF TypeOK, RunsOK, CallProvider, RowThrows, Steps, Replies
  <2>3. HistoryOK'
    BY <1>7, RowType DEF TypeOK, HistoryOK, CallProvider
  <2> QED
    BY <2>1, <2>2, <2>3 DEF TypeOK
<1>8. ASSUME NEW w \in Workers, Settle(w) PROVE TypeOK'
  <2>1. TableOK'
    BY <1>8, RowType, MarkType DEF TypeOK, Settle, Codes
  <2>2. RunsOK'
    BY <1>8, RunType DEF TypeOK, Settle, Replies, ProviderOutcomes
  <2>3. HistoryOK'
    BY <1>8, RowType DEF TypeOK, HistoryOK, Settle
  <2> QED
    BY <2>1, <2>2, <2>3 DEF TypeOK
<1>9. ASSUME NEW w \in Workers, Fail(w) PROVE TypeOK'
  <2>1. TableOK'
    BY <1>9, RowType, MarkType DEF TypeOK, Fail, FailureCode, Codes
  <2>2. RunsOK'
    BY <1>9, RunType DEF TypeOK, Fail, Replies
  <2>3. HistoryOK'
    BY <1>9 DEF TypeOK, HistoryOK, Fail, history
  <2> QED
    BY <2>1, <2>2, <2>3 DEF TypeOK
<1>10. ASSUME NEW w \in Workers, Crash(w) PROVE TypeOK'
  BY <1>10 DEF TypeOK, TableOK, RunsOK, HistoryOK, Crash, Holding, Steps, Replies, Row, table
<1>11. ASSUME NEW m \in Mails, Time(m) PROVE TypeOK'
  BY <1>11 DEF TypeOK, TableOK, RunsOK, HistoryOK, Time, FallsDue, TimeoutPasses, runs, history
<1>12. CASE UNCHANGED vars
  BY <1>12 DEF TypeOK, TableOK, RunsOK, HistoryOK, vars, table, runs, history
<1> QED
  BY <1>1, <1>2, <1>3, <1>4, <1>5, <1>6, <1>7, <1>8, <1>9, <1>10, <1>11, <1>12 DEF Next, Run

\* Every variable keeps its shape, and attempt_count its limit.
THEOREM TypeCorrect == Spec => []TypeOK
BY InitType, NextType, PTL DEF Spec

-----------------------------------------------------------------------------
(* The inductive invariant *)

\* A run holds attempts its rows have really reached, of rows that exist.
TicketsIssued ==
  \A w \in Workers : \A r \in Holding(w) :
    r.attempt <= attempts[r.mail] /\ status[r.mail] # "absent"

\* An attempt is in one place only.
TicketsDistinct ==
  /\ \A v, w \in Workers : \A r \in Holding(v), s \in Holding(w) :
       r.mail = s.mail /\ r.attempt = s.attempt => v = w /\ r = s
  /\ \A w \in Workers : row[w] \notin batch[w]

\* A run has not called the provider for the rows it has not worked on.
Pending(w) == batch[w] \cup {r \in {row[w]} : step[w] = "sending"}

TicketsUnspent ==
  \A w \in Workers : \A r \in Pending(w) : r.attempt \notin called[r.mail]

\* Calls are made for attempts the row has reached; only calls are accepted.
CallsIssued ==
  \A m \in Mails :
    /\ accepted[m] \subseteq called[m]
    /\ \A a \in called[m] : a <= attempts[m]

\* A Timekontrol mail gets one attempt and stays with the run that has it.
TimeControlOnce ==
  /\ \A m \in TimeControl : attempts[m] <= 1
  /\ \A w \in Workers : \A r \in Pending(w) :
       r.mail \in TimeControl => status[r.mail] = "processing"

\* What is being settled, or is sent, was accepted.
AcceptedFirst ==
  /\ \A w \in Workers : step[w] = "settling" => accepted[row[w].mail] # {}
  /\ \A m \in Mails : status[m] = "sent" => accepted[m] # {}

IInv ==
  /\ TypeOK
  /\ TicketsIssued /\ TicketsDistinct /\ TicketsUnspent
  /\ CallsIssued /\ TimeControlOnce /\ AcceptedFirst

-----------------------------------------------------------------------------
(* Each part of the invariant, kept by the steps that can disturb it *)

LEMMA HoldingType ==
  ASSUME TypeOK, NEW w \in Workers, NEW r \in Holding(w)
  PROVE  r \in Row /\ r.mail \in Mails /\ r.attempt \in 1..MaxAttempts
<1>1. r \in Row
  BY DEF TypeOK, RunsOK, Holding
<1> QED
  BY <1>1 DEF Row

LEMMA PendingHeld ==
  ASSUME TypeOK, NEW w \in Workers
  PROVE  Pending(w) \subseteq Holding(w)
BY DEF TypeOK, RunsOK, Pending, Holding

\* Steps that only take rows out of the hands of runs.
Shrink ==
  /\ \A v \in Workers : Holding(v)' \subseteq Holding(v) /\ Pending(v)' \subseteq Pending(v)
  /\ \A v \in Workers : row'[v] \notin batch'[v]

LEMMA ShrinkKeepsTickets ==
  ASSUME IInv, Shrink, attempts' = attempts,
         \A m \in Mails : status[m] # "absent" => status'[m] # "absent"
  PROVE  TicketsIssued' /\ TicketsDistinct'
<1>1. TicketsIssued'
  <2> SUFFICES ASSUME NEW w \in Workers, NEW r \in Holding(w)'
               PROVE  r.attempt <= attempts'[r.mail] /\ status'[r.mail] # "absent"
    BY DEF TicketsIssued
  <2>1. r \in Holding(w)
    BY DEF Shrink
  <2> QED
    BY <2>1, HoldingType DEF IInv, TicketsIssued
<1>2. TicketsDistinct'
  BY DEF Shrink, IInv, TicketsDistinct
<1> QED
  BY <1>1, <1>2

LEMMA ShrinkKeepsUnspent ==
  ASSUME IInv, Shrink, called' = called
  PROVE  TicketsUnspent'
BY DEF Shrink, IInv, TicketsUnspent

LEMMA RunShrinks ==
  ASSUME IInv, NEW w \in Workers, NEW r, step[w] \notin {"idle", "loop"},
         RowDone(w) \/ RowThrows(w, r)
  PROVE  Shrink
<1>1. row[w] \in Holding(w) /\ batch' = batch /\ (row'[w] = row[w] \/ row'[w] = NoRow)
  BY DEF IInv, TypeOK, RunsOK, Holding, RowDone, RowThrows
<1>2. \A v \in Workers : v # w => row'[v] = row[v] /\ step'[v] = step[v]
  BY DEF IInv, TypeOK, RunsOK, RowDone, RowThrows
<1>3. step'[w] # "sending"
  BY DEF IInv, TypeOK, RunsOK, RowDone, RowThrows
<1>4. NoRow \notin batch[w]
  BY NoRowAssumption DEF IInv, TypeOK, RunsOK
<1>5. ASSUME NEW v \in Workers
      PROVE  Holding(v)' \subseteq Holding(v) /\ Pending(v)' \subseteq Pending(v) /\ row'[v] \notin batch'[v]
  <2>1. CASE v = w
    BY <2>1, <1>1, <1>3, <1>4 DEF IInv, TicketsDistinct, Holding, Pending
  <2>2. CASE v # w
    BY <2>2, <1>1, <1>2 DEF IInv, TicketsDistinct, Holding, Pending
  <2> QED
    BY <2>1, <2>2
<1> QED
  BY <1>5 DEF Shrink

\* The statements on a run's own row.
Marks(m) == MarkSent(m) \/ MarkRetry(m) \/ (\E code \in Codes : MarkDeadLetter(m, code)) \/ UNCHANGED table

LEMMA MarkKeeps ==
  ASSUME IInv, NEW m \in Mails, Marks(m)
  PROVE  /\ attempts' = attempts
         /\ \A n \in Mails \ {m} : status'[n] = status[n]
         /\ \A n \in Mails : status[n] # "absent" => status'[n] # "absent"
         /\ \A n \in Mails : status'[n] = "sent" => status[n] = "sent" \/ (n = m /\ MarkSent(m))
<1>1. CASE MarkSent(m)
  BY <1>1 DEF IInv, TypeOK, TableOK, MarkSent, table
<1>2. CASE MarkRetry(m)
  BY <1>2 DEF IInv, TypeOK, TableOK, MarkRetry, table
<1>3. ASSUME NEW code \in Codes, MarkDeadLetter(m, code)
      PROVE  /\ attempts' = attempts
             /\ \A n \in Mails \ {m} : status'[n] = status[n]
             /\ \A n \in Mails : status[n] # "absent" => status'[n] # "absent"
             /\ \A n \in Mails : status'[n] = "sent" => status[n] = "sent"
  BY <1>3 DEF IInv, TypeOK, TableOK, MarkDeadLetter, table
<1>4. CASE UNCHANGED table
  BY <1>4 DEF table
<1> QED
  BY <1>1, <1>2, <1>3, <1>4 DEF Marks

\* All but the types.
Tickets == TicketsIssued /\ TicketsDistinct /\ TicketsUnspent
Rest    == CallsIssued /\ TimeControlOnce /\ AcceptedFirst

\* A run that marks its row, or leaves it, keeps the invariant.
LEMMA MarkingKeeps ==
  ASSUME IInv, NEW w \in Workers, NEW r, step[w] \notin {"idle", "loop"},
         RowDone(w) \/ RowThrows(w, r), Marks(row[w].mail),
         called' = called, accepted' = accepted,
         MarkSent(row[w].mail) => accepted[row[w].mail] # {} \/ UNCHANGED table
  PROVE  Tickets' /\ Rest'
<1> DEFINE m == row[w].mail
<1>1. m \in Mails /\ row[w] \in Holding(w) /\ row[w] \in Row /\ row[w].attempt \in 1..MaxAttempts
  BY RowType, NoRowAssumption DEF IInv, Holding
<1>2. Shrink
  BY RunShrinks
<1>3. /\ attempts' = attempts
      /\ \A n \in Mails \ {m} : status'[n] = status[n]
      /\ \A n \in Mails : status[n] # "absent" => status'[n] # "absent"
      /\ \A n \in Mails : status'[n] = "sent" => status[n] = "sent" \/ (n = m /\ MarkSent(m))
  BY <1>1, MarkKeeps
<1>4. Tickets'
  BY <1>2, <1>3, ShrinkKeepsTickets, ShrinkKeepsUnspent DEF Tickets
<1>5. CallsIssued'
  BY <1>3 DEF IInv, CallsIssued
<1>6. TimeControlOnce'
  <2>1. ASSUME NEW v \in Workers, NEW q \in Pending(v)', q.mail \in TimeControl
        PROVE  status'[q.mail] = "processing"
    <3>1. q \in Pending(v) /\ q \in Holding(v) /\ q.mail \in Mails /\ q.attempt \in 1..MaxAttempts
      BY <1>2, PendingHeld, HoldingType DEF IInv, Shrink
    <3>2. status[q.mail] = "processing"
      BY <2>1, <3>1 DEF IInv, TimeControlOnce
    <3>3. CASE q.mail # m
      BY <3>1, <3>2, <3>3, <1>3
    <3>4. CASE q.mail = m
      <4>1. attempts[m] = 1 /\ q.attempt = 1 /\ row[w].attempt = 1
        BY <2>1, <3>1, <3>4, <1>1, AttemptsAssumption, MailsAssumption
           DEF IInv, TypeOK, TableOK, TicketsIssued, TimeControlOnce
      <4>2. v = w /\ q = row[w]
        BY <4>1, <3>1, <3>4, <1>1 DEF IInv, TicketsDistinct
      <4>3. row'[w] \notin batch'[w] /\ batch' = batch /\ row[w] \notin batch[w] /\ step'[w] # "sending"
        BY <1>2 DEF Shrink, IInv, TypeOK, RunsOK, TicketsDistinct, RowDone, RowThrows
      <4> QED
        BY <2>1, <4>2, <4>3 DEF Pending
    <3> QED
      BY <3>3, <3>4
  <2> QED
    BY <2>1, <1>3 DEF IInv, TimeControlOnce
<1>7. AcceptedFirst'
  <2>1. \A v \in Workers : step'[v] = "settling" => step[v] = "settling" /\ row'[v] = row[v]
    BY DEF IInv, TypeOK, RunsOK, RowDone, RowThrows
  <2>2. \A n \in Mails : status'[n] = "sent" => accepted[n] # {}
    <3> SUFFICES ASSUME NEW n \in Mails, status'[n] = "sent" PROVE accepted[n] # {}
      OBVIOUS
    <3>1. CASE status[n] = "sent"
      BY <3>1 DEF IInv, AcceptedFirst
    <3>2. CASE status[n] # "sent"
      <4>1. n = m /\ MarkSent(m)
        BY <3>2, <1>3
      <4> QED
        BY <4>1, <3>2 DEF table
    <3> QED
      BY <3>1, <3>2
  <2> QED
    BY <2>1, <2>2 DEF IInv, AcceptedFirst
<1> QED
  BY <1>4, <1>5, <1>6, <1>7 DEF Rest

\* A claim issues attempts no run has held before.
LEMMA ClaimKeeps ==
  ASSUME IInv, NEW w \in Workers, NEW picked \in SUBSET Mails,
         \A m \in picked : /\ status[m] # "absent"
                           /\ attempts[m] < MaxAttempts
                           /\ m \in TimeControl => FirstAttempt(m),
         TakeBatch(w, picked)
  PROVE  Tickets' /\ Rest'
<1> DEFINE New == {[mail |-> m, attempt |-> attempts[m] + 1, addressed |-> addressed[m]] : m \in picked}
<1>1. /\ \A m \in Mails : attempts[m] \in 0..MaxAttempts
      /\ \A m \in Mails : attempts'[m] = IF m \in picked THEN attempts[m] + 1 ELSE attempts[m]
      /\ \A m \in Mails : status'[m] = IF m \in picked THEN "processing" ELSE status[m]
      /\ row' = row /\ called' = called /\ accepted' = accepted
  BY DEF IInv, TypeOK, TableOK, TakeBatch, history
<1>2. /\ row[w] = NoRow
      /\ batch' = [batch EXCEPT ![w] = New] /\ step' = [step EXCEPT ![w] = "loop"]
  BY DEF IInv, TypeOK, RunsOK, TakeBatch
<1>3. /\ Holding(w)' = New /\ Pending(w)' = New
      /\ \A v \in Workers : v # w => Holding(v)' = Holding(v) /\ Pending(v)' = Pending(v)
  BY <1>1, <1>2 DEF IInv, TypeOK, RunsOK, Holding, Pending
<1>4. \A q \in New : /\ q.mail \in picked /\ q.mail \in Mails /\ q.attempt = attempts[q.mail] + 1
                     /\ q = [mail |-> q.mail, attempt |-> attempts[q.mail] + 1, addressed |-> addressed[q.mail]]
  OBVIOUS
<1>5. \A v \in Workers : \A q \in Holding(v) :
        q.mail \in Mails /\ q.attempt <= attempts[q.mail] /\ q.attempt \in 1..MaxAttempts
  BY HoldingType DEF IInv, TicketsIssued
<1>6. TicketsIssued'
  <2> SUFFICES ASSUME NEW v \in Workers, NEW q \in Holding(v)'
               PROVE  q.attempt <= attempts'[q.mail] /\ status'[q.mail] # "absent"
    BY DEF TicketsIssued
  <2>1. CASE v = w
    BY <2>1, <1>1, <1>3, <1>4
  <2>2. CASE v # w
    BY <2>2, <1>1, <1>3, <1>5 DEF IInv, TicketsIssued
  <2> QED
    BY <2>1, <2>2
<1>7. TicketsDistinct'
  <2>1. ASSUME NEW u \in Workers, NEW v \in Workers, NEW q \in Holding(u)', NEW s \in Holding(v)',
               q.mail = s.mail, q.attempt = s.attempt
        PROVE  u = v /\ q = s
    <3>1. CASE u = w /\ v = w
      BY <2>1, <3>1, <1>3, <1>4
    <3>2. CASE u = w /\ v # w
      BY <2>1, <3>2, <1>1, <1>3, <1>4, <1>5
    <3>3. CASE u # w /\ v = w
      BY <2>1, <3>3, <1>1, <1>3, <1>4, <1>5
    <3>4. CASE u # w /\ v # w
      BY <2>1, <3>4, <1>3 DEF IInv, TicketsDistinct
    <3> QED
      BY <3>1, <3>2, <3>3, <3>4
  <2>2. ASSUME NEW v \in Workers PROVE row'[v] \notin batch'[v]
    <3>1. NoRow \notin New
      <4>1. \A m \in picked : attempts[m] + 1 \in 1..MaxAttempts /\ addressed[m] \in BOOLEAN
        BY <1>1, AttemptsAssumption DEF IInv, TypeOK, TableOK
      <4>2. New \subseteq Row
        BY <4>1 DEF Row
      <4> QED
        BY <4>2, NoRowAssumption
    <3> QED
      BY <3>1, <1>1, <1>2 DEF IInv, TypeOK, RunsOK, TicketsDistinct
  <2> QED
    BY <2>1, <2>2 DEF TicketsDistinct
<1>8. TicketsUnspent'
  <2> SUFFICES ASSUME NEW v \in Workers, NEW q \in Pending(v)'
               PROVE  q.attempt \notin called[q.mail]
    BY <1>1 DEF TicketsUnspent
  <2>1. CASE v = w
    BY <2>1, <1>1, <1>3, <1>4 DEF IInv, CallsIssued
  <2>2. CASE v # w
    BY <2>2, <1>3 DEF IInv, TicketsUnspent
  <2> QED
    BY <2>1, <2>2
<1>9. CallsIssued'
  <2> SUFFICES ASSUME NEW m \in Mails
               PROVE  accepted[m] \subseteq called[m] /\ \A a \in called[m] : a <= attempts'[m]
    BY <1>1 DEF CallsIssued
  <2>1. called[m] \subseteq 1..MaxAttempts
    BY DEF IInv, TypeOK, HistoryOK
  <2> QED
    BY <1>1, <2>1 DEF IInv, CallsIssued
<1>10. TimeControlOnce'
  <2>1. \A m \in TimeControl : attempts'[m] <= 1
    BY <1>1, MailsAssumption DEF IInv, TimeControlOnce, FirstAttempt
  <2>2. ASSUME NEW v \in Workers, NEW q \in Pending(v)', q.mail \in TimeControl
        PROVE  status'[q.mail] = "processing"
    <3>1. CASE v = w
      BY <3>1, <1>1, <1>3, <1>4
    <3>2. CASE v # w
      BY <2>2, <3>2, <1>1, <1>3, MailsAssumption DEF IInv, TimeControlOnce
    <3> QED
      BY <3>1, <3>2
  <2> QED
    BY <2>1, <2>2 DEF TimeControlOnce
<1>11. AcceptedFirst'
  BY <1>1, <1>2 DEF IInv, TypeOK, RunsOK, AcceptedFirst
<1> QED
  BY <1>6, <1>7, <1>8, <1>9, <1>10, <1>11 DEF Tickets, Rest

\* A provider call spends the attempt of the row it is made for.
LEMMA CallKeeps ==
  ASSUME IInv, NEW w \in Workers, NEW outcome \in ProviderOutcomes, CallProvider(w, outcome)
  PROVE  Tickets' /\ Rest'
<1> DEFINE r == row[w]
<1>1. /\ r.mail \in Mails /\ r \in Holding(w) /\ r \in Pending(w) /\ r.attempt \in 1..MaxAttempts
      /\ r \notin batch[w]
  BY RowType, NoRowAssumption DEF IInv, TicketsDistinct, Holding, Pending, CallProvider
<1>2. /\ UNCHANGED table /\ batch' = batch /\ row' = row
      /\ \A v \in Workers : v # w => step'[v] = step[v]
      /\ step'[w] \in {"settling", "failing"}
      /\ step'[w] = "settling" => outcome = "accepted"
  BY DEF IInv, TypeOK, RunsOK, CallProvider, RowThrows
<1>3. /\ \A m \in Mails : called'[m] = IF m = r.mail THEN called[m] \cup {r.attempt} ELSE called[m]
      /\ \A m \in Mails : accepted'[m] = accepted[m] \/ (m = r.mail /\ accepted'[m] = accepted[m] \cup {r.attempt})
      /\ outcome = "accepted" => r.attempt \in accepted'[r.mail]
  <2>1. /\ called' = [called EXCEPT ![r.mail] = @ \cup {r.attempt}]
        /\ \E taken \in BOOLEAN :
             /\ outcome = "accepted" => taken
             /\ accepted' = [accepted EXCEPT ![r.mail] = IF taken THEN @ \cup {r.attempt} ELSE @]
    BY DEF CallProvider
  <2>2. called \in [Mails -> SUBSET (1..MaxAttempts)] /\ accepted \in [Mails -> SUBSET (1..MaxAttempts)]
    BY DEF IInv, TypeOK, HistoryOK
  <2> QED
    BY <1>1, <2>1, <2>2
<1>4. Shrink
  BY <1>2 DEF Shrink, Holding, Pending, IInv, TicketsDistinct
<1>5. TicketsIssued' /\ TicketsDistinct'
  BY <1>2, <1>4, ShrinkKeepsTickets DEF table
<1>6. TicketsUnspent'
  <2> SUFFICES ASSUME NEW v \in Workers, NEW q \in Pending(v)'
               PROVE  q.attempt \notin called'[q.mail]
    BY DEF TicketsUnspent
  <2>1. q \in Pending(v) /\ q \in Holding(v) /\ q.mail \in Mails
    BY <1>4, PendingHeld, HoldingType DEF Shrink, IInv
  <2>2. q.attempt \notin called[q.mail]
    BY <2>1 DEF IInv, TicketsUnspent
  <2>3. ~(q.mail = r.mail /\ q.attempt = r.attempt)
    <3>1. SUFFICES ASSUME q.mail = r.mail, q.attempt = r.attempt PROVE FALSE
      OBVIOUS
    <3>2. v = w /\ q = r
      BY <3>1, <2>1, <1>1 DEF IInv, TicketsDistinct
    <3> QED
      BY <3>2, <1>1, <1>2 DEF Pending
  <2> QED
    BY <2>1, <2>2, <2>3, <1>3, ZenonT(30)
<1>7. CallsIssued'
  <2>1. r.attempt <= attempts[r.mail]
    BY <1>1 DEF IInv, TicketsIssued
  <2> QED
    <3>1. \A m \in Mails : accepted'[m] \subseteq called'[m]
      BY <1>3 DEF IInv, CallsIssued
    <3>2. ASSUME NEW m \in Mails, NEW a \in called'[m] PROVE a <= attempts[m]
      <4>1. CASE m = r.mail /\ a = r.attempt
        BY <4>1, <2>1
      <4>2. CASE a \in called[m]
        BY <4>2 DEF IInv, CallsIssued
      <4> QED
        BY <4>1, <4>2, <1>3
    <3> QED
      BY <3>1, <3>2, <1>2 DEF CallsIssued, table
<1>8. TimeControlOnce'
  BY <1>2, <1>4 DEF IInv, TimeControlOnce, Shrink, table
<1>9. AcceptedFirst'
  <2>1. \A m \in Mails : accepted[m] \subseteq accepted'[m]
    BY <1>3
  <2>2. \A v \in Workers : step'[v] = "settling" => accepted'[row[v].mail] # {}
    <3> SUFFICES ASSUME NEW v \in Workers, step'[v] = "settling" PROVE accepted'[row[v].mail] # {}
      OBVIOUS
    <3>1. CASE v = w
      BY <3>1, <1>2, <1>3
    <3>2. CASE v # w
      <4>1. step[v] = "settling" /\ row[v].mail \in Mails
        BY <3>2, <1>2, RowType DEF IInv
      <4> QED
        BY <4>1, <2>1 DEF IInv, AcceptedFirst
    <3> QED
      BY <3>1, <3>2
  <2> QED
    BY <2>1, <2>2, <1>2 DEF IInv, AcceptedFirst, table
<1> QED
  BY <1>5, <1>6, <1>7, <1>8, <1>9 DEF Tickets, Rest

\* Steps that leave the runs, or only drop rows, and never mark one.
LEMMA QuietKeeps ==
  ASSUME IInv, Shrink, attempts' = attempts, called' = called, accepted' = accepted,
         \A m \in Mails : /\ status[m] # "absent" => status'[m] = status[m]
                          /\ status'[m] # "sent" \/ status'[m] = status[m],
         \A v \in Workers : step'[v] = "settling" => step[v] = "settling" /\ row'[v] = row[v]
  PROVE  Tickets' /\ Rest'
<1>1. Tickets'
  BY ShrinkKeepsTickets, ShrinkKeepsUnspent DEF Tickets
<1>2. CallsIssued'
  BY DEF IInv, CallsIssued
<1>3. TimeControlOnce'
  <2>1. ASSUME NEW v \in Workers, NEW q \in Pending(v)', q.mail \in TimeControl
        PROVE  status'[q.mail] = "processing"
    BY <2>1, MailsAssumption DEF IInv, Shrink, TimeControlOnce
  <2> QED
    BY <2>1 DEF IInv, TimeControlOnce
<1>4. AcceptedFirst'
  BY DEF IInv, AcceptedFirst
<1> QED
  BY <1>1, <1>2, <1>3, <1>4 DEF Rest

LEMMA NextRowKeeps ==
  ASSUME IInv, NEW w \in Workers, NextRow(w)
  PROVE  Tickets' /\ Rest'
<1>1. PICK r \in batch[w] : row' = [row EXCEPT ![w] = r] /\ batch' = [batch EXCEPT ![w] = @ \ {r}]
  BY DEF NextRow
<1>2. step' = [step EXCEPT ![w] = "sending"] /\ row[w] = NoRow /\ NoRow \notin batch[w]
  BY NoRowAssumption DEF IInv, TypeOK, RunsOK, NextRow
<1>3. \A v \in Workers : Holding(v)' = Holding(v) /\ Pending(v)' = Pending(v) /\ row'[v] \notin batch'[v]
  <2> SUFFICES ASSUME NEW v \in Workers
               PROVE  Holding(v)' = Holding(v) /\ Pending(v)' = Pending(v) /\ row'[v] \notin batch'[v]
    OBVIOUS
  <2>1. CASE v = w
    BY <2>1, <1>1, <1>2 DEF IInv, TypeOK, RunsOK, Holding, Pending, NextRow
  <2>2. CASE v # w
    BY <2>2, <1>1, <1>2 DEF IInv, TypeOK, RunsOK, TicketsDistinct, Holding, Pending
  <2> QED
    BY <2>1, <2>2
<1> QED
  BY <1>1, <1>2, <1>3, QuietKeeps DEF IInv, TypeOK, RunsOK, Shrink, NextRow, table, history

LEMMA InitInv == Init => IInv
<1> SUFFICES ASSUME Init PROVE IInv
  OBVIOUS
<1>1. \A w \in Workers : Holding(w) = {} /\ Pending(w) = {}
  BY DEF Init, Holding, Pending
<1> QED
  BY <1>1, InitType, MailsAssumption
     DEF Init, IInv, TicketsIssued, TicketsDistinct, TicketsUnspent, CallsIssued, TimeControlOnce, AcceptedFirst

LEMMA NextInv == IInv /\ [Next]_vars => IInv'
<1> SUFFICES ASSUME IInv, [Next]_vars PROVE IInv'
  OBVIOUS
<1>1. TypeOK'
  BY NextType DEF IInv
<1>2. ASSUME NEW m \in Mails, NEW recipient \in BOOLEAN, NEW cc \in BOOLEAN, Enqueue(m, recipient, cc)
      PROVE  Tickets' /\ Rest'
  <2>1. \A v \in Workers : Holding(v)' = Holding(v) /\ Pending(v)' = Pending(v)
    BY <1>2 DEF Enqueue, runs, Holding, Pending
  <2>2. \A n \in Mails : /\ status[n] # "absent" => status'[n] = status[n]
                         /\ status'[n] # "sent" \/ status'[n] = status[n]
    BY <1>2 DEF Enqueue, IInv, TypeOK, TableOK
  <2> QED
    BY <1>2, <2>1, <2>2, QuietKeeps DEF IInv, Enqueue, TicketsDistinct, Shrink, runs, history
<1>3. ASSUME NEW w \in Workers, ClaimDueBatch(w) PROVE Tickets' /\ Rest'
  BY <1>3, ClaimKeeps DEF ClaimDueBatch, Claimable
<1>4. ASSUME NEW w \in Workers, ClaimTimeControlBatch(w) PROVE Tickets' /\ Rest'
  BY <1>4, ClaimKeeps, AttemptsAssumption, MailsAssumption DEF ClaimTimeControlBatch, TimeControlClaimable, FirstAttempt
<1>5. ASSUME NEW w \in Workers, NextRow(w) PROVE Tickets' /\ Rest'
  BY <1>5, NextRowKeeps
<1>6. ASSUME NEW w \in Workers, FinishBatch(w) PROVE Tickets' /\ Rest'
  <2>1. \A v \in Workers : Holding(v)' = Holding(v) /\ Pending(v)' \subseteq Pending(v)
    BY <1>6 DEF FinishBatch, IInv, TypeOK, RunsOK, Holding, Pending
  <2> QED
    BY <1>6, <2>1, QuietKeeps DEF FinishBatch, IInv, TypeOK, RunsOK, TicketsDistinct, Shrink, table, history
<1>7. ASSUME NEW w \in Workers, Refuse(w) PROVE Tickets' /\ Rest'
  <2>1. Marks(row[w].mail) /\ (MarkSent(row[w].mail) => UNCHANGED table)
    <3>1. row[w].mail \in Mails /\ "local" \in Codes
      BY <1>7, RowType DEF Refuse, IInv, Codes
    <3>2. CASE UNCHANGED table
      BY <3>2 DEF Marks
    <3>3. CASE MarkDeadLetter(row[w].mail, "local")
      BY <3>1, <3>3 DEF Marks, MarkDeadLetter, MarkSent, table, IInv, TypeOK, TableOK
    <3> QED
      BY <1>7, <3>2, <3>3 DEF Refuse
  <2> QED
    BY <1>7, <2>1, MarkingKeeps DEF Refuse, history
<1>8. ASSUME NEW w \in Workers, NEW outcome \in ProviderOutcomes, CallProvider(w, outcome)
      PROVE  Tickets' /\ Rest'
  BY <1>8, CallKeeps
<1>9. ASSUME NEW w \in Workers, Settle(w) PROVE Tickets' /\ Rest'
  <2>1. Marks(row[w].mail) /\ accepted[row[w].mail] # {}
    BY <1>9 DEF Settle, Marks, IInv, AcceptedFirst
  <2> QED
    BY <1>9, <2>1, MarkingKeeps DEF Settle
<1>10. ASSUME NEW w \in Workers, Fail(w) PROVE Tickets' /\ Rest'
  <2>1. Marks(row[w].mail) /\ (MarkSent(row[w].mail) => UNCHANGED table)
    <3>1. row[w].mail \in Mails /\ FailureCode(row[w], reply[w]) \in Codes
      BY <1>10, RowType DEF Fail, FailureCode, IInv, Codes
    <3>2. CASE MarkRetry(row[w].mail)
      BY <3>1, <3>2 DEF Marks, MarkRetry, MarkSent, table, IInv, TypeOK, TableOK
    <3>3. CASE MarkDeadLetter(row[w].mail, FailureCode(row[w], reply[w]))
      BY <3>1, <3>3 DEF Marks, MarkDeadLetter, MarkSent, table, IInv, TypeOK, TableOK
    <3> QED
      BY <1>10, <3>2, <3>3 DEF Fail
  <2> QED
    BY <1>10, <2>1, MarkingKeeps DEF Fail, history
<1>11. ASSUME NEW w \in Workers, Crash(w) PROVE Tickets' /\ Rest'
  <2>1. \A v \in Workers : /\ Holding(v)' \subseteq Holding(v) /\ Pending(v)' \subseteq Pending(v)
                           /\ row'[v] \notin batch'[v]
    BY <1>11 DEF Crash, IInv, TypeOK, RunsOK, TicketsDistinct, Holding, Pending
  <2> QED
    BY <1>11, <2>1, QuietKeeps DEF Crash, IInv, TypeOK, RunsOK, Shrink, table
<1>12. ASSUME NEW m \in Mails, Time(m) PROVE Tickets' /\ Rest'
  <2>1. \A v \in Workers : Holding(v)' = Holding(v) /\ Pending(v)' = Pending(v)
    BY <1>12 DEF Time, FallsDue, TimeoutPasses, runs, Holding, Pending
  <2> QED
    BY <1>12, <2>1, QuietKeeps DEF Time, FallsDue, TimeoutPasses, IInv, TicketsDistinct, Shrink, runs, history
<1>13. ASSUME UNCHANGED vars PROVE Tickets' /\ Rest'
  <2>1. \A v \in Workers : Holding(v)' = Holding(v) /\ Pending(v)' = Pending(v)
    BY <1>13 DEF vars, runs, Holding, Pending
  <2>2. Shrink
    BY <1>13, <2>1 DEF vars, runs, IInv, TicketsDistinct, Shrink
  <2>3. /\ status' = status /\ attempts' = attempts /\ step' = step /\ row' = row
        /\ called' = called /\ accepted' = accepted
    BY <1>13 DEF vars, table, runs, history
  <2> QED
    BY <2>2, <2>3, QuietKeeps
<1> QED
  BY <1>1, <1>2, <1>3, <1>4, <1>5, <1>6, <1>7, <1>8, <1>9, <1>10, <1>11, <1>12, <1>13
     DEF Next, Run, IInv, Tickets, Rest

LEMMA Invariance == Spec => []IInv
BY InitInv, NextInv, PTL DEF Spec

-----------------------------------------------------------------------------
(* What follows from the invariant *)

\* No attempt of a mail reaches the provider twice.
THEOREM AttemptsAreSpentOnce == Spec => []NoRepeatedCall
<1>1. IInv => NoRepeatedCall
  BY DEF IInv, TicketsUnspent, Pending, NoRepeatedCall
<1> QED
  BY <1>1, Invariance, PTL

\* A Timekontrol mail reaches the provider at most once.
THEOREM TimeControlIsCalledOnce == Spec => []TimeControlCalledOnce
<1>1. IInv => TimeControlCalledOnce
  <2> SUFFICES ASSUME IInv, NEW m \in TimeControl PROVE Cardinality(called[m]) <= 1
    BY DEF TimeControlCalledOnce
  <2>1. called[m] \subseteq {1}
    BY MailsAssumption, AttemptsAssumption
       DEF IInv, TypeOK, TableOK, HistoryOK, CallsIssued, TimeControlOnce
  <2>2. called[m] = {} \/ called[m] = {1}
    BY <2>1
  <2> QED
    <3>1. Cardinality({}) = 0 /\ Cardinality({1}) = 1
      BY FS_EmptySet, FS_Singleton
    <3> QED
      BY <2>2, <3>1
<1> QED
  BY <1>1, Invariance, PTL

\* A mail shown as sent was accepted.
THEOREM SentWasAccepted == Spec => []SentMeansAccepted
<1>1. IInv => SentMeansAccepted
  BY DEF IInv, AcceptedFirst, SentMeansAccepted
<1> QED
  BY <1>1, Invariance, PTL

-----------------------------------------------------------------------------
(* The outbox implements MailDelivery *)

LEMMA InitDelivers == Init => Delivery!Init
BY DEF Init, Delivery!Init, Outcome

LEMMA OutcomeUnchanged ==
  ASSUME TypeOK, accepted' = accepted, \A n \in Mails : Outcome(n)' = Outcome(n)
  PROVE  UNCHANGED Delivery!vars
BY DEF Delivery!vars

\* Marking a row maps to Confirm, GiveUp or nothing.
LEMMA MarkDelivers ==
  ASSUME IInv, NEW m \in Mails, Marks(m), accepted' = accepted,
         MarkSent(m) => accepted[m] # {} \/ UNCHANGED table
  PROVE  Delivery!Confirm(m) \/ Delivery!GiveUp(m) \/ UNCHANGED Delivery!vars
<1>1. CASE MarkSent(m) /\ status[m] = "processing"
  <2>1. status' = [status EXCEPT ![m] = "sent"] /\ accepted[m] # {}
    BY <1>1 DEF MarkSent, table, IInv, TypeOK, TableOK
  <2> QED
    BY <1>1, <2>1 DEF Delivery!Confirm, Outcome, IInv, TypeOK, TableOK
<1>2. CASE MarkRetry(m) /\ status[m] = "processing"
  <2>1. \A n \in Mails : Outcome(n)' = Outcome(n)
    BY <1>2 DEF MarkRetry, table, Outcome, IInv, TypeOK, TableOK
  <2> QED
    BY <2>1, OutcomeUnchanged DEF IInv
<1>3. ASSUME NEW code \in Codes, MarkDeadLetter(m, code), status[m] \in {"processing", "queued", "retry"}
      PROVE  Delivery!GiveUp(m)
  <2>1. status' = [status EXCEPT ![m] = "dead_letter"]
    BY <1>3 DEF MarkDeadLetter
  <2> QED
    BY <1>3, <2>1 DEF Delivery!GiveUp, Outcome, IInv, TypeOK, TableOK
<1>4. CASE UNCHANGED table
  <2>1. \A n \in Mails : Outcome(n)' = Outcome(n)
    BY <1>4 DEF table, Outcome
  <2> QED
    BY <2>1, OutcomeUnchanged DEF IInv
<1> QED
  BY <1>1, <1>2, <1>3, <1>4 DEF Marks, MarkSent, MarkRetry, MarkDeadLetter

\* A provider call maps to Deliver, or to nothing when the mail was not taken.
LEMMA CallDelivers ==
  ASSUME IInv, NEW w \in Workers, NEW outcome \in ProviderOutcomes, CallProvider(w, outcome)
  PROVE  Delivery!Deliver(row[w].mail) \/ UNCHANGED Delivery!vars
<1> DEFINE m == row[w].mail
           a == row[w].attempt
<1>1. m \in Mails /\ row[w] \in Holding(w) /\ row[w] \in Pending(w) /\ a \in 1..MaxAttempts
  BY RowType, NoRowAssumption DEF IInv, Holding, Pending, CallProvider
<1>2. \A n \in Mails : Outcome(n)' = Outcome(n)
  BY DEF CallProvider, table, Outcome
<1>3. status[m] # "absent" /\ a \notin called[m] /\ accepted[m] \subseteq called[m]
  BY <1>1 DEF IInv, TicketsIssued, TicketsUnspent, CallsIssued
<1>4. m \in TimeControl => status[m] = "processing" /\ accepted[m] = {}
  <2> SUFFICES ASSUME m \in TimeControl PROVE status[m] = "processing" /\ accepted[m] = {}
    OBVIOUS
  <2>1. a = 1 /\ attempts[m] <= 1 /\ called[m] \subseteq 1..MaxAttempts /\ status[m] = "processing"
    BY <1>1, AttemptsAssumption DEF IInv, TypeOK, TableOK, HistoryOK, TicketsIssued, TimeControlOnce
  <2>2. \A c \in called[m] : c = 1
    BY <1>1, <2>1, AttemptsAssumption DEF IInv, TypeOK, TableOK, CallsIssued
  <2> QED
    BY <1>3, <2>1, <2>2
<1>5. CASE accepted' = [accepted EXCEPT ![m] = @ \cup {a}]
  <2>1. Outcome(m) # "absent" /\ (m \in TimeControl => Outcome(m) = "pending" /\ accepted[m] = {})
    BY <1>3, <1>4 DEF Outcome
  <2>2. a \in (1..MaxAttempts) \ accepted[m]
    BY <1>1, <1>3
  <2> QED
    BY <1>1, <1>2, <1>5, <2>1, <2>2 DEF Delivery!Deliver
<1>6. CASE accepted' = accepted
  BY <1>2, <1>6, OutcomeUnchanged DEF IInv
<1>7. accepted' = accepted \/ accepted' = [accepted EXCEPT ![m] = @ \cup {a}]
  <2>1. accepted \in [Mails -> SUBSET (1..MaxAttempts)]
    BY DEF IInv, TypeOK, HistoryOK
  <2>2. \E taken \in BOOLEAN : accepted' = [accepted EXCEPT ![m] = IF taken THEN @ \cup {a} ELSE @]
    BY DEF CallProvider
  <2> QED
    BY <1>1, <2>1, <2>2
<1> QED
  BY <1>5, <1>6, <1>7

LEMMA NextDelivers == IInv /\ [Next]_vars => [Delivery!Next]_(Delivery!vars)
<1> SUFFICES ASSUME IInv, [Next]_vars PROVE Delivery!Next \/ UNCHANGED Delivery!vars
  OBVIOUS
<1>1. ASSUME NEW m \in Mails, NEW recipient \in BOOLEAN, NEW cc \in BOOLEAN, Enqueue(m, recipient, cc)
      PROVE  Delivery!Accept(m) \/ UNCHANGED Delivery!vars
  <2>1. CASE status[m] = "absent"
    BY <1>1, <2>1 DEF Enqueue, history, Delivery!Accept, Outcome, IInv, TypeOK, TableOK
  <2>2. CASE status[m] # "absent"
    BY <1>1, <2>2, OutcomeUnchanged DEF Enqueue, history, Outcome, IInv
  <2> QED
    BY <2>1, <2>2
<1>2. ASSUME NEW w \in Workers, NEW picked \in SUBSET Mails, TakeBatch(w, picked),
             \A m \in picked : status[m] \in {"queued", "retry", "processing"}
      PROVE  UNCHANGED Delivery!vars
  <2>1. \A n \in Mails : Outcome(n)' = Outcome(n)
    BY <1>2 DEF TakeBatch, Outcome, IInv, TypeOK, TableOK
  <2> QED
    BY <1>2, <2>1, OutcomeUnchanged DEF TakeBatch, history, IInv
<1>3. ASSUME NEW w \in Workers, ClaimDueBatch(w) \/ ClaimTimeControlBatch(w) PROVE UNCHANGED Delivery!vars
  BY <1>2, <1>3, MailsAssumption DEF ClaimDueBatch, ClaimTimeControlBatch, Claimable, TimeControlClaimable, FirstAttempt
<1>4. ASSUME NEW w \in Workers, Refuse(w) \/ Settle(w) \/ Fail(w) PROVE Delivery!Next \/ UNCHANGED Delivery!vars
  <2> DEFINE m == row[w].mail
  <2>1. m \in Mails /\ "local" \in Codes /\ FailureCode(row[w], reply[w]) \in Codes
    BY <1>4, RowType DEF IInv, Refuse, Settle, Fail, FailureCode, Codes
  <2>2. accepted' = accepted
    BY <1>4 DEF Refuse, Settle, Fail, history
  <2>3. Marks(m)
    BY <1>4, <2>1 DEF Refuse, Settle, Fail, Marks
  <2>4. MarkSent(m) => accepted[m] # {} \/ UNCHANGED table
    <3>1. CASE Settle(w)
      BY <3>1 DEF Settle, IInv, AcceptedFirst
    <3>2. ASSUME NEW code \in Codes, MarkDeadLetter(m, code) PROVE MarkSent(m) => UNCHANGED table
      BY <2>1, <3>2 DEF MarkDeadLetter, MarkSent, table, IInv, TypeOK, TableOK
    <3>3. CASE MarkRetry(m)
      BY <2>1, <3>3 DEF MarkRetry, MarkSent, table, IInv, TypeOK, TableOK
    <3> QED
      BY <1>4, <2>1, <3>1, <3>2, <3>3 DEF Refuse, Fail
  <2> QED
    BY <2>1, <2>2, <2>3, <2>4, MarkDelivers DEF Delivery!Next
<1>5. ASSUME NEW w \in Workers, NEW outcome \in ProviderOutcomes, CallProvider(w, outcome)
      PROVE  Delivery!Next \/ UNCHANGED Delivery!vars
  BY <1>5, CallDelivers, RowType DEF Delivery!Next, CallProvider, IInv
<1>6. ASSUME status' = status, accepted' = accepted PROVE UNCHANGED Delivery!vars
  BY <1>6, OutcomeUnchanged DEF Outcome, IInv
<1>7. ASSUME NEW w \in Workers, NextRow(w) \/ FinishBatch(w) \/ Crash(w) PROVE UNCHANGED Delivery!vars
  BY <1>6, <1>7 DEF NextRow, FinishBatch, Crash, table, history
<1>8. ASSUME NEW m \in Mails, Time(m) PROVE UNCHANGED Delivery!vars
  BY <1>6, <1>8 DEF Time, FallsDue, TimeoutPasses, history
<1>9. CASE UNCHANGED vars
  BY <1>6, <1>9 DEF vars, table, history
<1>10. \A m \in Mails : Delivery!Accept(m) => Delivery!Next
  BY DEF Delivery!Next
<1> QED
  BY <1>1, <1>3, <1>4, <1>5, <1>7, <1>8, <1>9, <1>10 DEF Next, Run

\* One outcome per mail, sent only after a delivery, and for a Timekontrol mail
\* a single delivery, made while the mail was still pending.
THEOREM OutboxDelivers == Spec => DeliveryPromise
BY InitDelivers, NextDelivers, Invariance, PTL DEF Spec, DeliveryPromise, Delivery!Spec
-----------------------------------------------------------------------------
(* An accepted Timekontrol mail stays visible *)

\* Where an accepted Timekontrol mail may stand: with its run, settled, or
\* dead-lettered with the code that puts it on the list of unclear deliveries.
StandsVisibly(m) ==
  \/ status[m] \in {"processing", "sent"}
  \/ status[m] = "dead_letter" /\ errorCode[m] = "unclear"

\* A run that failed after the provider took its Timekontrol mail knows that it
\* cannot tell: its reply is neither a rejection nor a local refusal.
FailsUnclear(w) ==
  step[w] = "failing" /\ row[w].mail \in TimeControl /\ accepted[row[w].mail] # {}
    => reply[w] \in {"lost", "conflict"}

Visible ==
  /\ \A m \in TimeControl : accepted[m] # {} => StandsVisibly(m)
  /\ \A w \in Workers : FailsUnclear(w)

\* A Timekontrol row that waits for its call was never accepted before.
LEMMA UncalledUnaccepted ==
  ASSUME IInv, NEW w \in Workers, NEW r \in Pending(w), r.mail \in TimeControl
  PROVE  accepted[r.mail] = {} /\ status[r.mail] = "processing"
<1> DEFINE m == r.mail
<1>1. r \in Holding(w) /\ m \in Mails /\ r.attempt \in 1..MaxAttempts
  BY PendingHeld, HoldingType DEF IInv
<1>2. r.attempt = 1 /\ attempts[m] <= 1 /\ called[m] \subseteq 1..MaxAttempts
  BY <1>1, AttemptsAssumption DEF IInv, TypeOK, TableOK, HistoryOK, TicketsIssued, TimeControlOnce
<1>3. \A c \in called[m] : c = 1
  BY <1>1, <1>2, AttemptsAssumption DEF IInv, TypeOK, TableOK, CallsIssued
<1>4. 1 \notin called[m]
  BY <1>2 DEF IInv, TicketsUnspent
<1>5. accepted[m] = {}
  BY <1>1, <1>3, <1>4 DEF IInv, CallsIssued
<1> QED
  BY <1>5 DEF IInv, TimeControlOnce

\* The row a run is about to send waits for its call.
LEMMA SendingPends ==
  ASSUME IInv, NEW w \in Workers, step[w] = "sending"
  PROVE  row[w] \in Pending(w) /\ row[w] \in Holding(w) /\ row[w].mail \in Mails
BY RowType, NoRowAssumption DEF IInv, Pending, Holding

\* Steps that change neither what was accepted nor how an accepted Timekontrol
\* mail stands, and make no run fail.
LEMMA VisibleQuiet ==
  ASSUME Visible, accepted' = accepted,
         \A m \in TimeControl : accepted[m] # {} => StandsVisibly(m)',
         \A w \in Workers : step'[w] = "failing" =>
           step[w] = "failing" /\ row'[w] = row[w] /\ reply'[w] = reply[w]
  PROVE  Visible'
BY DEF Visible, FailsUnclear

\* Steps of a run that leave or fail its row.
LEMMA VisibleByRun ==
  ASSUME IInv, Visible, NEW w \in Workers, NEW s \in Replies, step[w] \notin {"idle", "loop"},
         RowDone(w) \/ RowThrows(w, s), accepted' = accepted,
         RowThrows(w, s) /\ row[w].mail \in TimeControl /\ accepted[row[w].mail] # {} => s \in {"lost", "conflict"},
         \A m \in TimeControl : accepted[m] # {} => StandsVisibly(m)'
  PROVE  Visible'
<1>1. \A v \in Workers : v # w => step'[v] = step[v] /\ row'[v] = row[v] /\ reply'[v] = reply[v]
  BY DEF IInv, TypeOK, RunsOK, RowDone, RowThrows
<1>2. CASE RowDone(w)
  <2>1. step'[w] = "loop"
    BY <1>2 DEF IInv, TypeOK, RunsOK, RowDone
  <2> QED
    BY <1>1, <2>1, VisibleQuiet
<1>3. CASE RowThrows(w, s)
  <2>1. step'[w] = "failing" /\ row'[w] = row[w] /\ reply'[w] = s
    BY <1>3 DEF IInv, TypeOK, RunsOK, RowThrows
  <2>2. FailsUnclear(w)'
    BY <1>3, <2>1 DEF FailsUnclear
  <2>3. \A v \in Workers : v # w => FailsUnclear(v)'
    BY <1>1 DEF Visible, FailsUnclear
  <2> QED
    BY <2>2, <2>3 DEF Visible
<1> QED
  BY <1>2, <1>3

LEMMA NextVisible == IInv /\ Visible /\ [Next]_vars => Visible'
<1> SUFFICES ASSUME IInv, Visible, [Next]_vars PROVE Visible'
  OBVIOUS
<1> USE MailsAssumption
<1>0. ASSUME UNCHANGED <<status, errorCode>>
      PROVE  \A m \in TimeControl : accepted[m] # {} => StandsVisibly(m)'
  BY <1>0 DEF Visible, StandsVisibly
<1>1. ASSUME NEW m \in Mails, NEW recipient \in BOOLEAN, NEW cc \in BOOLEAN, Enqueue(m, recipient, cc)
      PROVE  Visible'
  <2>1. \A n \in TimeControl : accepted[n] # {} => status'[n] = status[n] /\ errorCode'[n] = errorCode[n]
    <3>1. \A n \in TimeControl : accepted[n] # {} => status[n] # "absent"
      BY DEF Visible, StandsVisibly
    <3> QED
      BY <1>1, <3>1 DEF Enqueue, IInv, TypeOK, TableOK
  <2>2. \A n \in TimeControl : accepted[n] # {} => StandsVisibly(n)'
    BY <2>1 DEF Visible, StandsVisibly
  <2> QED
    BY <1>1, <2>2, VisibleQuiet DEF Enqueue, runs, history
<1>2. ASSUME NEW w \in Workers, ClaimDueBatch(w) \/ ClaimTimeControlBatch(w)
      PROVE  Visible'
  <2>1. PICK picked \in SUBSET Mails : TakeBatch(w, picked) /\ \A m \in picked : m \in TimeControl => FirstAttempt(m)
    BY <1>2 DEF ClaimDueBatch, ClaimTimeControlBatch, Claimable, TimeControlClaimable
  <2>2. \A n \in TimeControl : accepted[n] # {} => status'[n] = status[n] /\ errorCode'[n] = errorCode[n]
    <3>1. \A n \in TimeControl : accepted[n] # {} => n \notin picked
      BY <2>1 DEF Visible, StandsVisibly, FirstAttempt
    <3> QED
      BY <2>1, <3>1 DEF TakeBatch, IInv, TypeOK, TableOK
  <2>3. \A n \in TimeControl : accepted[n] # {} => StandsVisibly(n)'
    BY <2>2 DEF Visible, StandsVisibly
  <2>4. /\ accepted' = accepted /\ step'[w] = "loop" /\ row' = row /\ reply' = reply
        /\ \A v \in Workers : v # w => step'[v] = step[v]
    BY <2>1 DEF TakeBatch, history, IInv, TypeOK, RunsOK
  <2> QED
    BY <2>3, <2>4, VisibleQuiet
<1>3. ASSUME NEW w \in Workers, NextRow(w) \/ FinishBatch(w)
      PROVE  Visible'
  <2>1. /\ accepted' = accepted /\ UNCHANGED <<status, errorCode>> /\ reply' = reply
        /\ step'[w] \in {"sending", "idle"}
        /\ \A v \in Workers : v # w => step'[v] = step[v] /\ row'[v] = row[v]
    BY <1>3 DEF NextRow, FinishBatch, table, history, IInv, TypeOK, RunsOK
  <2> QED
    BY <1>0, <2>1, VisibleQuiet
<1>4. ASSUME NEW w \in Workers, Refuse(w) PROVE Visible'
  <2> DEFINE m == row[w].mail
  <2>1. m \in Mails /\ (m \in TimeControl => accepted[m] = {})
    BY <1>4, SendingPends, UncalledUnaccepted DEF Refuse
  <2>2. \A n \in Mails \ {m} : status'[n] = status[n] /\ errorCode'[n] = errorCode[n]
    BY <1>4, <2>1 DEF Refuse, MarkDeadLetter, table, IInv, TypeOK, TableOK
  <2>3. \A n \in TimeControl : accepted[n] # {} => StandsVisibly(n)'
    BY <2>1, <2>2 DEF Visible, StandsVisibly
  <2>4. accepted' = accepted /\ (RowDone(w) \/ RowThrows(w, "local")) /\ step[w] \notin {"idle", "loop"}
    BY <1>4 DEF Refuse, history
  <2>5. "local" \in Replies
    BY DEF Replies
  <2> QED
    BY <2>1, <2>3, <2>4, <2>5, VisibleByRun
<1>5. ASSUME NEW w \in Workers, NEW outcome \in ProviderOutcomes, CallProvider(w, outcome)
      PROVE  Visible'
  <2> DEFINE m == row[w].mail
  <2>1. /\ m \in Mails /\ row[w] \in Pending(w) /\ row[w] \in Holding(w)
        /\ m \in TimeControl => accepted[m] = {} /\ status[m] = "processing"
    BY <1>5, SendingPends, UncalledUnaccepted DEF CallProvider
  <2>2. /\ UNCHANGED <<status, errorCode>> /\ row' = row
        /\ \A v \in Workers : v # w => step'[v] = step[v] /\ reply'[v] = reply[v]
        /\ step'[w] = "failing" => outcome # "accepted" /\ reply'[w] = outcome
    BY <1>5 DEF CallProvider, RowThrows, table, IInv, TypeOK, RunsOK
  <2>3. /\ \A n \in Mails \ {m} : accepted'[n] = accepted[n]
        /\ outcome \in {"transient", "permanent"} => accepted'[m] = accepted[m]
    <3>1. accepted \in [Mails -> SUBSET (1..MaxAttempts)]
      BY DEF IInv, TypeOK, HistoryOK
    <3>2. \E taken \in BOOLEAN :
             /\ outcome \in {"transient", "permanent"} => ~taken
             /\ accepted' = [accepted EXCEPT ![m] = IF taken THEN @ \cup {row[w].attempt} ELSE @]
      BY <1>5 DEF CallProvider
    <3> QED
      BY <2>1, <3>1, <3>2
  <2>4. \A n \in TimeControl : accepted'[n] # {} => StandsVisibly(n)'
    BY <2>1, <2>2, <2>3 DEF Visible, StandsVisibly
  <2>5. FailsUnclear(w)'
    BY <2>1, <2>2, <2>3 DEF FailsUnclear, ProviderOutcomes
  <2>6. ASSUME NEW v \in Workers, v # w PROVE FailsUnclear(v)'
    <3>1. CASE step[v] = "failing" /\ row[v].mail = m /\ m \in TimeControl
      <4>1. row[v] \in Holding(v) /\ row[v] \in Row /\ row[v].attempt \in 1..MaxAttempts
        BY <3>1, RowType, NoRowAssumption DEF IInv, Holding
      <4>2. row[v].attempt = 1 /\ row[w].attempt = 1
        BY <2>1, <3>1, <4>1, HoldingType, AttemptsAssumption
           DEF IInv, TypeOK, TableOK, TicketsIssued, TimeControlOnce
      <4> QED
        BY <2>1, <2>6, <3>1, <4>1, <4>2 DEF IInv, TicketsDistinct
    <3>2. CASE step[v] = "failing" /\ row[v].mail # m
      <4>1. row[v].mail \in Mails
        BY <3>2, RowType DEF IInv
      <4> QED
        BY <2>2, <2>3, <2>6, <3>2, <4>1 DEF Visible, FailsUnclear
    <3>3. CASE ~(step[v] = "failing" /\ row[v].mail \in TimeControl)
      BY <2>2, <2>6, <3>3 DEF FailsUnclear
    <3> QED
      BY <3>1, <3>2, <3>3
  <2> QED
    BY <2>4, <2>5, <2>6 DEF Visible
<1>6. ASSUME NEW w \in Workers, Settle(w) PROVE Visible'
  <2> DEFINE m == row[w].mail
  <2>1. m \in Mails
    BY <1>6, RowType DEF Settle, IInv
  <2>2. /\ \A n \in Mails \ {m} : status'[n] = status[n] /\ errorCode'[n] = errorCode[n]
        /\ (status'[m] = status[m] /\ errorCode'[m] = errorCode[m]) \/ status'[m] = "sent"
    BY <1>6, <2>1 DEF Settle, MarkSent, table, IInv, TypeOK, TableOK
  <2>3. \A n \in TimeControl : accepted[n] # {} => StandsVisibly(n)'
    BY <2>1, <2>2 DEF Visible, StandsVisibly
  <2>4. accepted' = accepted /\ (RowDone(w) \/ RowThrows(w, "lost")) /\ step[w] \notin {"idle", "loop"}
    BY <1>6 DEF Settle
  <2>5. "lost" \in Replies
    BY DEF Replies, ProviderOutcomes
  <2> QED
    BY <2>1, <2>3, <2>4, <2>5, VisibleByRun
<1>7. ASSUME NEW w \in Workers, Fail(w) PROVE Visible'
  <2> DEFINE m == row[w].mail
  <2>1. m \in Mails
    BY <1>7, RowType DEF Fail, IInv
  <2>2. \A n \in Mails \ {m} : status'[n] = status[n] /\ errorCode'[n] = errorCode[n]
    BY <1>7, <2>1 DEF Fail, MarkRetry, MarkDeadLetter, table, IInv, TypeOK, TableOK
  <2>3. ASSUME NEW n \in TimeControl, n = m, accepted[n] # {} PROVE StandsVisibly(n)'
    <3>1. reply[w] \in {"lost", "conflict"} /\ StandsVisibly(n)
      BY <1>7, <2>3 DEF Fail, Visible, FailsUnclear
    <3>2. FailureCode(row[w], reply[w]) = "unclear"
      BY <2>3, <3>1 DEF FailureCode
    <3>3. MarkDeadLetter(n, "unclear")
      BY <1>7, <2>3, <3>2 DEF Fail, WorthRetry
    <3> QED
      BY <2>1, <3>1, <3>3 DEF StandsVisibly, MarkDeadLetter, table, IInv, TypeOK, TableOK
  <2>4. \A n \in TimeControl : accepted[n] # {} => StandsVisibly(n)'
    BY <2>2, <2>3 DEF Visible, StandsVisibly
  <2>5. accepted' = accepted /\ step'[w] = "loop" /\ \A v \in Workers : v # w => /\ step'[v] = step[v] /\ row'[v] = row[v] /\ reply'[v] = reply[v]
    BY <1>7 DEF Fail, history, RowDone, IInv, TypeOK, RunsOK
  <2> QED
    BY <2>4, <2>5, VisibleQuiet
<1>8. ASSUME NEW w \in Workers, Crash(w) PROVE Visible'
  <2>1. /\ accepted' = accepted /\ UNCHANGED <<status, errorCode>> /\ step'[w] = "idle"
        /\ \A v \in Workers : v # w => /\ step'[v] = step[v] /\ row'[v] = row[v] /\ reply'[v] = reply[v]
    BY <1>8 DEF Crash, table, IInv, TypeOK, RunsOK
  <2> QED
    BY <1>0, <2>1, VisibleQuiet
<1>9. ASSUME NEW m \in Mails, Time(m) PROVE Visible'
  <2>1. accepted' = accepted /\ UNCHANGED <<status, errorCode, step, row, reply>>
    BY <1>9 DEF Time, FallsDue, TimeoutPasses, runs, history
  <2> QED
    BY <1>0, <2>1, VisibleQuiet
<1>10. CASE UNCHANGED vars
  <2>1. accepted' = accepted /\ UNCHANGED <<status, errorCode, step, row, reply>>
    BY <1>10 DEF vars, table, runs, history
  <2> QED
    BY <1>0, <2>1, VisibleQuiet
<1> QED
  BY <1>1, <1>2, <1>3, <1>4, <1>5, <1>6, <1>7, <1>8, <1>9, <1>10 DEF Next, Run

\* A Timekontrol mail the provider took is shown as sent or is on the list of
\* unclear deliveries, whatever crashed, timed out or failed after the call.
THEOREM AcceptedStaysVisible == Spec => []AcceptedIsVisible
<1>1. Init => Visible
  BY MailsAssumption DEF Init, Visible, FailsUnclear
<1>2. IInv /\ Visible => AcceptedIsVisible
  <2> SUFFICES ASSUME IInv, Visible, NEW m \in TimeControl, accepted[m] # {}
               PROVE  status[m] = "sent" \/ UncertainListed(m)
    BY DEF AcceptedIsVisible
  <2>1. m \in Mails /\ accepted[m] \subseteq called[m] /\ called[m] \subseteq 1..MaxAttempts
        /\ attempts[m] \in Nat /\ \A a \in called[m] : a <= attempts[m]
    BY MailsAssumption DEF IInv, TypeOK, TableOK, HistoryOK, CallsIssued
  <2>2. PICK a \in 1..MaxAttempts : a <= attempts[m]
    BY <2>1
  <2>3. attempts[m] > 0
    BY <2>1, <2>2, AttemptsAssumption
  <2> QED
    BY <2>3 DEF Visible, StandsVisibly, UncertainListed
<1> QED
  BY <1>1, <1>2, NextVisible, Invariance, PTL DEF Spec
-----------------------------------------------------------------------------
(* Without a fault, one copy *)

\* Only one ticket of the mail is in anybody's hands, ...
SoleTicket(m) ==
  \A v, w \in Workers : \A r \in Holding(v), s \in Holding(w) :
    r.mail = m /\ s.mail = m => v = w /\ r = s

\* ... while it is, no claim can issue another one, ...
NotOnOffer(m) ==
  \A w \in Workers : \A r \in Holding(w) :
    r.mail = m => ~expired[m] /\ status[m] \in {"processing", "sent"}

\* ... and a ticket still to be used means that the mail was never accepted.
UntakenYet(m) == \A w \in Workers : \A r \in Pending(w) : r.mail = m => accepted[m] = {}

\* What was accepted is one copy, with the run that settles it or settled.
OneCopy(m) ==
  /\ \A a, b \in accepted[m] : a = b
  /\ accepted[m] # {} => \/ status[m] = "sent"
                         \/ \E w \in Workers : step[w] = "settling" /\ row[w].mail = m

\* A run fails with an accepted mail only after its settling has committed.
FailsSettled(m) ==
  \A w \in Workers : step[w] = "failing" /\ row[w].mail = m /\ accepted[m] # {} => status[m] = "sent"

Unfaulted(m) == SoleTicket(m) /\ NotOnOffer(m) /\ UntakenYet(m) /\ OneCopy(m) /\ FailsSettled(m)

NoFaultNoCopy == \A m \in Mails \ fault : Unfaulted(m)

\* A step that leaves a mail alone: it adds no ticket of it, changes neither its
\* row nor its copies, settles nothing of it and makes no run fail with it.
Bystander(m) ==
  /\ \A v \in Workers : \A r \in Holding(v)' : r.mail = m => r \in Holding(v)
  /\ \A v \in Workers : \A r \in Pending(v)' : r.mail = m => r \in Pending(v)
  /\ status'[m] = status[m] /\ (expired'[m] => expired[m]) /\ accepted'[m] = accepted[m]
  /\ \A v \in Workers : step[v] = "settling" /\ row[v].mail = m => step'[v] = "settling" /\ row'[v] = row[v]
  /\ \A v \in Workers : step'[v] = "failing" /\ row'[v].mail = m => step[v] = "failing" /\ row[v] = row'[v]

LEMMA BystanderKeeps ==
  ASSUME NEW m \in Mails, Unfaulted(m), Bystander(m)
  PROVE  Unfaulted(m)'
<1>1. SoleTicket(m)'
  BY DEF Unfaulted, Bystander, SoleTicket
<1>2. NotOnOffer(m)'
  BY DEF Unfaulted, Bystander, NotOnOffer
<1>3. UntakenYet(m)'
  BY DEF Unfaulted, Bystander, UntakenYet
<1>4. OneCopy(m)'
  BY DEF Unfaulted, Bystander, OneCopy
<1>5. FailsSettled(m)'
  BY DEF Unfaulted, Bystander, FailsSettled
<1> QED
  BY <1>1, <1>2, <1>3, <1>4, <1>5 DEF Unfaulted

\* A run that leaves or fails its row is a bystander of every other mail, ...
LEMMA OtherRow ==
  ASSUME IInv, NEW w \in Workers, NEW s, step[w] \notin {"idle", "loop"},
         RowDone(w) \/ RowThrows(w, s), accepted' = accepted, expired' = expired,
         Marks(row[w].mail), NEW m \in Mails, m # row[w].mail, Unfaulted(m)
  PROVE  Unfaulted(m)'
<1>1. Shrink
  BY RunShrinks
<1>2. status'[m] = status[m]
  BY MarkKeeps, RowType DEF IInv
<1>3. /\ \A v \in Workers : v # w => step'[v] = step[v] /\ row'[v] = row[v]
      /\ step'[w] = "failing" => row'[w] = row[w]
  BY DEF IInv, TypeOK, RunsOK, RowDone, RowThrows
<1>4. Bystander(m)
  BY <1>1, <1>2, <1>3 DEF Bystander, Shrink
<1> QED
  BY <1>4, BystanderKeeps

\* ... and its own mail, whose only ticket it held, is settled if it was taken.
LEMMA OwnRow ==
  ASSUME IInv, NEW w \in Workers, NEW s, step[w] \notin {"idle", "loop"},
         RowDone(w) \/ RowThrows(w, s), accepted' = accepted, expired' = expired,
         NEW m \in Mails, m = row[w].mail, Unfaulted(m),
         RowDone(w) \/ status'[m] \in {"processing", "sent"},
         accepted[m] # {} => status'[m] = "sent"
  PROVE  Unfaulted(m)'
<1>1. Shrink
  BY RunShrinks
<1>2. row[w] \in Holding(w) /\ row[w] \notin batch[w]
  BY RowType, NoRowAssumption DEF IInv, TicketsDistinct, Holding
<1>3. \A v \in Workers : \A r \in Holding(v) : r.mail = m => v = w /\ r = row[w]
  BY <1>2 DEF Unfaulted, SoleTicket
<1>4. /\ batch'[w] = batch[w]
      /\ RowDone(w) => row'[w] = NoRow /\ step'[w] = "loop"
      /\ RowThrows(w, s) => row'[w] = row[w] /\ step'[w] = "failing"
      /\ \A v \in Workers : v # w => step'[v] = step[v] /\ row'[v] = row[v]
  BY DEF IInv, TypeOK, RunsOK, RowDone, RowThrows
<1>5. \A v \in Workers : \A r \in Holding(v)' : r.mail = m => v = w /\ r = row[w] /\ RowThrows(w, s)
  <2> SUFFICES ASSUME NEW v \in Workers, NEW r \in Holding(v)', r.mail = m
               PROVE  v = w /\ r = row[w] /\ RowThrows(w, s)
    OBVIOUS
  <2>1. v = w /\ r = row[w]
    BY <1>1, <1>3 DEF Shrink
  <2>2. row[w] # NoRow
    BY RowType, NoRowAssumption DEF IInv
  <2> QED
    BY <2>1, <2>2, <1>2, <1>4 DEF Holding
<1>6. \A v \in Workers : \A r \in Pending(v)' : r.mail # m
  <2> SUFFICES ASSUME NEW v \in Workers, NEW r \in Pending(v)', r.mail = m PROVE FALSE
    OBVIOUS
  <2>1. r \in Pending(v) /\ r \in Holding(v)
    BY <1>1, PendingHeld DEF IInv, Shrink
  <2>2. v = w /\ r = row[w]
    BY <2>1, <1>3
  <2> QED
    BY <2>2, <1>2, <1>4 DEF Pending
<1>7. SoleTicket(m)'
  BY <1>5 DEF SoleTicket
<1>8. NotOnOffer(m)'
  <2> SUFFICES ASSUME NEW v \in Workers, NEW r \in Holding(v)', r.mail = m
               PROVE  ~expired[m] /\ status'[m] \in {"processing", "sent"}
    BY DEF NotOnOffer
  <2>1. RowThrows(w, s) /\ step'[w] = "failing"
    BY <1>4, <1>5
  <2>2. ~RowDone(w)
    BY <1>4, <2>1
  <2> QED
    BY <2>2, <1>2 DEF Unfaulted, NotOnOffer
<1>9. UntakenYet(m)'
  BY <1>6 DEF UntakenYet
<1>10. OneCopy(m)'
  BY DEF Unfaulted, OneCopy
<1>11. FailsSettled(m)'
  BY DEF FailsSettled
<1> QED
  BY <1>7, <1>8, <1>9, <1>10, <1>11 DEF Unfaulted

\* A claim issues one ticket of a mail that nobody holds and nobody has sent.
LEMMA ClaimUnfaulted ==
  ASSUME IInv, NEW w \in Workers, NEW picked \in SUBSET Mails, TakeBatch(w, picked),
         \A n \in picked : status[n] \in {"queued", "retry"} \/ (status[n] = "processing" /\ expired[n]),
         NEW m \in Mails, Unfaulted(m)
  PROVE  Unfaulted(m)'
<1> DEFINE Ticket(n) == [mail |-> n, attempt |-> attempts[n] + 1, addressed |-> addressed[n]]
           New == {Ticket(n) : n \in picked}
<1>1. /\ \A n \in Mails : status'[n] = IF n \in picked THEN "processing" ELSE status[n]
      /\ \A n \in Mails : expired'[n] = IF n \in picked THEN FALSE ELSE expired[n]
      /\ row' = row /\ accepted' = accepted
  BY DEF IInv, TypeOK, TableOK, TakeBatch, history
<1>2. /\ row[w] = NoRow /\ step[w] = "idle" /\ step'[w] = "loop"
      /\ batch' = [batch EXCEPT ![w] = New]
      /\ \A v \in Workers : v # w => step'[v] = step[v]
  BY DEF IInv, TypeOK, RunsOK, TakeBatch
<1>3. /\ Holding(w)' = New /\ Pending(w)' = New
      /\ \A v \in Workers : v # w => Holding(v)' = Holding(v) /\ Pending(v)' = Pending(v)
  BY <1>1, <1>2 DEF IInv, TypeOK, RunsOK, Holding, Pending
<1>4. \A q \in New : q.mail \in picked /\ q = Ticket(q.mail)
  OBVIOUS
<1> HIDE DEF Ticket, New
<1>5. CASE m \notin picked
  <2>1. /\ \A v \in Workers : \A r \in Holding(v)' : r.mail = m => r \in Holding(v)
        /\ \A v \in Workers : \A r \in Pending(v)' : r.mail = m => r \in Pending(v)
    BY <1>3, <1>4, <1>5
  <2>2. status'[m] = status[m] /\ expired'[m] = expired[m] /\ accepted'[m] = accepted[m]
    BY <1>1, <1>5
  <2>3. /\ \A v \in Workers : step[v] = "settling" => step'[v] = "settling" /\ row'[v] = row[v]
        /\ \A v \in Workers : step'[v] = "failing" => step[v] = "failing" /\ row[v] = row'[v]
    BY <1>1, <1>2
  <2> QED
    BY <2>1, <2>2, <2>3, BystanderKeeps DEF Bystander
<1>6. CASE m \in picked
  <2>1. \A v \in Workers : \A r \in Holding(v) : r.mail # m
    BY <1>6 DEF Unfaulted, NotOnOffer
  <2>2. \A v \in Workers : step[v] = "settling" => row[v].mail # m
    <3> SUFFICES ASSUME NEW v \in Workers, step[v] = "settling" PROVE row[v] \in Holding(v)
      BY <2>1
    <3> QED
      BY RowType, NoRowAssumption DEF IInv, Holding
  <2>3. accepted[m] = {}
    BY <1>6, <2>2 DEF Unfaulted, OneCopy
  <2>4. \A v \in Workers : \A r \in Holding(v)' : r.mail = m => v = w /\ r = Ticket(m)
    BY <1>3, <1>4, <2>1
  <2>5. SoleTicket(m)'
    BY <2>4 DEF SoleTicket
  <2>6. NotOnOffer(m)' /\ UntakenYet(m)' /\ OneCopy(m)' /\ FailsSettled(m)'
    BY <1>1, <1>6, <2>3 DEF NotOnOffer, UntakenYet, OneCopy, FailsSettled
  <2> QED
    BY <2>5, <2>6 DEF Unfaulted
<1> QED
  BY <1>5, <1>6

\* A call is made with the only ticket of a mail that was never accepted.
LEMMA CallUnfaulted ==
  ASSUME IInv, NEW w \in Workers, NEW outcome \in ProviderOutcomes, CallProvider(w, outcome),
         NEW m \in Mails, Unfaulted(m), m \notin fault'
  PROVE  Unfaulted(m)'
<1> DEFINE r == row[w]
<1>1. r \in Holding(w) /\ r \in Pending(w) /\ r \notin batch[w] /\ r.mail \in Mails
  BY SendingPends DEF CallProvider, IInv, TicketsDistinct
<1>2. /\ UNCHANGED table /\ batch' = batch /\ row' = row
      /\ \A v \in Workers : v # w => step'[v] = step[v]
      /\ step'[w] = IF outcome = "accepted" THEN "settling" ELSE "failing"
  BY DEF IInv, TypeOK, RunsOK, CallProvider, RowThrows
<1>3. /\ \A n \in Mails \ {r.mail} : accepted'[n] = accepted[n]
      /\ \/ accepted'[r.mail] = accepted[r.mail]
         \/ accepted'[r.mail] = accepted[r.mail] \cup {r.attempt} /\ (outcome = "accepted" \/ r.mail \in fault')
  <2>1. accepted \in [Mails -> SUBSET (1..MaxAttempts)]
    BY DEF IInv, TypeOK, HistoryOK
  <2>2. PICK taken \in BOOLEAN :
          /\ accepted' = [accepted EXCEPT ![r.mail] = IF taken THEN @ \cup {r.attempt} ELSE @]
          /\ fault' = IF taken /\ outcome # "accepted" THEN fault \cup {r.mail} ELSE fault
    BY DEF CallProvider
  <2>3. CASE taken
    BY <1>1, <2>1, <2>2, <2>3
  <2>4. CASE ~taken
    BY <1>1, <2>1, <2>2, <2>4
  <2> QED
    BY <2>3, <2>4
<1>4. \A v \in Workers : Holding(v)' = Holding(v) /\ Pending(v)' \subseteq Pending(v)
  BY <1>2 DEF Holding, Pending
<1>5. step[w] = "sending"
  BY DEF CallProvider
<1>6. CASE m # r.mail
  BY <1>2, <1>3, <1>4, <1>5, <1>6, BystanderKeeps DEF Bystander, table
<1>7. CASE m = r.mail
  <2>1. accepted[m] = {}
    BY <1>1, <1>7 DEF Unfaulted, UntakenYet
  <2>2. \A v \in Workers : \A q \in Holding(v) : q.mail = m => v = w /\ q = r
    BY <1>1, <1>7 DEF Unfaulted, SoleTicket
  <2>3. \A v \in Workers : \A q \in Pending(v)' : q.mail # m
    <3> SUFFICES ASSUME NEW v \in Workers, NEW q \in Pending(v)', q.mail = m PROVE FALSE
      OBVIOUS
    <3>1. v = w /\ q = r
      BY <1>4, <2>2, PendingHeld DEF IInv
    <3> QED
      BY <1>1, <1>2, <3>1 DEF Pending
  <2>4. SoleTicket(m)' /\ NotOnOffer(m)'
    BY <1>2, <1>4 DEF Unfaulted, SoleTicket, NotOnOffer, table
  <2>5. UntakenYet(m)'
    BY <2>3 DEF UntakenYet
  <2>6. OneCopy(m)'
    BY <1>2, <1>3, <1>7, <2>1 DEF OneCopy
  <2>7. FailsSettled(m)'
    <3> SUFFICES ASSUME NEW v \in Workers, step'[v] = "failing", row'[v].mail = m PROVE accepted'[m] = {}
      BY DEF FailsSettled
    <3>1. CASE v = w
      BY <1>2, <1>3, <1>7, <2>1, <3>1
    <3>2. CASE v # w
      <4>1. row[v] \in Holding(v) /\ row[v].mail = m
        BY <1>2, <3>2, RowType, NoRowAssumption DEF IInv, Holding
      <4> QED
        BY <2>2, <3>2, <4>1
    <3> QED
      BY <3>1, <3>2
  <2> QED
    BY <2>4, <2>5, <2>6, <2>7 DEF Unfaulted
<1> QED
  BY <1>6, <1>7

LEMMA NextNoFault == IInv /\ NoFaultNoCopy /\ [Next]_vars => NoFaultNoCopy'
<1> SUFFICES ASSUME IInv, NoFaultNoCopy, [Next]_vars, NEW m \in Mails, m \notin fault' PROVE Unfaulted(m)'
  BY DEF NoFaultNoCopy
<1>0. Unfaulted(m)
  <2>1. fault \subseteq fault'
    BY ZenonT(30) DEF Next, Enqueue, Run, Crash, Time, ClaimDueBatch, ClaimTimeControlBatch, TakeBatch, NextRow, FinishBatch,
           Refuse, CallProvider, Settle, Fail, FallsDue, TimeoutPasses, vars, history
  <2> QED
    BY <2>1 DEF NoFaultNoCopy
<1>1. ASSUME NEW n \in Mails, NEW recipient \in BOOLEAN, NEW cc \in BOOLEAN, Enqueue(n, recipient, cc)
      PROVE  Unfaulted(m)'
  <2>1. \A v \in Workers : Holding(v)' = Holding(v) /\ Pending(v)' = Pending(v)
    BY <1>1 DEF Enqueue, runs, Holding, Pending
  <2>2. CASE status'[m] = status[m]
    BY <1>0, <1>1, <2>1, <2>2, BystanderKeeps DEF Bystander, Enqueue, runs, history
  <2>3. CASE status'[m] # status[m]
    <3>1. status[m] = "absent" /\ UNCHANGED <<step, row, accepted, expired>>
      BY <1>1, <2>3 DEF Enqueue, IInv, TypeOK, TableOK, runs, history
    <3>2. \A v \in Workers : \A r \in Holding(v) : r.mail # m
      BY <3>1 DEF IInv, TicketsIssued
    <3>3. \A v \in Workers : step[v] = "settling" => row[v].mail # m
      <4> SUFFICES ASSUME NEW v \in Workers, step[v] = "settling" PROVE row[v] \in Holding(v)
        BY <3>2
      <4> QED
        BY RowType, NoRowAssumption DEF IInv, Holding
    <3>4. accepted[m] = {}
      BY <1>0, <3>1, <3>3 DEF Unfaulted, OneCopy
    <3> QED
      BY <2>1, <3>1, <3>2, <3>4 DEF Unfaulted, SoleTicket, NotOnOffer, UntakenYet, OneCopy, FailsSettled
  <2> QED
    BY <2>2, <2>3
<1>2. ASSUME NEW w \in Workers, ClaimDueBatch(w) \/ ClaimTimeControlBatch(w) PROVE Unfaulted(m)'
  <2>1. PICK picked \in SUBSET Mails :
          /\ TakeBatch(w, picked)
          /\ \A n \in picked : status[n] \in {"queued", "retry"} \/ (status[n] = "processing" /\ expired[n])
    BY <1>2, MailsAssumption DEF ClaimDueBatch, ClaimTimeControlBatch, Claimable, TimeControlClaimable, FirstAttempt
  <2> QED
    BY <1>0, <2>1, ClaimUnfaulted
<1>3. ASSUME NEW w \in Workers, NextRow(w) PROVE Unfaulted(m)'
  <2>1. PICK r \in batch[w] : row' = [row EXCEPT ![w] = r] /\ batch' = [batch EXCEPT ![w] = @ \ {r}]
    BY <1>3 DEF NextRow
  <2>2. /\ row'[w] = r /\ batch'[w] = batch[w] \ {r} /\ step[w] = "loop" /\ step'[w] = "sending"
        /\ \A v \in Workers : v # w => row'[v] = row[v] /\ batch'[v] = batch[v] /\ step'[v] = step[v]
        /\ UNCHANGED <<status, expired, accepted>>
    BY <1>3, <2>1 DEF NextRow, IInv, TypeOK, RunsOK, table, history
  <2>3. \A v \in Workers : Holding(v)' \subseteq Holding(v) /\ Pending(v)' \subseteq Pending(v)
    BY <2>1, <2>2 DEF Holding, Pending
  <2> QED
    BY <1>0, <2>2, <2>3, BystanderKeeps DEF Bystander
<1>4. ASSUME NEW w \in Workers, FinishBatch(w) PROVE Unfaulted(m)'
  <2>1. \A v \in Workers : Holding(v)' = Holding(v) /\ Pending(v)' \subseteq Pending(v)
    BY <1>4 DEF FinishBatch, IInv, TypeOK, RunsOK, Holding, Pending
  <2>2. /\ step[w] = "loop" /\ step'[w] = "idle" /\ UNCHANGED <<status, expired, accepted, row>>
        /\ \A v \in Workers : v # w => step'[v] = step[v]
    BY <1>4 DEF FinishBatch, IInv, TypeOK, RunsOK, table, history
  <2> QED
    BY <1>0, <2>1, <2>2, BystanderKeeps DEF Bystander
<1>5. ASSUME NEW w \in Workers, Refuse(w) PROVE Unfaulted(m)'
  <2>1. /\ row[w] \in Pending(w) /\ row[w].mail \in Mails
        /\ step[w] \notin {"idle", "loop"}
        /\ RowDone(w) \/ RowThrows(w, "local")
        /\ accepted' = accepted /\ expired' = expired
    BY <1>5, SendingPends DEF Refuse, MarkDeadLetter, table, history
  <2>2. Marks(row[w].mail)
    BY <1>5 DEF Refuse, Marks, Codes
  <2>3. CASE m = row[w].mail
    <3>1. accepted[m] = {}
      BY <1>0, <2>1, <2>3 DEF Unfaulted, UntakenYet
    <3>2. status[m] \in {"processing", "sent"}
      BY <1>0, <2>1, <2>3, PendingHeld DEF IInv, Unfaulted, NotOnOffer
    <3>3. RowDone(w) \/ status'[m] \in {"processing", "sent"}
      BY <1>5, <3>2 DEF Refuse, table
    <3> QED
      BY <1>0, <2>1, <2>3, <3>1, <3>3, OwnRow
  <2>4. CASE m # row[w].mail
    BY <1>0, <2>1, <2>2, <2>4, OtherRow
  <2> QED
    BY <2>3, <2>4
<1>6. ASSUME NEW w \in Workers, NEW outcome \in ProviderOutcomes, CallProvider(w, outcome) PROVE Unfaulted(m)'
  BY <1>0, <1>6, CallUnfaulted
<1>7. ASSUME NEW w \in Workers, Settle(w) PROVE Unfaulted(m)'
  <2>1. /\ row[w].mail \in Mails /\ row[w] \in Holding(w)
        /\ step[w] \notin {"idle", "loop"}
        /\ RowDone(w) \/ RowThrows(w, "lost")
        /\ accepted' = accepted /\ expired' = expired
    BY <1>7, RowType, NoRowAssumption DEF IInv, Settle, MarkSent, table, Holding
  <2>2. Marks(row[w].mail)
    BY <1>7 DEF Settle, Marks
  <2>3. CASE m = row[w].mail
    <3>1. MarkSent(m)
      BY <1>7, <2>3 DEF Settle
    <3>2. status[m] \in {"processing", "sent"}
      BY <1>0, <2>1, <2>3 DEF Unfaulted, NotOnOffer
    <3>3. status'[m] = "sent"
      BY <3>1, <3>2 DEF MarkSent, table, IInv, TypeOK, TableOK
    <3> QED
      BY <1>0, <2>1, <2>3, <3>3, OwnRow
  <2>4. CASE m # row[w].mail
    BY <1>0, <2>1, <2>2, <2>4, OtherRow
  <2> QED
    BY <2>3, <2>4
<1>8. ASSUME NEW w \in Workers, Fail(w) PROVE Unfaulted(m)'
  <2>1. /\ row[w].mail \in Mails /\ FailureCode(row[w], reply[w]) \in Codes
        /\ step[w] = "failing" /\ RowDone(w)
        /\ accepted' = accepted /\ expired' = expired
    BY <1>8, RowType DEF IInv, Fail, MarkRetry, MarkDeadLetter, table, history, FailureCode, Codes
  <2>2. Marks(row[w].mail)
    BY <1>8, <2>1 DEF Fail, Marks
  <2>3. CASE m = row[w].mail
    <3>1. ASSUME accepted[m] # {} PROVE status'[m] = "sent"
      <4>1. status[m] = "sent"
        BY <1>0, <2>1, <2>3, <3>1 DEF Unfaulted, FailsSettled
      <4> QED
        BY <1>8, <2>3, <4>1 DEF Fail, MarkRetry, MarkDeadLetter, table
    <3> QED
      BY <1>0, <2>1, <2>3, <3>1, OwnRow
  <2>4. CASE m # row[w].mail
    BY <1>0, <2>1, <2>2, <2>4, OtherRow
  <2> QED
    BY <2>3, <2>4
<1>9. ASSUME NEW w \in Workers, Crash(w) PROVE Unfaulted(m)'
  <2>1. \A v \in Workers : Holding(v)' \subseteq Holding(v) /\ Pending(v)' \subseteq Pending(v)
    BY <1>9 DEF Crash, IInv, TypeOK, RunsOK, Holding, Pending
  <2>2. /\ step'[w] = "idle" /\ UNCHANGED <<status, expired, accepted>>
        /\ \A v \in Workers : v # w => step'[v] = step[v] /\ row'[v] = row[v]
        /\ step[w] = "settling" => row[w].mail # m
    BY <1>9 DEF Crash, IInv, TypeOK, RunsOK, table
  <2> QED
    BY <1>0, <2>1, <2>2, BystanderKeeps DEF Bystander
<1>10. ASSUME NEW n \in Mails, Time(n) PROVE Unfaulted(m)'
  <2>1. \A v \in Workers : Holding(v)' = Holding(v) /\ Pending(v)' = Pending(v)
    BY <1>10 DEF Time, FallsDue, TimeoutPasses, runs, Holding, Pending
  <2>2. UNCHANGED <<status, accepted, step, row>>
    BY <1>10 DEF Time, FallsDue, TimeoutPasses, runs, history
  <2>3. CASE expired'[m] = expired[m]
    BY <1>0, <2>1, <2>2, <2>3, BystanderKeeps DEF Bystander
  <2>4. CASE expired'[m] # expired[m]
    <3>1. m = n /\ TimeoutPasses(m)
      BY <1>10, <2>4 DEF Time, FallsDue, TimeoutPasses, IInv, TypeOK, TableOK
    <3>2. ~IsHeld(m)
      BY <3>1 DEF TimeoutPasses
    <3>3. \A v \in Workers : \A r \in Holding(v) : r.mail # m
      BY <3>2 DEF IsHeld
    <3>4. SoleTicket(m)' /\ NotOnOffer(m)'
      BY <2>1, <3>3 DEF SoleTicket, NotOnOffer
    <3> QED
      BY <1>0, <2>1, <2>2, <3>4 DEF Unfaulted, UntakenYet, OneCopy, FailsSettled
  <2> QED
    BY <2>3, <2>4
<1>11. CASE UNCHANGED vars
  <2>1. \A v \in Workers : Holding(v)' = Holding(v) /\ Pending(v)' = Pending(v)
    BY <1>11 DEF vars, runs, Holding, Pending
  <2>2. UNCHANGED <<status, expired, accepted, step, row>>
    BY <1>11 DEF vars, table, runs, history
  <2> QED
    BY <1>0, <2>1, <2>2, BystanderKeeps DEF Bystander
<1> QED
  BY <1>1, <1>2, <1>3, <1>4, <1>5, <1>6, <1>7, <1>8, <1>9, <1>10, <1>11 DEF Next, Run

\* A recipient gets a second copy only after a lost answer, a failed settling
\* transaction, a crash after acceptance or a run slower than the timeout.
THEOREM NoCopyWithoutFault == Spec => []NoDuplicateWithoutFault
<1>1. Init => NoFaultNoCopy
  <2> SUFFICES ASSUME Init PROVE NoFaultNoCopy
    OBVIOUS
  <2>1. \A w \in Workers : Holding(w) = {} /\ Pending(w) = {}
    BY DEF Init, Holding, Pending
  <2> QED
    BY <2>1 DEF Init, NoFaultNoCopy, Unfaulted, SoleTicket, NotOnOffer, UntakenYet, OneCopy, FailsSettled
<1>2. NoFaultNoCopy /\ IInv => NoDuplicateWithoutFault
  <2> SUFFICES ASSUME NoFaultNoCopy, NEW m \in Mails, Cardinality(accepted[m]) > 1, m \notin fault PROVE FALSE
    BY DEF NoDuplicateWithoutFault
  <2>1. \A a, b \in accepted[m] : a = b
    BY DEF NoFaultNoCopy, Unfaulted, OneCopy
  <2>2. accepted[m] = {} \/ \E a \in accepted[m] : accepted[m] = {a}
    BY <2>1
  <2>3. Cardinality({}) = 0 /\ \A a \in accepted[m] : Cardinality({a}) = 1
    BY FS_EmptySet, FS_Singleton
  <2>4. CASE accepted[m] = {}
    BY <2>3, <2>4
  <2>5. ASSUME NEW a \in accepted[m], accepted[m] = {a} PROVE FALSE
    <3>1. Cardinality(accepted[m]) = 1
      BY <2>3, <2>5
    <3> QED
      BY <3>1
  <2> QED
    BY <2>2, <2>4, <2>5
<1> QED
  BY <1>1, <1>2, NextNoFault, Invariance, PTL DEF Spec
=============================================================================
