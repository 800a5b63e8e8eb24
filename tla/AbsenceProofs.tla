---------------------------- MODULE AbsenceProofs ----------------------------
(***************************************************************************)
(* Theorems about AbsenceRequest, for any number of requests and calls,    *)
(* any dates, window, quota and keys.                                      *)
(***************************************************************************)
EXTENDS AbsenceRequest, TLAPS, FiniteSetTheorems, WellFoundedInduction

-----------------------------------------------------------------------------
(* Order.                                                                  *)

\* In a finite set, strict inclusion has minimal elements.
LEMMA SmallestSubset ==
  ASSUME NEW S, IsFiniteSet(S), NEW T, T \subseteq SUBSET S, T # {}
  PROVE  \E X \in T : \A Y \in T : ~(Y \subseteq X /\ Y # X)
<1>1. IsWellFoundedOn(StrictSubsetOrdering(S), SUBSET S)
  BY FS_StrictSubsetOrderingWellFounded, FS_FiniteSubsetsOfFinite
<1>2. \E X \in T : \A Y \in T : ~(<<Y, X>> \in StrictSubsetOrdering(S))
  BY <1>1, WFMin
<1> QED BY <1>2 DEF StrictSubsetOrdering

\* In a finite set that is strictly ordered something comes first.
LEMMA SomethingFirst ==
  ASSUME NEW S, IsFiniteSet(S), S # {}, NEW R,
         \A x \in S : <<x, x>> \notin R,
         \A x, y, z \in S : <<x, y>> \in R /\ <<y, z>> \in R => <<x, z>> \in R
  PROVE  \E x \in S : \A y \in S : <<y, x>> \notin R
<1> DEFINE First(x) == {y \in S : <<y, x>> \in R}
           T == {First(x) : x \in S}
<1>2. \A x \in S : First(x) \in T
  OBVIOUS
<1>0. T # {}
  BY <1>2
<1>1. T \subseteq SUBSET S
  BY Zenon
<1>3. \A X \in T : \E x \in S : X = First(x)
  OBVIOUS
<1>m. \A k, y \in S : y \in First(k) <=> <<y, k>> \in R
  OBVIOUS
<1>s. \A k \in S : First(k) \subseteq S
  OBVIOUS
<1> HIDE DEF T, First
<1>p. \E X \in T : \A Y \in T : ~(Y \subseteq X /\ Y # X)
  BY <1>0, <1>1, SmallestSubset
<1>4. PICK X \in T : \A Y \in T : ~(Y \subseteq X /\ Y # X)
  BY <1>p
<1>5. PICK x \in S : X = First(x)
  BY <1>3, <1>4
<1>6. ASSUME NEW y \in S, <<y, x>> \in R PROVE FALSE
  <2>1. y \in X /\ y \notin First(y)
    BY <1>m, <1>5, <1>6
  <2>2. ASSUME NEW i \in First(y) PROVE i \in X
    <3>1. i \in S /\ <<i, y>> \in R
      BY <1>m, <1>s, <2>2
    <3>2. <<i, x>> \in R
      BY <3>1, <1>6
    <3> QED BY <3>1, <3>2, <1>m, <1>5
  <2> QED BY <1>2, <1>4, <2>1, <2>2
<1> QED BY <1>6

\* A finite set of numbers has a largest one.
LEMMA LargestNumber ==
  ASSUME NEW S, S \subseteq Nat, IsFiniteSet(S), S # {}
  PROVE  \E m \in S : \A n \in S : n <= m
<1> DEFINE R == {p \in S \X S : p[1] > p[2]}
<1>1. \A x, y \in S : <<x, y>> \in R <=> x > y
  OBVIOUS
<1> HIDE DEF R
<1>2. \A x \in S : <<x, x>> \notin R
  BY <1>1
<1>3. \A x, y, z \in S : <<x, y>> \in R /\ <<y, z>> \in R => <<x, z>> \in R
  BY <1>1
<1>4. \E x \in S : \A y \in S : <<y, x>> \notin R
  BY <1>2, <1>3, SomethingFirst, Zenon
<1>5. PICK x \in S : \A y \in S : <<y, x>> \notin R
  BY <1>4
<1>6. \A y \in S : ~(y > x)
  BY <1>1, <1>5
<1>7. \A y \in S : y <= x
  BY <1>6
<1> QED BY <1>7

\* The clock of submissions is a number.
LEMMA NowIsNumber ==
  ASSUME TypeOK
  PROVE  Now \in Nat
<1> DEFINE f == [r \in Requests |-> request[r].at]
           S == {request[r].at : r \in Requests}
<1>0. \A r \in Requests : request[r].at \in Nat
  BY DEF TypeOK, Rows
<1>s. S \subseteq Nat /\ S # {}
  BY <1>0, NumbersAssumption
<1>1. f \in Surjection(Requests, S)
  <2>1. f \in [Requests -> S] /\ \A t \in S : \E r \in Requests : f[r] = t
    OBVIOUS
  <2> QED BY <2>1 DEF Surjection
<1>2. IsFiniteSet(S)
  BY <1>1, FS_Surjection, NumbersAssumption
<1>3. \A r \in Requests : request[r].at \in S
  OBVIOUS
<1> DEFINE m == CHOOSE i \in S : \A r \in Requests : request[r].at <= i
<1>4. Now = 1 + m
  BY DEF Now
<1> HIDE DEF S
<1>5. \E i \in S : \A n \in S : n <= i
  BY <1>2, <1>s, LargestNumber
<1>6. \E i \in S : \A r \in Requests : request[r].at <= i
  BY <1>3, <1>5
<1>7. m \in S
  BY <1>6
<1> HIDE DEF m
<1> QED BY <1>s, <1>4, <1>7

\* The order of submission is total, ids deciding between equal instants.
LEMMA EarlierOrders ==
  ASSUME TypeOK
  PROVE  /\ \A q, r \in Requests : q # r => Earlier(q, r) \/ Earlier(r, q)
         /\ \A q, r, s \in Requests : Earlier(q, r) /\ Earlier(r, s) => Earlier(q, s)
         /\ \A q \in Requests : ~Earlier(q, q)
<1>1. \A r \in Requests : request[r].at \in Nat /\ r \in Nat
  BY NumbersAssumption DEF TypeOK, Rows
<1> QED BY <1>1 DEF Earlier

\* The next row to lock is one of those still to lock.
LEMMA NextRowIsThere ==
  ASSUME TypeOK, NEW todo \in SUBSET Requests, todo # {}
  PROVE  NextRow(todo) \in todo
<1> DEFINE R == {p \in todo \X todo : Earlier(p[1], p[2])}
<1>1. IsFiniteSet(todo)
  BY FS_Subset, NumbersAssumption
<1>2. \A x, y \in todo : <<x, y>> \in R <=> Earlier(x, y)
  OBVIOUS
<1> HIDE DEF R
<1>3. \A x \in todo : <<x, x>> \notin R
  BY <1>2, EarlierOrders
<1>4. \A x, y, z \in todo : <<x, y>> \in R /\ <<y, z>> \in R => <<x, z>> \in R
  BY <1>2, EarlierOrders
<1>5. \E x \in todo : \A y \in todo : <<y, x>> \notin R
  BY <1>1, <1>3, <1>4, SomethingFirst, Zenon
<1>6. PICK r \in todo : \A q \in todo : <<q, r>> \notin R
  BY <1>5
<1>7. \A q \in todo \ {r} : Earlier(r, q)
  BY <1>2, <1>6, EarlierOrders
<1> QED BY <1>7 DEF NextRow
-----------------------------------------------------------------------------
(* The invariant.                                                          *)

\* A call has only steps its kind has, and what it carries fits its kind.
Shaped(c) ==
  /\ call[c].step # "rows" => call[c].todo = {}
  /\ call[c].step = "insert" => call[c].kind \in {"create", "split"}
  /\ call[c].step = "quota" => call[c].kind \in {"split", "submit"} \cup Ending
  /\ call[c].step = "rows" => call[c].kind \in Ending
  /\ call[c].step # "idle" /\ call[c].kind \in {"create", "split"} =>
       call[c].key \in Keys /\ call[c].req = None
  /\ call[c].step # "idle" /\ call[c].kind = "edit" => call[c].asks # <<>>
  /\ call[c].asks \in Seq((SUBSET Days) \ {{}})

\* A request has dates; only one that was submitted waits for the collective
\* review, and then with dates inside the window only.
RowShaped(r) ==
  /\ request[r].status = "none" => request[r].key = None
  /\ request[r].status # "none" => request[r].days # {}
  /\ request[r].status \in {"none", "draft"} => ~request[r].special
  /\ request[r].special => request[r].days \subseteq Window

\* Types and shapes.
Base ==
  /\ TypeOK
  /\ \A c \in Callers : Shaped(c)
  /\ \A r \in Requests : RowShaped(r)

\* A call that went on to the quota keeps its row as it checked it.
KeepsItsRow(c) ==
  call[c].step \in {"quota", "rows"} /\ call[c].kind \in RowKinds =>
    /\ rowHolder[call[c].req] = c
    /\ request[call[c].req].status \in AllowedFrom[call[c].kind]
    /\ request[call[c].req].version = call[c].saw.version

\* A call that creates keeps the lock of its key, under which there is nothing.
KeepsItsKey(c) ==
  call[c].step \in {"insert", "quota"} /\ call[c].kind \in {"create", "split"} =>
    keyHolder[call[c].key] = c /\ CreatedUnder(call[c].key) = {}

\* A call that reclassifies keeps the quota, and there is no waiting request but
\* its own that it has not locked or is not about to lock.
KeepsTheQuota(c) ==
  call[c].step = "rows" =>
    /\ quotaHolder = c
    /\ \A r \in call[c].todo : rowHolder[r] # c /\ request[r].status \notin {"none", "draft"}
    /\ \A r \in Requests :
         Waiting(r) => r = call[c].req \/ r \in call[c].todo \/ rowHolder[r] = c

\* Locks are held only by calls that still need them.
HoldsNoMore(c) ==
  /\ \A r \in Requests : rowHolder[r] = c =>
       /\ call[c].step \in {"quota", "rows"} /\ call[c].kind \in RowKinds
       /\ call[c].step = "quota" => r = call[c].req
       /\ request[r].status # "none"
  /\ \A k \in Keys : keyHolder[k] = c =>
       call[c].step \in {"insert", "quota"} /\ call[c].kind \in {"create", "split"}
  /\ quotaHolder = c => call[c].step = "rows"

\* What a call has checked stays as it was, for it holds the locks.
Locked(c) == KeepsItsRow(c) /\ KeepsItsKey(c) /\ KeepsTheQuota(c) /\ HoldsNoMore(c)

\* What a call's page showed is older than the row or is what the row says.
Knows(c) ==
  call[c].step # "idle" /\ call[c].kind \in RowKinds =>
    /\ call[c].saw.version <= request[call[c].req].version
    /\ call[c].saw.version = request[call[c].req].version =>
         /\ call[c].saw.days = request[call[c].req].days
         /\ call[c].saw.special = request[call[c].req].special

\* The inductive invariant.
Inv ==
  /\ Base
  /\ \A c \in Callers : Locked(c) /\ Knows(c)
  /\ AnswerStands /\ CalendarMatches /\ KeyCreatesOnce
-----------------------------------------------------------------------------
(* What a step does to one row.                                            *)

\* A row is left as it is ...
Kept(r) == request'[r] = request[r] /\ absence'[r] = absence[r]

\* ... or a creation or the remainder of a promotion takes it ...
Created(c, r) ==
  /\ request[r].status = "none"
  /\ request'[r] \in Rows /\ absence'[r] = absence[r]
  /\ request'[r].status \in {"draft", "submitted"} /\ request'[r].days # {}
  /\ request'[r].special =>
       /\ request'[r].status = "submitted" /\ request'[r].days \subseteq Window
       /\ quotaHolder \in {None, c}
  /\ request'[r].key # None =>
       /\ call[c].step \in {"insert", "quota"} /\ call[c].kind \in {"create", "split"}
       /\ request'[r].key = call[c].key

\* ... or a promotion leaves it with the dates it promotes ...
Shortened(c, r) ==
  /\ call[c].step = "rows" /\ r # call[c].req /\ rowHolder[r] = c /\ Waiting(r)
  /\ absence'[r] = absence[r]
  /\ \E days \in SUBSET request[r].days :
       /\ days # {}
       /\ request'[r] = [request[r] EXCEPT !.days = days, !.special = FALSE, !.version = @ + 1]

\* ... or the call that is about it moves it on.
Moved(c, r) ==
  /\ r = call[c].req /\ call[c].kind \in RowKinds
  /\ rowHolder[r] \in {None, c}
  /\ request[r].status \in AllowedFrom[call[c].kind]
  /\ request[r].version = call[c].saw.version
  /\ request'[r] \in Rows /\ request'[r].version = request[r].version + 1
  /\ request'[r].key = request[r].key /\ request'[r].segment = request[r].segment
  /\ request'[r].status = IF call[c].kind = "edit" THEN "draft" ELSE Target[call[c].kind]
  /\ request'[r].days # {}
  /\ call[c].kind # "edit" => request'[r].days = request[r].days
  /\ call[c].kind # "submit" => request'[r].special = request[r].special
  /\ call[c].kind = "submit" /\ request'[r].special =>
       request[r].days \subseteq Window /\ quotaHolder = None
  /\ absence'[r] = IF call[c].kind = "approve" THEN request[r].days ELSE absence[r]

\* There is nothing else a step does to a row.
RowStep(c, r) == Kept(r) \/ Created(c, r) \/ Shortened(c, r) \/ Moved(c, r)

\* The fields of a row and of a call have their types.
LEMMA RowTypes ==
  ASSUME TypeOK, NEW r \in Requests
  PROVE  /\ request[r] \in Rows /\ absence[r] \subseteq Days
         /\ request[r].status \in Statuses /\ request[r].days \subseteq Days
         /\ request[r].special \in BOOLEAN /\ request[r].version \in Nat
         /\ request[r].at \in Nat /\ request[r].key \in Keys \cup {None}
         /\ request[r].segment \in Nat /\ rowHolder[r] \in Callers \cup {None}
<1>1. request[r] \in Rows /\ absence[r] \subseteq Days /\ rowHolder[r] \in Callers \cup {None}
  BY DEF TypeOK
<1> QED BY <1>1 DEF Rows

\* The fields of a call have their types.
LEMMA CallTypes ==
  ASSUME TypeOK, NEW c \in Callers
  PROVE  /\ call[c] \in Calls
         /\ call[c].step \in {"idle", "sent", "insert", "quota", "rows"}
         /\ call[c].kind \in RowKinds \cup {"create", "split"}
         /\ call[c].req \in Requests \cup {None} /\ call[c].key \in Keys \cup {None}
         /\ call[c].saw \in [version : Nat, days : SUBSET Days, special : BOOLEAN]
         /\ call[c].saw.version \in Nat /\ call[c].at \in Nat
         /\ call[c].asks \in Seq(SUBSET Days) /\ call[c].todo \subseteq Requests
         /\ call[c].window \in [active : BOOLEAN, quota : Nat]
<1>1. call[c] \in Calls
  BY DEF TypeOK
<1> QED BY <1>1 DEF Calls

\* A call under way about a request names one that exists.
LEMMA NamesARow ==
  ASSUME TypeOK, NEW c \in Callers, call[c].step # "idle", call[c].kind \in RowKinds
  PROVE  call[c].req \in Requests /\ request[call[c].req].status # "none"
<1>1. call[c].req # None /\ request[call[c].req].status # "none"
  BY DEF TypeOK
<1> QED BY <1>1, CallTypes

\* The tables of the kinds, entry by entry.
LEMMA KindTables ==
  /\ Target["submit"] = "submitted" /\ Target["cancel"] = "cancelled"
  /\ Target["approve"] = "approved" /\ Target["reject"] = "rejected"
  /\ AllowedFrom["edit"] = {"draft"} /\ AllowedFrom["submit"] = {"draft"}
  /\ AllowedFrom["cancel"] = {"draft", "submitted"}
  /\ AllowedFrom["approve"] = {"submitted"} /\ AllowedFrom["reject"] = {"submitted"}
<1> QED BY DEF Target, AllowedFrom

\* The steps that change one row.
LEMMA EditMoves ==
  ASSUME Base, NEW c \in Callers, UpdateDraft(c)
  PROVE  \A r \in Requests : RowStep(c, r)
<1> DEFINE q == call[c].req
<1>1. q \in Requests /\ rowHolder[q] = None /\ call[c].kind = "edit" /\ call[c].kind \in RowKinds
  BY NamesARow DEF Base, UpdateDraft, MayGo, Locks
<1>2. request[q].status = "draft" /\ request[q].version = call[c].saw.version
  BY <1>1, KindTables DEF UpdateDraft, MayGo, Allowed
<1>3. call[c].asks[1] \in (SUBSET Days) \ {{}}
  <2>1. call[c].asks \in Seq((SUBSET Days) \ {{}}) /\ call[c].asks # <<>>
    BY <1>1 DEF Base, Shaped, UpdateDraft, MayGo, Locks
  <2> QED BY <2>1
<1>4. /\ request' = [request EXCEPT ![q] =
            [request[q] EXCEPT !.days = call[c].asks[1], !.version = request[q].version + 1]]
      /\ absence' = absence
  BY <1>1, RowTypes DEF UpdateDraft, Base, TypeOK, Rows
<1>5. request[q] \in Rows /\ request \in [Requests -> Rows]
  BY <1>1, RowTypes DEF Base, TypeOK
<1>6. ASSUME NEW r \in Requests, r # q PROVE Kept(r)
  BY <1>4, <1>5, <1>6 DEF Kept
<1>7. request'[q] = [request[q] EXCEPT !.days = call[c].asks[1], !.version = request[q].version + 1]
  BY <1>1, <1>4, <1>5
<1>d. PICK d \in SUBSET Days : d = call[c].asks[1] /\ d # {}
  BY <1>3
<1>v. PICK v \in Nat : v = request[q].version + 1
  BY <1>1, RowTypes DEF Base
<1>e. request'[q] = [request[q] EXCEPT !.days = d, !.version = v]
  BY <1>d, <1>v, <1>7
<1>8. /\ request'[q] \in Rows /\ request'[q].version = request[q].version + 1
      /\ request'[q].key = request[q].key /\ request'[q].segment = request[q].segment
      /\ request'[q].status = request[q].status /\ request'[q].days # {}
      /\ request'[q].special = request[q].special
  BY <1>d, <1>e, <1>v, <1>5 DEF Rows
<1>9. Moved(c, q)
  BY <1>1, <1>2, <1>4, <1>8, KindTables DEF Moved
<1> QED BY <1>6, <1>9 DEF RowStep

\* A step that changes the row of its request keeps the others.
LEMMA OthersKept ==
  ASSUME TypeOK, NEW q \in Requests, NEW row, NEW dates,
         request' = [request EXCEPT ![q] = row], absence' = [absence EXCEPT ![q] = dates]
  PROVE  /\ request'[q] = row /\ absence'[q] = dates
         /\ \A r \in Requests : r # q => Kept(r)
<1>1. request \in [Requests -> Rows] /\ absence \in [Requests -> SUBSET Days]
  BY DEF TypeOK
<1> QED BY <1>1 DEF Kept

\* A step on one row is such a step on every row.
LEMMA OneRowMoves ==
  ASSUME NEW c \in Callers, NEW q \in Requests, \A r \in Requests : r # q => Kept(r), Moved(c, q)
  PROVE  \A r \in Requests : RowStep(c, r)
<1> QED BY DEF RowStep

\* A decision: a new status under the next version.
WithStatus(row, status) == [row EXCEPT !.status = status, !.version = @ + 1]

\* A submitted row keeps its dates and its key.
LEMMA SubmittedRow ==
  ASSUME NEW row \in Rows, NEW special \in BOOLEAN, NEW at \in Nat
  PROVE  /\ Submitted(row, special, at) \in Rows
         /\ Submitted(row, special, at).status = "submitted"
         /\ Submitted(row, special, at).special = special
         /\ Submitted(row, special, at).days = row.days
         /\ Submitted(row, special, at).version = row.version + 1
         /\ Submitted(row, special, at).key = row.key
         /\ Submitted(row, special, at).segment = row.segment
<1>1. PICK v \in Nat : v = row.version + 1
  BY DEF Rows
<1>2. Submitted(row, special, at) =
        [row EXCEPT !.status = "submitted", !.special = special, !.at = at, !.version = v]
  BY <1>1 DEF Submitted
<1> QED BY <1>1, <1>2 DEF Rows, Statuses

\* So does a decided one.
LEMMA RowWithStatus ==
  ASSUME NEW row \in Rows, NEW status \in Statuses
  PROVE  /\ WithStatus(row, status) \in Rows /\ WithStatus(row, status).status = status
         /\ WithStatus(row, status).version = row.version + 1
         /\ WithStatus(row, status).days = row.days
         /\ WithStatus(row, status).special = row.special
         /\ WithStatus(row, status).key = row.key
         /\ WithStatus(row, status).segment = row.segment
<1>1. PICK v \in Nat : v = row.version + 1
  BY DEF Rows
<1>2. WithStatus(row, status) = [row EXCEPT !.status = status, !.version = v]
  BY <1>1 DEF WithStatus
<1> QED BY <1>1, <1>2 DEF Rows

\* An approval writes the dates into the calendar with the status.
LEMMA ApproveMoves ==
  ASSUME Base, NEW c \in Callers, Approve(c)
  PROVE  \A r \in Requests : RowStep(c, r)
<1> DEFINE q == call[c].req
           row == WithStatus(request[q], "approved")
<1>1. q \in Requests /\ rowHolder[q] = None /\ call[c].kind = "approve" /\ call[c].kind \in RowKinds
  BY NamesARow DEF Base, Approve, MayGo, Locks
<1>2. request[q].status = "submitted" /\ request[q].version = call[c].saw.version
  BY <1>1, KindTables DEF Approve, MayGo, Allowed
<1>3. request[q] \in Rows /\ request[q].days # {}
  BY <1>1, <1>2, RowTypes DEF Base, RowShaped
<1>4. request' = [request EXCEPT ![q] = row]
  BY <1>1, <1>3, RowTypes DEF Approve, Base, TypeOK, WithStatus
<1>5. absence' = [absence EXCEPT ![q] = request[q].days]
  BY DEF Approve
<1>6. /\ row \in Rows /\ row.status = "approved" /\ row.version = request[q].version + 1
      /\ row.days = request[q].days /\ row.special = request[q].special
      /\ row.key = request[q].key /\ row.segment = request[q].segment
  <2>1. "approved" \in Statuses
    BY DEF Statuses, Terminal
  <2> QED BY <1>3, <2>1, RowWithStatus
<1> HIDE DEF row
<1>7. /\ request'[q] = row /\ absence'[q] = request[q].days
      /\ \A r \in Requests : r # q => Kept(r)
  BY <1>1, <1>4, <1>5, OthersKept DEF Base
<1>8. Moved(c, q)
  BY <1>1, <1>2, <1>3, <1>6, <1>7, KindTables DEF Moved
<1> QED BY <1>1, <1>7, <1>8, OneRowMoves

\* The row of a call that has the quota, or needs no quota, is submitted.
LEMMA SubmitMoves ==
  ASSUME Base, NEW c \in Callers, NEW q \in Requests, q = call[c].req, call[c].kind = "submit",
         rowHolder[q] \in {None, c}, request[q].status = "draft",
         request[q].version = call[c].saw.version,
         NEW special \in BOOLEAN, special => request[q].days \subseteq Window /\ quotaHolder = None,
         NEW at \in Nat, request' = [request EXCEPT ![q] = Submitted(@, special, at)],
         absence' = absence
  PROVE  \A r \in Requests : RowStep(c, r)
<1> DEFINE row == Submitted(request[q], special, at)
<1>1. request[q] \in Rows /\ request[q].days # {}
  BY RowTypes DEF Base, RowShaped
<1>2. request' = [request EXCEPT ![q] = row] /\ absence' = [absence EXCEPT ![q] = absence[q]]
  BY DEF Base, TypeOK
<1>3. /\ row \in Rows /\ row.status = "submitted" /\ row.version = request[q].version + 1
      /\ row.days = request[q].days /\ row.special = special
      /\ row.key = request[q].key /\ row.segment = request[q].segment
  BY <1>1, SubmittedRow, SMTT(30)
<1> HIDE DEF row
<1>4. /\ request'[q] = row /\ absence'[q] = absence[q]
      /\ \A r \in Requests : r # q => Kept(r)
  <2>1. request \in [Requests -> Rows] /\ absence \in [Requests -> SUBSET Days]
    BY DEF Base, TypeOK
  <2> QED BY <1>2, <2>1 DEF Kept
<1>5. Moved(c, q)
  BY <1>1, <1>3, <1>4, KindTables DEF Moved, RowKinds
<1> QED BY <1>4, <1>5, OneRowMoves

\* A submission away from the window.
LEMMA SubmitPlainlyMoves ==
  ASSUME Base, NEW c \in Callers, SubmitPlainly(c)
  PROVE  \A r \in Requests : RowStep(c, r)
<1>1. call[c].req \in Requests /\ rowHolder[call[c].req] = None /\ call[c].kind = "submit"
  BY NamesARow DEF Base, SubmitPlainly, MayGo, Locks
<1>2. request[call[c].req].status = "draft" /\ request[call[c].req].version = call[c].saw.version
  BY <1>1, KindTables DEF SubmitPlainly, MayGo, Allowed
<1>3. Now \in Nat
  BY NowIsNumber DEF Base
<1> HIDE DEF Now
<1> QED BY <1>1, <1>2, <1>3, SubmitMoves DEF SubmitPlainly

\* Collective requests lie in the window.
LEMMA VerdictsKnown ==
  ASSUME NEW days, NEW quota, NEW used
  PROVE  /\ Verdict(days, quota, used) \in {"exempt", "collective", "split"}
         /\ Verdict(days, quota, used) = "collective" => days \subseteq Window
<1> QED BY DEF Verdict

\* A submission with the quota locked.
LEMMA SubmitDraftMoves ==
  ASSUME Base, NEW c \in Callers, Locked(c), SubmitDraft(c)
  PROVE  \A r \in Requests : RowStep(c, r)
<1>1. call[c].kind = "submit" /\ call[c].kind \in RowKinds /\ call[c].step = "quota" /\ quotaHolder = None
  BY DEF SubmitDraft, RowKinds
<1>2. call[c].req \in Requests /\ rowHolder[call[c].req] = c
  BY <1>1, NamesARow DEF Base, Locked, KeepsItsRow
<1>3. request[call[c].req].status = "draft" /\ request[call[c].req].version = call[c].saw.version
  BY <1>1, KindTables DEF Locked, KeepsItsRow
<1>4. (VerdictOn(c) = "collective") \in BOOLEAN
  OBVIOUS
<1>5. (VerdictOn(c) = "collective") => request[call[c].req].days \subseteq Window /\ quotaHolder = None
  BY <1>1, VerdictsKnown DEF VerdictOn
<1>6. call[c].at \in Nat
  BY CallTypes DEF Base
<1> QED BY <1>1, <1>2, <1>3, <1>4, <1>5, <1>6, SubmitMoves DEF SubmitDraft

\* The row of a call that cancels or rejects ends.
LEMMA EndedRow ==
  ASSUME Base, NEW c \in Callers, call[c].kind \in Ending, call[c].req \in Requests
  PROVE  /\ Ended(c) \in Rows /\ Ended(c).status = Target[call[c].kind]
         /\ Ended(c).version = request[call[c].req].version + 1
         /\ Ended(c).days = request[call[c].req].days
         /\ Ended(c).special = request[call[c].req].special
         /\ Ended(c).key = request[call[c].req].key
         /\ Ended(c).segment = request[call[c].req].segment
<1>1. request[call[c].req] \in Rows /\ Target[call[c].kind] \in Statuses
  BY RowTypes, KindTables DEF Base, Ending, Statuses, Terminal
<1>2. Ended(c) = WithStatus(request[call[c].req], Target[call[c].kind])
  BY DEF Ended, WithStatus
<1> QED BY <1>1, <1>2, RowWithStatus

\* Its dates and its treatment stay.
LEMMA EndMoves ==
  ASSUME Base, NEW c \in Callers, NEW q \in Requests, q = call[c].req, call[c].kind \in Ending,
         rowHolder[q] \in {None, c}, request[q].status \in AllowedFrom[call[c].kind],
         request[q].version = call[c].saw.version,
         request'[q] = Ended(c), absence'[q] = absence[q]
  PROVE  Moved(c, q)
<1>1. request[q].days # {}
  BY KindTables DEF Ending, Base, RowShaped
<1>2. /\ Ended(c) \in Rows /\ Ended(c).status = Target[call[c].kind]
      /\ Ended(c).version = request[q].version + 1
      /\ Ended(c).days = request[q].days /\ Ended(c).special = request[q].special
      /\ Ended(c).key = request[q].key /\ Ended(c).segment = request[q].segment
  BY EndedRow
<1> QED BY <1>1, <1>2 DEF Moved, RowKinds, Ending

\* A cancellation or rejection that frees no quota.
LEMMA EndRowStep ==
  ASSUME Base, NEW c \in Callers, End(c)
  PROVE  \A r \in Requests : RowStep(c, r)
<1> DEFINE q == call[c].req
<1>1. q \in Requests /\ rowHolder[q] = None /\ call[c].kind \in Ending
  BY NamesARow DEF Base, End, MayGo, Locks
<1>2. request[q].status \in AllowedFrom[call[c].kind] /\ request[q].version = call[c].saw.version
  BY <1>1 DEF End, MayGo, Allowed
<1>3. request' = [request EXCEPT ![q] = Ended(c)] /\ absence' = [absence EXCEPT ![q] = absence[q]]
  BY DEF End, Base, TypeOK
<1>4. /\ request'[q] = Ended(c) /\ absence'[q] = absence[q]
      /\ \A r \in Requests : r # q => Kept(r)
  BY <1>1, <1>3, OthersKept DEF Base
<1>5. Moved(c, q)
  BY <1>1, <1>2, <1>4, EndMoves
<1> QED BY <1>1, <1>4, <1>5, OneRowMoves

\* The rows a creation inserts, one per segment under its own number.
Segment(c, special, i) ==
  LET new == [NoRequest EXCEPT !.status = "draft", !.days = call[c].asks[i], !.version = 1,
                             !.key = call[c].key, !.segment = i]
  IN IF call[c].kind = "create" THEN new ELSE Submitted(new, special[i], call[c].at)

\* Such a row carries its segment's dates, number and key.
LEMMA SegmentRow ==
  ASSUME Base, NEW c \in Callers, call[c].kind \in {"create", "split"}, call[c].step # "idle",
         NEW special \in [DOMAIN call[c].asks -> BOOLEAN], NEW i \in DOMAIN call[c].asks
  PROVE  /\ Segment(c, special, i) \in Rows
         /\ Segment(c, special, i).status \in {"draft", "submitted"}
         /\ Segment(c, special, i).days = call[c].asks[i] /\ call[c].asks[i] # {}
         /\ Segment(c, special, i).special =>
              special[i] /\ Segment(c, special, i).status = "submitted"
         /\ Segment(c, special, i).key = call[c].key
         /\ Segment(c, special, i).segment = i
<1> DEFINE new == [NoRequest EXCEPT !.status = "draft", !.days = call[c].asks[i], !.version = 1,
                             !.key = call[c].key, !.segment = i]
<1>1. call[c].asks \in Seq((SUBSET Days) \ {{}}) /\ call[c].key \in Keys
  BY DEF Base, Shaped
<1>2. call[c].asks[i] \in (SUBSET Days) \ {{}} /\ i \in Nat
  BY <1>1
<1>3. PICK d \in SUBSET Days : d = call[c].asks[i] /\ d # {}
  BY <1>2
<1>n. PICK n \in Nat : n = i
  BY <1>2
<1>k. PICK k \in Keys : k = call[c].key
  BY <1>1
<1>4. new = [NoRequest EXCEPT !.status = "draft", !.days = d, !.version = 1, !.key = k, !.segment = n]
  BY <1>3, <1>k, <1>n
<1> HIDE DEF new
<1>5. new \in Rows /\ new.status = "draft" /\ new.days = d /\ new.special = FALSE
      /\ new.key = k /\ new.segment = n
  BY <1>4 DEF Rows, Statuses, NoRequest
<1> USE DEF new
<1>6. Segment(c, special, i) =
        IF call[c].kind = "create" THEN new ELSE Submitted(new, special[i], call[c].at)
  BY DEF Segment
<1> HIDE DEF new
<1>7. call[c].at \in Nat /\ special[i] \in BOOLEAN
  BY CallTypes DEF Base
<1>8. CASE call[c].kind = "create"
  BY <1>3, <1>5, <1>6, <1>8, <1>k, <1>n
<1>9. CASE call[c].kind = "split"
  <2>1. Segment(c, special, i) = Submitted(new, special[i], call[c].at)
    BY <1>6, <1>9
  <2> QED BY <1>3, <1>5, <1>7, <1>k, <1>n, <2>1, SubmittedRow
<1> QED BY <1>8, <1>9

\* An insertion takes only free rows.
LEMMA SegmentsInserted ==
  ASSUME Base, NEW c \in Callers, call[c].kind \in {"create", "split"}, call[c].step # "idle",
         NEW special \in [DOMAIN call[c].asks -> BOOLEAN], InsertSegments(c, special)
  PROVE  \A r \in Requests :
           /\ absence'[r] = absence[r]
           /\ \/ request'[r] = request[r]
              \/ /\ request[r].status = "none"
                 /\ \E i \in DOMAIN call[c].asks : request'[r] = Segment(c, special, i)
<1>1. PICK id \in Injection(DOMAIN call[c].asks, FreeRows) :
        request' = [r \in Requests |->
          IF r \in Range(id) THEN Segment(c, special, CHOOSE i \in DOMAIN call[c].asks : id[i] = r)
          ELSE request[r]]
  BY DEF InsertSegments, Segment
<1>2. id \in [DOMAIN call[c].asks -> FreeRows]
  BY <1>1 DEF Injection
<1>a. absence' = absence
  BY DEF InsertSegments
<1>b. \A s \in Requests : request'[s] =
          IF s \in Range(id) THEN Segment(c, special, CHOOSE i \in DOMAIN call[c].asks : id[i] = s)
          ELSE request[s]
  BY <1>1
<1> HIDE DEF InsertSegments
<1>3. SUFFICES ASSUME NEW r \in Requests, r \in Range(id)
               PROVE  /\ request[r].status = "none"
                      /\ \E i \in DOMAIN call[c].asks : request'[r] = Segment(c, special, i)
  BY <1>a, <1>b, Zenon
<1>4. PICK j \in DOMAIN call[c].asks : id[j] = r
  BY <1>2, <1>3 DEF Range
<1>5. request[r].status = "none"
  BY <1>2, <1>4 DEF FreeRows
<1>6. (CHOOSE i \in DOMAIN call[c].asks : id[i] = r) \in DOMAIN call[c].asks
  BY <1>4
<1> QED BY <1>b, <1>3, <1>5, <1>6

\* No two of them have the same number.
LEMMA SegmentsDiffer ==
  ASSUME Base, NEW c \in Callers, call[c].kind \in {"create", "split"}, call[c].step # "idle",
         NEW special \in [DOMAIN call[c].asks -> BOOLEAN], InsertSegments(c, special),
         NEW q \in Requests, NEW r \in Requests, q # r,
         request'[q] # request[q], request'[r] # request[r]
  PROVE  request'[q].segment # request'[r].segment
<1>1. PICK id \in Injection(DOMAIN call[c].asks, FreeRows) :
        request' = [s \in Requests |->
          IF s \in Range(id) THEN Segment(c, special, CHOOSE i \in DOMAIN call[c].asks : id[i] = s)
          ELSE request[s]]
  BY DEF InsertSegments, Segment
<1>2. id \in [DOMAIN call[c].asks -> FreeRows]
  BY <1>1 DEF Injection
<1>3. q \in Range(id) /\ r \in Range(id)
  BY <1>1
<1>4. \A s \in Range(id) : \E i \in DOMAIN call[c].asks : id[i] = s
  BY <1>2 DEF Range
<1> DEFINE of(s) == CHOOSE i \in DOMAIN call[c].asks : id[i] = s
<1>5. \A s \in Range(id) : of(s) \in DOMAIN call[c].asks /\ id[of(s)] = s
  BY <1>4
<1>6. request'[q] = Segment(c, special, of(q)) /\ request'[r] = Segment(c, special, of(r))
  BY <1>1, <1>3
<1> HIDE DEF of
<1>7. request'[q].segment = of(q) /\ request'[r].segment = of(r)
  BY <1>3, <1>5, <1>6, SegmentRow
<1> QED BY <1>3, <1>5, <1>7

\* An insertion creates rows.
LEMMA InsertRowStep ==
  ASSUME Base, NEW c \in Callers, call[c].kind \in {"create", "split"},
         call[c].step \in {"insert", "quota"},
         NEW special \in [DOMAIN call[c].asks -> BOOLEAN], InsertSegments(c, special),
         \A i \in DOMAIN call[c].asks : special[i] =>
           call[c].asks[i] \subseteq Window /\ quotaHolder = None
  PROVE  \A r \in Requests : RowStep(c, r)
<1> SUFFICES ASSUME NEW r \in Requests, request'[r] # request[r]
             PROVE  Created(c, r)
  BY SegmentsInserted DEF RowStep, Kept
<1>1. absence'[r] = absence[r] /\ request[r].status = "none"
  BY SegmentsInserted
<1>2. PICK i \in DOMAIN call[c].asks : request'[r] = Segment(c, special, i)
  BY SegmentsInserted
<1> QED BY <1>1, <1>2, SegmentRow DEF Created

\* Without a quota it does ...
LEMMA InsertPlainlyRowStep ==
  ASSUME Base, NEW c \in Callers, InsertPlainly(c)
  PROVE  \A r \in Requests : RowStep(c, r)
<1> DEFINE special == [i \in DOMAIN call[c].asks |-> FALSE]
<1>1. call[c].kind \in {"create", "split"} /\ call[c].step = "insert"
  BY DEF Base, Shaped, InsertPlainly
<1>2. special \in [DOMAIN call[c].asks -> BOOLEAN] /\ InsertSegments(c, special)
      /\ \A i \in DOMAIN call[c].asks : ~special[i]
  BY DEF InsertPlainly
<1> HIDE DEF special
<1> QED BY <1>1, <1>2, InsertRowStep

\* ... and with the quota locked.
LEMMA SubmitSegmentsRowStep ==
  ASSUME Base, NEW c \in Callers, SubmitSegments(c)
  PROVE  \A r \in Requests : RowStep(c, r)
<1>1. call[c].kind = "split" /\ call[c].step = "quota" /\ quotaHolder = None
  BY DEF SubmitSegments
<1>2. PICK verdict \in Judgements(c) :
        /\ Accepts(c, verdict)
        /\ InsertSegments(c, [i \in DOMAIN call[c].asks |-> verdict[i] = "collective"])
  BY DEF SubmitSegments
<1> DEFINE special == [i \in DOMAIN call[c].asks |-> verdict[i] = "collective"]
<1>3. special \in [DOMAIN call[c].asks -> BOOLEAN] /\ InsertSegments(c, special)
  BY <1>2
<1>4. ASSUME NEW i \in DOMAIN call[c].asks, special[i]
      PROVE  call[c].asks[i] \subseteq Window
  <2>1. verdict[i] = "collective" /\ verdict[i] = SegmentVerdict(c, verdict, i)
    BY <1>2, <1>4 DEF Accepts
  <2> QED BY <2>1, VerdictsKnown DEF SegmentVerdict
<1> HIDE DEF special
<1> QED BY <1>1, <1>3, <1>4, InsertRowStep

\* Only waiting requests the call has locked are promoted.
LEMMA PromotedWait ==
  ASSUME Base, NEW c \in Callers, NEW r, Promoted(c, r) # {}
  PROVE  /\ r \in Requests /\ r # call[c].req /\ rowHolder[r] = c /\ Waiting(r)
         /\ Promoted(c, r) \subseteq request[r].days
<1>1. PICK d \in Promoted(c, r) : TRUE
  OBVIOUS
<1>2. <<r, d>> \in Chosen(c) /\ Promoted(c, r) \subseteq request[r].days
  BY <1>1 DEF Promoted
<1>3. PICK q \in {q \in Requests \ {call[c].req} : rowHolder[q] = c /\ Active(q) /\ Waiting(q)} :
        <<r, d>> \in {<<q, e>> : e \in Inside(request[q].days)}
  BY <1>2 DEF Chosen
<1>4. q = r
  BY <1>3
<1> QED BY <1>2, <1>3, <1>4

\* What a promotion leaves of a row that is cut.
ShortRow(c, r) == [request[r] EXCEPT !.days = Promoted(c, r), !.special = FALSE, !.version = @ + 1]

\* A promotion row by row: the ended request, what is promoted, and the remainders.
LEMMA PromoteRows ==
  ASSUME Base, NEW c \in Callers, Promote(c)
  PROVE  /\ absence' = absence
         /\ call[c].req \in Requests => request'[call[c].req] = Ended(c)
         /\ \A r \in Requests : r # call[c].req /\ Promoted(c, r) # {} => request'[r] = ShortRow(c, r)
         /\ \A r \in Requests : r # call[c].req /\ Promoted(c, r) = {} =>
              \/ request'[r] = request[r]
              \/ /\ request[r].status = "none"
                 /\ \E q \in Requests :
                      /\ Promoted(c, q) # {} /\ Promoted(c, q) # request[q].days
                      /\ request'[r] = Remainder(c, q)
         /\ \A q \in Requests : Promoted(c, q) # {} /\ Promoted(c, q) # request[q].days =>
              \E n \in Requests : n # call[c].req /\ request[n].status = "none" /\ request'[n] = Remainder(c, q)
<1> DEFINE cut == {r \in Requests : Promoted(c, r) # {} /\ Promoted(c, r) # request[r].days}
<1>1. PICK id \in Injection(cut, FreeRows) :
        request' = [r \in Requests |->
            IF r = call[c].req THEN Ended(c)
            ELSE IF Promoted(c, r) # {} THEN ShortRow(c, r)
            ELSE IF r \in Range(id) THEN Remainder(c, CHOOSE q \in cut : id[q] = r)
            ELSE request[r]]
  BY DEF Promote, ShortRow
<1>2. id \in [cut -> FreeRows] /\ IsInjective(id)
  BY <1>1 DEF Injection
<1>3. absence' = absence
  BY DEF Promote
<1>4. \A n \in Range(id) : \E q \in cut : id[q] = n
  BY <1>2 DEF Range
<1> DEFINE of(n) == CHOOSE q \in cut : id[q] = n
<1>5. \A n \in Range(id) : of(n) \in cut /\ id[of(n)] = n
  BY <1>4
<1>6. \A r \in Requests : request'[r] =
            IF r = call[c].req THEN Ended(c)
            ELSE IF Promoted(c, r) # {} THEN ShortRow(c, r)
            ELSE IF r \in Range(id) THEN Remainder(c, of(r))
            ELSE request[r]
  BY <1>1
<1>7. \A n \in Range(id) : n \in Requests /\ request[n].status = "none"
  BY <1>2, <1>4 DEF FreeRows
<1>8. \A q \in cut : q \in Requests /\ Promoted(c, q) # {} /\ Promoted(c, q) # request[q].days
  OBVIOUS
<1>9. \A q \in Requests : Promoted(c, q) # {} /\ Promoted(c, q) # request[q].days => q \in cut
  OBVIOUS
<1>10. call[c].req \in Requests => request[call[c].req].status # "none"
  <2>1. call[c].step = "rows" /\ call[c].kind \in RowKinds
    BY DEF Promote, Base, Shaped, RowKinds, Ending
  <2> QED BY <2>1, NamesARow DEF Base
<1> HIDE DEF cut, of
<1>11. call[c].req \in Requests => request'[call[c].req] = Ended(c)
  BY <1>6
<1>12. \A r \in Requests : r # call[c].req /\ Promoted(c, r) # {} => request'[r] = ShortRow(c, r)
  BY <1>6
<1>13. ASSUME NEW r \in Requests, r # call[c].req, Promoted(c, r) = {}, request'[r] # request[r]
       PROVE  /\ request[r].status = "none"
              /\ \E q \in Requests :
                   /\ Promoted(c, q) # {} /\ Promoted(c, q) # request[q].days
                   /\ request'[r] = Remainder(c, q)
  <2>1. r \in Range(id) /\ request'[r] = Remainder(c, of(r))
    BY <1>6, <1>13
  <2> QED BY <2>1, <1>5, <1>7, <1>8
<1>14. ASSUME NEW q \in Requests, Promoted(c, q) # {}, Promoted(c, q) # request[q].days
       PROVE  \E n \in Requests :
                n # call[c].req /\ request[n].status = "none" /\ request'[n] = Remainder(c, q)
  <2>1. q \in cut /\ id[q] \in Range(id)
    BY <1>2, <1>9, <1>14 DEF Range
  <2>2. id[q] \in Requests /\ request[id[q]].status = "none"
    BY <1>7, <2>1
  <2>3. of(id[q]) = q
    BY <1>2, <1>5, <2>1 DEF IsInjective
  <2>4. id[q] # call[c].req
    BY <1>10, <2>2
  <2>5. Promoted(c, id[q]) = {}
    BY <2>2, PromotedWait DEF Waiting
  <2>6. request'[id[q]] = Remainder(c, q)
    BY <1>6, <2>1, <2>2, <2>3, <2>4, <2>5
  <2> QED BY <2>2, <2>4, <2>6
<1> QED BY <1>3, <1>11, <1>12, <1>13, <1>14

\* A copy of a row with other dates, version, key and number.
Replaced(row, days, version, key, segment) ==
  [row EXCEPT !.days = days, !.version = version, !.key = key, !.segment = segment]

\* The copy waits as the row does.
LEMMA ReplacedRow ==
  ASSUME NEW row \in Rows, NEW d \in SUBSET Days, NEW v \in Nat, NEW k \in Keys \cup {None}, NEW n \in Nat
  PROVE  /\ Replaced(row, d, v, k, n) \in Rows
         /\ Replaced(row, d, v, k, n).status = row.status
         /\ Replaced(row, d, v, k, n).days = d
         /\ Replaced(row, d, v, k, n).special = row.special
         /\ Replaced(row, d, v, k, n).at = row.at
         /\ Replaced(row, d, v, k, n).key = k
<1> QED BY DEF Rows, Replaced

\* A promotion ends one row, shortens some and creates the remainders.
LEMMA PromoteRowStep ==
  ASSUME Base, NEW c \in Callers, Locked(c), Promote(c)
  PROVE  \A r \in Requests : RowStep(c, r)
<1>1. call[c].step = "rows" /\ call[c].kind \in Ending /\ call[c].kind \in RowKinds
  BY DEF Promote, Base, Shaped, RowKinds, Ending
<1>2. call[c].req \in Requests /\ quotaHolder = c
  BY <1>1, NamesARow DEF Base, Locked, KeepsTheQuota
<1>3. /\ rowHolder[call[c].req] = c
      /\ request[call[c].req].status \in AllowedFrom[call[c].kind]
      /\ request[call[c].req].version = call[c].saw.version
  BY <1>1 DEF Locked, KeepsItsRow
<1>4. Moved(c, call[c].req)
  BY <1>1, <1>2, <1>3, EndMoves, PromoteRows
<1>5. ASSUME NEW r \in Requests, r # call[c].req, Promoted(c, r) # {}
      PROVE  Shortened(c, r)
  <2>1. rowHolder[r] = c /\ Waiting(r) /\ Promoted(c, r) \subseteq request[r].days
    BY <1>5, PromotedWait
  <2>2. request'[r] = ShortRow(c, r) /\ absence'[r] = absence[r]
    BY <1>5, PromoteRows
  <2>3. PICK days \in SUBSET request[r].days : days = Promoted(c, r)
    BY <2>1
  <2>4. request'[r] = [request[r] EXCEPT !.days = days, !.special = FALSE, !.version = @ + 1]
    BY <2>2, <2>3 DEF ShortRow
  <2> QED BY <1>1, <1>5, <2>1, <2>2, <2>3, <2>4 DEF Shortened
<1>6. ASSUME NEW r \in Requests, r # call[c].req, Promoted(c, r) = {}, request'[r] # request[r]
      PROVE  Created(c, r)
  <2>1. PICK q \in Requests :
          /\ Promoted(c, q) # {} /\ Promoted(c, q) # request[q].days
          /\ request'[r] = Remainder(c, q)
    BY <1>6, PromoteRows
  <2>2. request[r].status = "none" /\ absence'[r] = absence[r]
    BY <1>6, PromoteRows
  <2>3. Waiting(q) /\ Promoted(c, q) \subseteq request[q].days /\ request[q] \in Rows
    BY <2>1, PromotedWait, RowTypes DEF Base
  <2>4. PICK d \in SUBSET Days : d = request[q].days \ Promoted(c, q)
    BY RowTypes DEF Base
  <2>5. d # {} /\ d \subseteq Window
    BY <2>1, <2>3, <2>4 DEF Base, RowShaped, Waiting
  <2>6. request'[r] = [request[q] EXCEPT !.days = d, !.version = 1, !.key = None, !.segment = 0]
    <3>1. Remainder(c, q) = [request[q] EXCEPT !.days = request[q].days \ Promoted(c, q),
                                              !.version = 1, !.key = None, !.segment = 0]
      BY <2>3 DEF Remainder, Rows
    <3> QED BY <2>1, <2>4, <3>1
  <2>7. /\ request'[r] \in Rows /\ request'[r].status = "submitted" /\ request'[r].days = d
        /\ request'[r].key = None
    <3>1. request'[r] = Replaced(request[q], d, 1, None, 0) /\ request[q].status = "submitted"
      BY <2>3, <2>6 DEF Replaced, Waiting
    <3> QED BY <2>3, <2>4, <3>1, ReplacedRow
  <2> QED BY <1>2, <2>2, <2>5, <2>7 DEF Created
<1>7. ASSUME NEW r \in Requests, request'[r] = request[r] PROVE Kept(r)
  BY <1>7, PromoteRows DEF Kept
<1> QED BY <1>4, <1>5, <1>6, <1>7 DEF RowStep

\* The steps of a call, all of them.
LEMMA ServeRowStep ==
  ASSUME Base, NEW c \in Callers, Locked(c), Serve(c) \/ Crash(c) \/ Client(c)
  PROVE  \A r \in Requests : RowStep(c, r)
<1>1. CASE UNCHANGED tables
  BY <1>1 DEF tables, RowStep, Kept
<1>2. CASE UpdateDraft(c)
  BY <1>2, EditMoves
<1>3. CASE Approve(c)
  BY <1>3, ApproveMoves
<1>4. CASE SubmitPlainly(c)
  BY <1>4, SubmitPlainlyMoves
<1>5. CASE SubmitDraft(c)
  BY <1>5, SubmitDraftMoves
<1>6. CASE End(c)
  BY <1>6, EndRowStep
<1>7. CASE Promote(c)
  BY <1>7, PromoteRowStep
<1>8. CASE InsertPlainly(c)
  BY <1>8, InsertPlainlyRowStep
<1>9. CASE SubmitSegments(c)
  BY <1>9, SubmitSegmentsRowStep
<1>10. CASE ~UNCHANGED tables
  <2>1. ~Client(c) /\ ~Crash(c)
    BY <1>10 DEF Client, Send, SendNew, Repeat, Crash, RollBack, ReadOnly
  <2>2. Serve(c)
    BY <2>1
  <2>3. /\ ~AnswerDone(c) /\ ~Refuse(c) /\ ~SubmitNearWindow(c) /\ ~RefuseSubmit(c)
        /\ ~EndFreeingQuota(c) /\ ~TakeQuota(c) /\ ~LockRow(c) /\ ~AnswerCreated(c)
        /\ ~BeginCreate(c) /\ ~BeginSplit(c) /\ ~RefuseSegments(c) /\ ~Victim(c)
    BY <1>10 DEF AnswerDone, Refuse, SubmitNearWindow, RefuseSubmit, EndFreeingQuota, TakeQuota,
                 LockRow, AnswerCreated, BeginCreate, BeginSplit, RefuseSegments, Victim,
                 RollBack, ReadOnly
  <2> QED BY <2>2, <2>3, <1>2, <1>3, <1>4, <1>5, <1>6, <1>7, <1>8, <1>9 DEF Serve
<1> QED BY <1>1, <1>10

\* A row that exists goes on existing, and what it says changes with its version.
LEMMA RowsGoOn ==
  ASSUME Base, NEW c \in Callers, NEW r \in Requests, RowStep(c, r)
  PROVE  /\ request'[r] \in Rows /\ absence'[r] \subseteq Days /\ RowShaped(r)'
         /\ request[r].status # "none" =>
              /\ request'[r].status # "none" /\ request[r].version <= request'[r].version
              /\ request[r].version = request'[r].version => request'[r] = request[r]
              /\ request'[r].key = request[r].key /\ request'[r].segment = request[r].segment
         /\ request[r].status \notin {"none", "draft"} => request'[r].status \notin {"none", "draft"}
<1>1. request[r] \in Rows /\ absence[r] \subseteq Days /\ RowShaped(r) /\ request[r].version \in Nat
      /\ request[r].days \subseteq Days
  BY RowTypes DEF Base
<1>2. CASE Kept(r)
  BY <1>1, <1>2 DEF Kept, RowShaped
<1>3. CASE Created(c, r)
  BY <1>1, <1>3 DEF Created, RowShaped
<1>4. CASE Shortened(c, r)
  <2>1. PICK days \in SUBSET request[r].days :
          /\ days # {}
          /\ request'[r] = [request[r] EXCEPT !.days = days, !.special = FALSE, !.version = @ + 1]
    BY <1>4 DEF Shortened
  <2>2. PICK v \in Nat : v = request[r].version + 1
    BY <1>1
  <2>3. request'[r] = [request[r] EXCEPT !.days = days, !.special = FALSE, !.version = v]
    BY <2>1, <2>2
  <2>4. days \in SUBSET Days /\ days # {}
    BY <1>1, <2>1
  <2>5. /\ request'[r] \in Rows /\ request'[r].status = request[r].status /\ request'[r].version = v
        /\ request'[r].key = request[r].key /\ request'[r].segment = request[r].segment
        /\ request'[r].special = FALSE /\ request'[r].days = days
    BY <1>1, <2>2, <2>3, <2>4 DEF Rows
  <2>6. request[r].status = "submitted" /\ absence'[r] = absence[r]
    BY <1>4 DEF Shortened, Waiting
  <2>7. RowShaped(r)'
    BY <2>4, <2>5, <2>6 DEF RowShaped
  <2> QED BY <1>1, <2>2, <2>5, <2>6, <2>7
<1>5. CASE Moved(c, r)
  <2>1. call[c].kind \in RowKinds /\ request[r].status \in AllowedFrom[call[c].kind]
    BY <1>5 DEF Moved
  <2>2. /\ request[r].status \in {"draft", "submitted"}
        /\ request'[r].status \in {"draft", "submitted", "cancelled", "approved", "rejected"}
        /\ request'[r].status = "draft" => request[r].status = "draft" /\ call[c].kind = "edit"
    BY <2>1, <1>5, KindTables DEF Moved, RowKinds
  <2>3. request'[r].special =>
          request'[r].days \subseteq Window /\ request'[r].status # "draft"
    <3>1. CASE call[c].kind = "submit"
      BY <3>1, <1>5, KindTables DEF Moved
    <3>2. CASE call[c].kind = "edit"
      BY <3>2, <1>1, <1>5, <2>1, KindTables DEF Moved, RowShaped
    <3>3. CASE call[c].kind \notin {"submit", "edit"}
      BY <3>3, <1>1, <1>5, <2>2 DEF Moved, RowShaped
    <3> QED BY <3>1, <3>2, <3>3
  <2>4. /\ request'[r] \in Rows /\ request'[r].version = request[r].version + 1 /\ request'[r].days # {}
        /\ request'[r].key = request[r].key /\ request'[r].segment = request[r].segment
    BY <1>5 DEF Moved
  <2>5. absence'[r] \subseteq Days
    BY <1>1, <1>5 DEF Moved
  <2>6. RowShaped(r)'
    BY <2>2, <2>3, <2>4 DEF RowShaped
  <2> QED BY <1>1, <2>2, <2>4, <2>5, <2>6
<1> QED BY <1>2, <1>3, <1>4, <1>5 DEF RowStep

-----------------------------------------------------------------------------
(* What a step does to the calls and the locks.                            *)

\* The other calls and what they hold stay.
OthersStay(c) ==
  \A d \in Callers : d # c =>
    /\ call'[d] = call[d]
    /\ \A r \in Requests : rowHolder'[r] = d <=> rowHolder[r] = d
    /\ \A k \in Keys : keyHolder'[k] = d <=> keyHolder[k] = d
    /\ quotaHolder' = d <=> quotaHolder = d

\* A call without locks.
HoldsNothing(c) ==
  /\ \A r \in Requests : rowHolder[r] # c
  /\ \A k \in Keys : keyHolder[k] # c
  /\ quotaHolder # c

\* The types of the variables a step of a call changes besides the tables.
CallsOK ==
  /\ call \in [Callers -> Calls]
  /\ rowHolder \in [Requests -> Callers \cup {None}]
  /\ quotaHolder \in Callers \cup {None}
  /\ keyHolder \in [Keys -> Callers \cup {None}]

\* A call under way keeps what its client asked.
KeepsItsQuestion(c) ==
  call'[c].step # "idle" =>
    /\ call[c].step # "idle"
    /\ call'[c].kind = call[c].kind /\ call'[c].req = call[c].req
    /\ call'[c].saw = call[c].saw /\ call'[c].key = call[c].key

\* What every step of a served call does to the calls and the locks.
CallStep(c) == CallsOK' /\ OthersStay(c) /\ KeepsItsQuestion(c) /\ Shaped(c)' /\ Locked(c)'

\* A free lock has no holder.
LEMMA NobodyIsNone == \A c \in Callers : c # None
<1> QED BY NoneAssumption

\* A call that has only just come holds nothing.
LEMMA NothingHeldYet ==
  ASSUME NEW c \in Callers, Locked(c), call[c].step \in {"idle", "sent"}
  PROVE  HoldsNothing(c)
<1> QED BY DEF Locked, HoldsNoMore, HoldsNothing

\* An answer ends the call and frees its locks.
LEMMA AnswerStep ==
  ASSUME Base, NEW c \in Callers, Answer(c)
  PROVE  CallStep(c) /\ HoldsNothing(c)' /\ call'[c] = NoCall
<1>1. /\ call \in [Callers -> Calls] /\ rowHolder \in [Requests -> Callers \cup {None}]
      /\ quotaHolder \in Callers \cup {None} /\ keyHolder \in [Keys -> Callers \cup {None}]
  BY DEF Base, TypeOK
<1>2. call' = [call EXCEPT ![c] = NoCall] /\ Release(c)
  BY DEF Answer
<1>3. NoCall \in Calls /\ NoCall.step = "idle" /\ NoCall.todo = {}
      /\ NoCall.asks \in Seq((SUBSET Days) \ {{}})
  BY DEF NoCall, Calls, RowKinds
<1>4. CallsOK'
  BY <1>1, <1>2, <1>3 DEF CallsOK, Release
<1>5. call'[c] = NoCall /\ \A d \in Callers : d # c => call'[d] = call[d]
  BY <1>1, <1>2
<1>6. HoldsNothing(c)'
  BY <1>1, <1>2, NobodyIsNone DEF HoldsNothing, Release
<1>7. OthersStay(c)
  BY <1>1, <1>2, <1>5, NobodyIsNone DEF OthersStay, Release
<1>8. KeepsItsQuestion(c)
  BY <1>3, <1>5 DEF KeepsItsQuestion
<1>9. Shaped(c)'
  BY <1>3, <1>5 DEF Shaped
<1>10. Locked(c)'
  BY <1>3, <1>5, <1>6 DEF Locked, KeepsItsRow, KeepsItsKey, KeepsTheQuota, HoldsNoMore, HoldsNothing
<1> QED BY <1>4, <1>5, <1>6, <1>7, <1>8, <1>9, <1>10 DEF CallStep

\* The call waits for the quota: with a row it may change ...
LEMMA RowWaitsStep ==
  ASSUME Base, NEW c \in Callers, Locked(c), NEW at \in Nat, MayGo(c),
         call[c].kind \in {"submit"} \cup Ending, WaitForQuota(c, at),
         keyHolder' = keyHolder, request' = request
  PROVE  CallStep(c)
<1> DEFINE q == call[c].req
           its == [call[c] EXCEPT !.step = "quota", !.at = at,
                                  !.window = [active |-> TRUE, quota |-> window.quota]]
<1>1. /\ call \in [Callers -> Calls] /\ rowHolder \in [Requests -> Callers \cup {None}]
      /\ quotaHolder \in Callers \cup {None} /\ keyHolder \in [Keys -> Callers \cup {None}]
  BY DEF Base, TypeOK
<1>2. call[c].step = "sent" /\ call[c].kind \in RowKinds /\ rowHolder[q] = None
  BY DEF MayGo, Locks
<1>3. q \in Requests /\ request[q].status # "none" /\ q # None
  BY <1>2, NamesARow, NoneAssumption DEF Base
<1>4. call' = [call EXCEPT ![c] = its] /\ rowHolder' = [rowHolder EXCEPT ![q] = c]
      /\ quotaHolder' = quotaHolder
  BY <1>1, <1>3 DEF WaitForQuota
<1>5. PICK w \in [active : BOOLEAN, quota : Nat] : w = [active |-> TRUE, quota |-> window.quota]
  BY NumbersAssumption DEF Base, TypeOK
<1>6. its = [call[c] EXCEPT !.step = "quota", !.at = at, !.window = w]
  BY <1>5
<1>7. call[c] \in Calls
  BY CallTypes DEF Base
<1> HIDE DEF its
<1>8. /\ its \in Calls /\ its.step = "quota" /\ its.kind = call[c].kind /\ its.req = q
      /\ its.saw = call[c].saw /\ its.key = call[c].key /\ its.asks = call[c].asks
      /\ its.todo = call[c].todo
  BY <1>5, <1>6, <1>7 DEF Calls
<1>9. call'[c] = its /\ \A d \in Callers : d # c => call'[d] = call[d]
  BY <1>1, <1>4
<1>10. CallsOK'
  BY <1>1, <1>4, <1>8 DEF CallsOK
<1>11. OthersStay(c)
  BY <1>1, <1>2, <1>4, <1>9, NobodyIsNone DEF OthersStay
<1>12. KeepsItsQuestion(c)
  BY <1>2, <1>8, <1>9 DEF KeepsItsQuestion
<1>13. Shaped(c)'
  BY <1>2, <1>8, <1>9 DEF Shaped, Base, RowKinds, Ending
<1>14. KeepsItsRow(c)'
  <2>1. request[q].status \in AllowedFrom[call[c].kind] /\ request[q].version = call[c].saw.version
    BY DEF MayGo, Allowed
  <2> QED BY <1>1, <1>3, <1>4, <1>8, <1>9, <2>1 DEF KeepsItsRow
<1>15. KeepsItsKey(c)' /\ KeepsTheQuota(c)'
  BY <1>2, <1>8, <1>9 DEF KeepsItsKey, KeepsTheQuota, RowKinds
<1>16. HoldsNoMore(c)'
  BY <1>1, <1>2, <1>3, <1>4, <1>8, <1>9, NothingHeldYet DEF HoldsNoMore, HoldsNothing
<1> QED BY <1>10, <1>11, <1>12, <1>13, <1>14, <1>15, <1>16 DEF CallStep, Locked

\* ... or with a key under which it will create.
LEMMA KeyWaitsStep ==
  ASSUME Base, NEW c \in Callers, Locked(c), LocksKey(c), CreatedUnder(call[c].key) = {},
         NEW its \in Calls, its.step \in {"insert", "quota"},
         its.step = "quota" => call[c].kind = "split", its.kind = call[c].kind,
         its.req = call[c].req, its.saw = call[c].saw, its.key = call[c].key,
         its.asks = call[c].asks, its.todo = call[c].todo,
         call' = [call EXCEPT ![c] = its], rowHolder' = rowHolder,
         quotaHolder' = quotaHolder, keyHolder' = [keyHolder EXCEPT ![call[c].key] = c],
         request' = request
  PROVE  CallStep(c)
<1> DEFINE k == call[c].key
<1>1. /\ call \in [Callers -> Calls] /\ rowHolder \in [Requests -> Callers \cup {None}]
      /\ quotaHolder \in Callers \cup {None} /\ keyHolder \in [Keys -> Callers \cup {None}]
  BY DEF Base, TypeOK
<1>2. call[c].step = "sent" /\ call[c].kind \in {"create", "split"} /\ keyHolder[k] = None
  BY DEF LocksKey
<1>3. Shaped(c) /\ k \in Keys
  BY <1>2 DEF Base, Shaped
<1>4. call'[c] = its /\ \A d \in Callers : d # c => call'[d] = call[d]
  BY <1>1
<1>5. CallsOK'
  BY <1>1, <1>3 DEF CallsOK
<1>6. OthersStay(c)
  BY <1>1, <1>2, <1>3, <1>4, NobodyIsNone DEF OthersStay
<1>7. KeepsItsQuestion(c)
  BY <1>2, <1>4 DEF KeepsItsQuestion
<1>8. Shaped(c)'
  BY <1>2, <1>3, <1>4 DEF Shaped
<1>9. KeepsItsRow(c)' /\ KeepsTheQuota(c)'
  BY <1>2, <1>4 DEF KeepsItsRow, KeepsTheQuota, RowKinds
<1>10. KeepsItsKey(c)'
  <2>1. CreatedUnder(k)' = {} /\ keyHolder'[k] = c
    BY <1>1, <1>3 DEF CreatedUnder
  <2> QED BY <1>4, <2>1 DEF KeepsItsKey, CreatedUnder
<1>11. HoldsNoMore(c)'
  BY <1>1, <1>2, <1>3, <1>4, NothingHeldYet DEF HoldsNoMore, HoldsNothing
<1> QED BY <1>5, <1>6, <1>7, <1>8, <1>9, <1>10, <1>11 DEF CallStep, Locked

\* The key is locked, and no quota is needed ...
LEMMA BeginCreateStep ==
  ASSUME Base, NEW c \in Callers, Locked(c), BeginCreate(c)
  PROVE  CallStep(c)
<1>1. PICK n \in Nat : n = IF call[c].kind = "split" THEN Now ELSE 0
  BY NowIsNumber DEF Base
<1> DEFINE its == [call[c] EXCEPT !.step = "insert", !.at = n]
<1>2. /\ LocksKey(c) /\ CreatedUnder(call[c].key) = {}
      /\ keyHolder' = [keyHolder EXCEPT ![call[c].key] = c] /\ rowHolder' = rowHolder
      /\ quotaHolder' = quotaHolder /\ request' = request
  BY DEF BeginCreate, ReadOnly, tables
<1>3. call' = [call EXCEPT ![c] = its]
  <2>1. call' = [call EXCEPT ![c].step = "insert", ![c].at = n]
    BY <1>1 DEF BeginCreate
  <2> QED BY <2>1 DEF Base, TypeOK
<1>4. call[c] \in Calls
  BY CallTypes DEF Base
<1>5. /\ its \in Calls /\ its.step = "insert" /\ its.kind = call[c].kind /\ its.req = call[c].req
      /\ its.saw = call[c].saw /\ its.key = call[c].key /\ its.asks = call[c].asks
      /\ its.todo = call[c].todo
  BY <1>1, <1>4 DEF Calls
<1> HIDE DEF its
<1> QED BY <1>2, <1>3, <1>5, KeyWaitsStep

\* ... or the call waits for it.
LEMMA BeginSplitStep ==
  ASSUME Base, NEW c \in Callers, Locked(c), BeginSplit(c)
  PROVE  CallStep(c)
<1>1. PICK n \in Nat : n = Now
  BY NowIsNumber DEF Base
<1>2. PICK w \in [active : BOOLEAN, quota : Nat] : w = [active |-> TRUE, quota |-> window.quota]
  BY NumbersAssumption DEF Base, TypeOK
<1> DEFINE its == [call[c] EXCEPT !.step = "quota", !.at = n, !.window = w]
<1>3. /\ LocksKey(c) /\ CreatedUnder(call[c].key) = {} /\ call[c].kind = "split"
      /\ keyHolder' = [keyHolder EXCEPT ![call[c].key] = c]
      /\ WaitForQuota(c, n) /\ request' = request
  BY <1>1 DEF BeginSplit, ReadOnly, tables
<1>4. call[c].req = None
  BY <1>3 DEF Base, Shaped, LocksKey
<1>5. rowHolder' = rowHolder /\ quotaHolder' = quotaHolder
  BY <1>3, <1>4 DEF WaitForQuota
<1>6. call' = [call EXCEPT ![c] = its]
  <2>1. call' = [call EXCEPT ![c].step = "quota", ![c].at = n, ![c].window = w]
    BY <1>2, <1>3 DEF WaitForQuota
  <2> QED BY <2>1 DEF Base, TypeOK
<1>7. call[c] \in Calls
  BY CallTypes DEF Base
<1>8. /\ its \in Calls /\ its.step = "quota" /\ its.kind = call[c].kind /\ its.req = call[c].req
      /\ its.saw = call[c].saw /\ its.key = call[c].key /\ its.asks = call[c].asks
      /\ its.todo = call[c].todo
  BY <1>1, <1>2, <1>7 DEF Calls
<1> HIDE DEF its
<1> QED BY <1>3, <1>5, <1>6, <1>8, KeyWaitsStep

\* Every waiting request has dates in the window and is on the list to lock.
LEMMA TakeQuotaStep ==
  ASSUME Base, NEW c \in Callers, Locked(c), TakeQuota(c)
  PROVE  CallStep(c)
<1>1. PICK rows \in SUBSET Requests : rows = {r \in Requests \ {call[c].req} : Allocated(r)}
  OBVIOUS
<1> DEFINE its == [call[c] EXCEPT !.step = "rows", !.todo = rows]
<1>2. /\ call[c].step = "quota" /\ call[c].kind \in Ending /\ call[c].kind \in RowKinds
      /\ quotaHolder = None /\ quotaHolder' = c
      /\ rowHolder' = rowHolder /\ keyHolder' = keyHolder /\ request' = request
  BY DEF TakeQuota, ReadOnly, tables, Ending, RowKinds
<1>3. call' = [call EXCEPT ![c] = its]
  <2>1. call' = [call EXCEPT ![c].step = "rows", ![c].todo = rows]
    BY <1>1 DEF TakeQuota
  <2> QED BY <2>1 DEF Base, TypeOK
<1>4. /\ call \in [Callers -> Calls] /\ rowHolder \in [Requests -> Callers \cup {None}]
      /\ quotaHolder \in Callers \cup {None} /\ keyHolder \in [Keys -> Callers \cup {None}]
      /\ call[c] \in Calls
  BY DEF Base, TypeOK
<1>5. /\ its \in Calls /\ its.step = "rows" /\ its.kind = call[c].kind /\ its.req = call[c].req
      /\ its.saw = call[c].saw /\ its.key = call[c].key /\ its.asks = call[c].asks
      /\ its.todo = rows
  BY <1>1, <1>4 DEF Calls
<1> HIDE DEF its
<1>6. call'[c] = its /\ \A d \in Callers : d # c => call'[d] = call[d]
  BY <1>3, <1>4
<1>7. CallsOK'
  BY <1>2, <1>3, <1>4, <1>5 DEF CallsOK
<1>8. OthersStay(c)
  BY <1>2, <1>6, NobodyIsNone DEF OthersStay
<1>9. KeepsItsQuestion(c)
  BY <1>2, <1>5, <1>6 DEF KeepsItsQuestion
<1>10. Shaped(c)'
  BY <1>2, <1>5, <1>6 DEF Base, Shaped, Ending
<1>11. KeepsItsRow(c)'
  BY <1>2, <1>5, <1>6 DEF Locked, KeepsItsRow
<1>12. KeepsItsKey(c)'
  BY <1>5, <1>6 DEF KeepsItsKey
<1>13. KeepsTheQuota(c)'
  <2>1. ASSUME NEW r \in rows PROVE rowHolder[r] # c /\ request[r].status \notin {"none", "draft"}
    <3>1. r \in Requests /\ r # call[c].req /\ request[r].status \in {"submitted", "approved"}
      BY <1>1, <2>1 DEF Allocated, Active
    <3> QED BY <3>1, <1>2 DEF Locked, HoldsNoMore
  <2>2. ASSUME NEW r \in Requests, Waiting(r), r # call[c].req PROVE r \in rows
    <3>1. request[r].days # {} /\ request[r].days \subseteq Window /\ Active(r)
      BY <2>2 DEF Waiting, Base, RowShaped, Active
    <3> QED BY <3>1, <2>2, <1>1 DEF Allocated, Inside
  <2> QED BY <1>2, <1>5, <1>6, <2>1, <2>2 DEF KeepsTheQuota, Waiting
<1>14. HoldsNoMore(c)'
  <2>1. HoldsNoMore(c) /\ \A k \in Keys : keyHolder[k] # c
    BY <1>2 DEF Locked, HoldsNoMore, Ending
  <2> QED BY <1>2, <1>5, <1>6, <2>1 DEF HoldsNoMore
<1> QED BY <1>7, <1>8, <1>9, <1>10, <1>11, <1>12, <1>13, <1>14 DEF CallStep, Locked

\* One row after the other goes from the list to the locks.
LEMMA LockRowStep ==
  ASSUME Base, NEW c \in Callers, Locked(c), LockRow(c)
  PROVE  CallStep(c)
<1>1. call[c].todo \in SUBSET Requests /\ call[c].todo # {} /\ call[c].step = "rows"
  BY CallTypes DEF LockRow, Base
<1>2. PICK r \in call[c].todo : r = NextRow(call[c].todo)
  BY <1>1, NextRowIsThere DEF Base
<1>3. PICK rows \in SUBSET Requests : rows = call[c].todo \ {r}
  BY <1>1
<1> DEFINE its == [call[c] EXCEPT !.todo = rows]
<1>4. /\ rowHolder[r] = None /\ rowHolder' = [rowHolder EXCEPT ![r] = c]
      /\ quotaHolder' = quotaHolder /\ keyHolder' = keyHolder /\ request' = request
  BY <1>2 DEF LockRow, ReadOnly, tables
<1>5. call' = [call EXCEPT ![c] = its]
  <2>1. call' = [call EXCEPT ![c].todo = call[c].todo \ {r}]
    BY <1>2 DEF LockRow, Base, TypeOK
  <2> QED BY <1>3, <2>1 DEF Base, TypeOK
<1>6. /\ call \in [Callers -> Calls] /\ rowHolder \in [Requests -> Callers \cup {None}]
      /\ quotaHolder \in Callers \cup {None} /\ keyHolder \in [Keys -> Callers \cup {None}]
      /\ call[c] \in Calls /\ r \in Requests
  BY <1>1 DEF Base, TypeOK
<1>7. /\ its \in Calls /\ its.step = "rows" /\ its.kind = call[c].kind /\ its.req = call[c].req
      /\ its.saw = call[c].saw /\ its.key = call[c].key /\ its.asks = call[c].asks
      /\ its.todo = rows
  BY <1>1, <1>3, <1>6 DEF Calls
<1> HIDE DEF its
<1>8. call'[c] = its /\ \A d \in Callers : d # c => call'[d] = call[d]
  BY <1>5, <1>6
<1>9. rowHolder'[r] = c /\ \A q \in Requests : q # r => rowHolder'[q] = rowHolder[q]
  BY <1>4, <1>6
<1>10. CallsOK'
  BY <1>4, <1>5, <1>6, <1>7 DEF CallsOK
<1>11. OthersStay(c)
  BY <1>4, <1>8, <1>9, NobodyIsNone DEF OthersStay
<1>12. KeepsItsQuestion(c)
  BY <1>1, <1>7, <1>8 DEF KeepsItsQuestion
<1>13. Shaped(c)'
  BY <1>1, <1>7, <1>8 DEF Base, Shaped, Ending
<1>14. KeepsItsRow(c)'
  <2>1. call[c].kind \in RowKinds /\ call[c].req \in Requests
    BY <1>1, NamesARow DEF Base, Shaped, Ending, RowKinds
  <2> QED BY <1>1, <1>4, <1>7, <1>8, <1>9, <2>1 DEF Locked, KeepsItsRow
<1>15. KeepsItsKey(c)'
  BY <1>7, <1>8 DEF KeepsItsKey
<1>16. KeepsTheQuota(c)'
  <2>1. /\ quotaHolder = c
        /\ \A q \in call[c].todo : rowHolder[q] # c /\ request[q].status \notin {"none", "draft"}
        /\ \A q \in Requests : Waiting(q) => q = call[c].req \/ q \in call[c].todo \/ rowHolder[q] = c
    BY <1>1 DEF Locked, KeepsTheQuota
  <2>2. \A q \in rows : q \in Requests /\ q # r /\ q \in call[c].todo
    BY <1>1, <1>3
  <2>3. \A q \in call[c].todo : q = r \/ q \in rows
    BY <1>1, <1>3
  <2> QED BY <1>4, <1>7, <1>8, <1>9, <2>1, <2>2, <2>3 DEF KeepsTheQuota, Waiting
<1>17. HoldsNoMore(c)'
  <2>1. request[r].status # "none" /\ call[c].kind \in RowKinds
    BY <1>1 DEF Locked, KeepsTheQuota, Base, Shaped, Ending, RowKinds
  <2> QED BY <1>1, <1>4, <1>7, <1>8, <1>9, <2>1 DEF Locked, HoldsNoMore
<1> QED BY <1>10, <1>11, <1>12, <1>13, <1>14, <1>15, <1>16, <1>17 DEF CallStep, Locked

\* Every step of a server call is one of these.
LEMMA ServeStep ==
  ASSUME Base, NEW c \in Callers, Locked(c), Serve(c) \/ Crash(c)
  PROVE  /\ CallStep(c)
         /\ Answer(c) \/ UNCHANGED <<tables, confirmed>>
<1>1. CASE Answer(c)
  BY <1>1, AnswerStep
<1>2. CASE SubmitNearWindow(c)
  <2>1. PICK n \in Nat : n = Now
    BY NowIsNumber DEF Base
  <2> QED BY <1>2, <2>1, RowWaitsStep DEF SubmitNearWindow, ReadOnly, tables
<1>3. CASE EndFreeingQuota(c)
  BY <1>3, RowWaitsStep DEF EndFreeingQuota, ReadOnly, tables
<1>4. CASE TakeQuota(c)
  BY <1>4, TakeQuotaStep DEF TakeQuota, ReadOnly, tables
<1>5. CASE LockRow(c)
  BY <1>5, LockRowStep DEF LockRow, ReadOnly, tables
<1>6. CASE BeginCreate(c)
  BY <1>6, BeginCreateStep DEF BeginCreate, ReadOnly, tables
<1>7. CASE BeginSplit(c)
  BY <1>7, BeginSplitStep DEF BeginSplit, ReadOnly, tables
<1>8. CASE ~Answer(c)
  <2>1. ~Crash(c) /\ ~Victim(c)
    BY <1>8 DEF Crash, Victim, RollBack
  <2>2. Serve(c)
    BY <2>1
  <2>3. /\ ~AnswerDone(c) /\ ~Refuse(c) /\ ~UpdateDraft(c) /\ ~Approve(c)
        /\ ~SubmitPlainly(c) /\ ~SubmitDraft(c) /\ ~RefuseSubmit(c)
        /\ ~End(c) /\ ~Promote(c) /\ ~AnswerCreated(c)
        /\ ~InsertPlainly(c) /\ ~SubmitSegments(c) /\ ~RefuseSegments(c)
    BY <1>8 DEF AnswerDone, Refuse, UpdateDraft, Approve, SubmitPlainly, SubmitDraft, RefuseSubmit,
                End, Promote, AnswerCreated, InsertPlainly, SubmitSegments, RefuseSegments
  <2> QED BY <2>1, <2>2, <2>3, <1>2, <1>3, <1>4, <1>5, <1>6, <1>7 DEF Serve
<1> QED BY <1>1, <1>8

\* A question of a client: a call that was idle and holds nothing.
LEMMA SentStep ==
  ASSUME Base, NEW c \in Callers, Locked(c), call[c].step = "idle",
         NEW its \in Calls, its.step = "sent", its.todo = {},
         its.kind \in {"create", "split"} => its.key \in Keys /\ its.req = None,
         its.kind = "edit" => its.asks # <<>>, its.asks \in Seq((SUBSET Days) \ {{}}),
         call' = [call EXCEPT ![c] = its], rowHolder' = rowHolder,
         quotaHolder' = quotaHolder, keyHolder' = keyHolder
  PROVE  CallsOK' /\ OthersStay(c) /\ Shaped(c)' /\ Locked(c)' /\ call'[c] = its
<1>1. /\ call \in [Callers -> Calls] /\ rowHolder \in [Requests -> Callers \cup {None}]
      /\ quotaHolder \in Callers \cup {None} /\ keyHolder \in [Keys -> Callers \cup {None}]
  BY DEF Base, TypeOK
<1>2. call'[c] = its /\ \A d \in Callers : d # c => call'[d] = call[d]
  BY <1>1
<1>3. CallsOK'
  BY <1>1 DEF CallsOK
<1>4. OthersStay(c)
  BY <1>2 DEF OthersStay
<1>5. Shaped(c)'
  BY <1>2 DEF Shaped
<1>6. Locked(c)'
  BY <1>2, NothingHeldYet
     DEF Locked, KeepsItsRow, KeepsItsKey, KeepsTheQuota, HoldsNoMore, HoldsNothing
<1> QED BY <1>2, <1>3, <1>4, <1>5, <1>6

\* What a client sends, it knows.
LEMMA ClientStep ==
  ASSUME Base, NEW c \in Callers, \A d \in Callers : Locked(d) /\ Knows(d), Client(c)
  PROVE  /\ CallsOK' /\ OthersStay(c) /\ Shaped(c)' /\ Locked(c)' /\ Knows(c)'
         /\ call'[c].step = "sent" /\ call[c].step = "idle"
         /\ call'[c].kind \in RowKinds =>
              call'[c].req \in Requests /\ request[call'[c].req].status # "none"
<1>0. /\ request' = request /\ rowHolder' = rowHolder
      /\ quotaHolder' = quotaHolder /\ keyHolder' = keyHolder /\ call[c].step = "idle"
  BY DEF Client, Send, SendNew, Repeat, ReadOnly, tables, locks
<1>1. ASSUME NEW r \in Requests, request[r].status # "none",
             NEW kind \in RowKinds, NEW asks \in Seq((SUBSET Days) \ {{}}),
             kind = "edit" => asks # <<>>, Send(c, r, kind, asks)
      PROVE  /\ CallsOK' /\ OthersStay(c) /\ Shaped(c)' /\ Locked(c)' /\ Knows(c)'
             /\ call'[c].step = "sent" /\ call'[c].req = r
  <2> DEFINE its == [NoCall EXCEPT !.step = "sent", !.kind = kind, !.req = r, !.saw = Seen(r), !.asks = asks]
  <2>1. PICK s \in [version : Nat, days : SUBSET Days, special : BOOLEAN] : s = Seen(r)
    BY RowTypes DEF Base, Seen
  <2>2. call' = [call EXCEPT ![c] = its]
    BY <1>1 DEF Send
  <2>3. its = [NoCall EXCEPT !.step = "sent", !.kind = kind, !.req = r, !.saw = s, !.asks = asks]
    BY <2>1
  <2>4. asks \in Seq(SUBSET Days)
    OBVIOUS
  <2> HIDE DEF its
  <2>5. /\ its \in Calls /\ its.step = "sent" /\ its.kind = kind /\ its.req = r /\ its.saw = s
        /\ its.asks = asks /\ its.todo = {}
    BY <2>1, <2>3, <2>4 DEF Calls, NoCall
  <2>6. kind \notin {"create", "split"}
    BY DEF RowKinds
  <2>7. CallsOK' /\ OthersStay(c) /\ Shaped(c)' /\ Locked(c)' /\ call'[c] = its
    BY <1>0, <1>1, <2>2, <2>5, <2>6, SentStep
  <2>8. Knows(c)'
    BY <1>0, <2>1, <2>5, <2>7, RowTypes DEF Knows, Seen, Base
  <2> QED BY <2>5, <2>7, <2>8
<1>2. ASSUME NEW kind \in {"create", "split"}, NEW asks \in Seq((SUBSET Days) \ {{}}),
             NEW k \in Keys, SendNew(c, kind, asks, k)
      PROVE  /\ CallsOK' /\ OthersStay(c) /\ Shaped(c)' /\ Locked(c)' /\ Knows(c)'
             /\ call'[c].step = "sent" /\ call'[c].kind \notin RowKinds
  <2> DEFINE its == [NoCall EXCEPT !.step = "sent", !.kind = kind, !.asks = asks, !.key = k]
  <2>1. call' = [call EXCEPT ![c] = its]
    BY <1>2 DEF SendNew
  <2>2. asks \in Seq(SUBSET Days)
    OBVIOUS
  <2>3. /\ its \in Calls /\ its.step = "sent" /\ its.kind = kind /\ its.req = None
        /\ its.asks = asks /\ its.todo = {} /\ its.key = k
    <3>1. NoCall \in Calls /\ NoCall.todo = {} /\ NoCall.req = None
      BY DEF Calls, NoCall, RowKinds
    <3>2. k \in Keys \cup {None} /\ kind \in RowKinds \cup {"create", "split"}
      OBVIOUS
    <3>3. its \in Calls
      BY <2>2, <3>1, <3>2 DEF Calls
    <3>4. /\ its.step = "sent" /\ its.kind = kind /\ its.req = NoCall.req
          /\ its.asks = asks /\ its.todo = NoCall.todo /\ its.key = k
      BY <3>1 DEF Calls
    <3> QED BY <3>1, <3>3, <3>4
  <2> HIDE DEF its
  <2>4. CallsOK' /\ OthersStay(c) /\ Shaped(c)' /\ Locked(c)' /\ call'[c] = its
    BY <1>0, <1>2, <2>1, <2>3, SentStep
  <2>5. kind \notin RowKinds
    BY DEF RowKinds
  <2> QED BY <2>3, <2>4, <2>5 DEF Knows
<1>3. ASSUME NEW d \in Callers, Repeat(c, d)
      PROVE  /\ CallsOK' /\ OthersStay(c) /\ Shaped(c)' /\ Locked(c)' /\ Knows(c)'
             /\ call'[c].step = "sent"
             /\ call'[c].kind \in RowKinds => 
                  call'[c].req \in Requests /\ request[call'[c].req].status # "none"
  <2> DEFINE its == [call[d] EXCEPT !.step = "sent", !.window = NoCall.window, !.at = 0, !.todo = {}]
  <2>1. call' = [call EXCEPT ![c] = its] /\ call[d].step # "idle"
    BY <1>3 DEF Repeat
  <2>2. NoCall.window \in [active : BOOLEAN, quota : Nat]
    BY DEF NoCall
  <2>3. call[d] \in Calls
    BY CallTypes DEF Base
  <2>4. /\ its \in Calls /\ its.step = "sent" /\ its.kind = call[d].kind /\ its.req = call[d].req
        /\ its.saw = call[d].saw /\ its.asks = call[d].asks /\ its.todo = {} /\ its.key = call[d].key
    BY <2>2, <2>3 DEF Calls
  <2> HIDE DEF its
  <2>5. Shaped(d) /\ Knows(d)
    BY DEF Base
  <2>6. CallsOK' /\ OthersStay(c) /\ Shaped(c)' /\ Locked(c)' /\ call'[c] = its
    <3>1. /\ its.kind \in {"create", "split"} => its.key \in Keys /\ its.req = None
          /\ its.kind = "edit" => its.asks # <<>>
          /\ its.asks \in Seq((SUBSET Days) \ {{}})
      BY <2>1, <2>4, <2>5 DEF Shaped
    <3> QED BY <1>0, <2>1, <2>4, <3>1, SentStep
  <2>7. Knows(c)'
    BY <1>0, <2>1, <2>4, <2>5, <2>6 DEF Knows
  <2>8. its.kind \in RowKinds => its.req \in Requests /\ request[its.req].status # "none"
    BY <2>1, <2>4, NamesARow DEF Base
  <2> QED BY <2>4, <2>6, <2>7, <2>8
<1>4. ASSUME NEW r \in Requests, request[r].status = "draft",
             NEW days \in Asks, Send(c, r, "edit", <<days>>)
      PROVE  Send(c, r, "edit", <<days>>) /\ <<days>> \in Seq((SUBSET Days) \ {{}}) /\ <<days>> # <<>>
  BY <1>4, AsksAssumption
<1>5. <<>> \in Seq((SUBSET Days) \ {{}}) /\ \A asks \in Splits : asks \in Seq((SUBSET Days) \ {{}})
  BY AsksAssumption
<1>6. \A k \in CreateKeys \cup SplitKeys : k \in Keys
  BY DEF Keys
<1>7. "edit" \in RowKinds /\ {"submit", "cancel"} \subseteq RowKinds
      /\ {"cancel", "approve", "reject"} \subseteq RowKinds
  BY DEF RowKinds
<1>8. CASE \E r \in Requests :
             /\ request[r].status = "draft"
             /\ request[r].version < MaxVersion
             /\ \E days \in Asks \ {request[r].days} : Send(c, r, "edit", <<days>>)
  BY <1>8, <1>1, <1>0, <1>4, <1>7
<1>9. CASE \E r \in Requests :
             /\ request[r].status = "draft"
             /\ \E kind \in {"submit", "cancel"} : Send(c, r, kind, <<>>)
  BY <1>9, <1>1, <1>0, <1>5, <1>7
<1>10. CASE \E r \in Requests :
             /\ request[r].status = "submitted"
             /\ \E kind \in {"cancel", "approve", "reject"} : Send(c, r, kind, <<>>)
  BY <1>10, <1>1, <1>0, <1>5, <1>7
<1>11. CASE \E days \in Asks, k \in CreateKeys : SendNew(c, "create", <<days>>, k)
  <2>1. PICK days \in Asks, k \in CreateKeys : SendNew(c, "create", <<days>>, k)
    BY <1>11
  <2>2. <<days>> \in Seq((SUBSET Days) \ {{}})
    BY AsksAssumption
  <2> QED BY <2>1, <2>2, <1>0, <1>2, <1>6
<1>12. CASE \E asks \in Splits, k \in SplitKeys : SendNew(c, "split", asks, k)
  BY <1>12, <1>0, <1>2, <1>5, <1>6
<1>13. CASE \E d \in Callers : Repeat(c, d)
  BY <1>13, <1>0, <1>3
<1> QED BY <1>8, <1>9, <1>10, <1>11, <1>12, <1>13 DEF Client

-----------------------------------------------------------------------------
(* The invariant is kept.                                                  *)

\* Nobody else's step takes from a call what its locks protect.
LEMMA OthersStayLocked ==
  ASSUME Base, \A d \in Callers : Locked(d), NEW c \in Callers, OthersStay(c),
         \A r \in Requests : RowStep(c, r), NEW d \in Callers, d # c
  PROVE  Locked(d)'
<1>1. Locked(c) /\ Locked(d)
  OBVIOUS
<1>2. /\ call'[d] = call[d]
      /\ \A r \in Requests : rowHolder'[r] = d <=> rowHolder[r] = d
      /\ \A k \in Keys : keyHolder'[k] = d <=> keyHolder[k] = d
      /\ quotaHolder' = d <=> quotaHolder = d
  BY DEF OthersStay
<1>3. ASSUME NEW r \in Requests, rowHolder[r] = d PROVE request'[r] = request[r]
  <2>1. request[r].status # "none"
    BY <1>1, <1>3 DEF Locked, HoldsNoMore
  <2>2. rowHolder[r] \notin {None, c}
    BY <1>3, NobodyIsNone
  <2>3. ~Created(c, r) /\ ~Shortened(c, r) /\ ~Moved(c, r)
    BY <2>1, <2>2 DEF Created, Shortened, Moved
  <2> QED BY <2>3 DEF RowStep, Kept
<1>4. KeepsItsRow(d)'
  <2> SUFFICES ASSUME call[d].step \in {"quota", "rows"}, call[d].kind \in RowKinds
               PROVE  /\ rowHolder'[call[d].req] = d
                      /\ request'[call[d].req].status \in AllowedFrom[call[d].kind]
                      /\ request'[call[d].req].version = call[d].saw.version
    BY <1>2 DEF KeepsItsRow
  <2>1. /\ rowHolder[call[d].req] = d
        /\ request[call[d].req].status \in AllowedFrom[call[d].kind]
        /\ request[call[d].req].version = call[d].saw.version
    BY <1>1 DEF Locked, KeepsItsRow
  <2>2. call[d].req \in Requests
    BY NamesARow DEF Base
  <2> QED BY <1>2, <1>3, <2>1, <2>2
<1>5. KeepsItsKey(d)'
  <2> SUFFICES ASSUME call[d].step \in {"insert", "quota"}, call[d].kind \in {"create", "split"}
               PROVE  keyHolder'[call[d].key] = d /\ CreatedUnder(call[d].key)' = {}
    BY <1>2 DEF KeepsItsKey, CreatedUnder
  <2> DEFINE k == call[d].key
  <2>1. keyHolder[k] = d /\ CreatedUnder(k) = {} /\ k \in Keys
    BY <1>1 DEF Locked, KeepsItsKey, Base, Shaped
  <2>2. ASSUME NEW r \in Requests, request'[r].key = k PROVE FALSE
    <3>1. request[r].key # k /\ k # None
      BY <2>1, NoneAssumption DEF CreatedUnder, Keys
    <3>2. CASE Created(c, r)
      <4>1. /\ call[c].step \in {"insert", "quota"} /\ call[c].kind \in {"create", "split"}
            /\ call[c].key = k
        BY <2>2, <3>1, <3>2 DEF Created
      <4> QED BY <1>1, <2>1, <4>1 DEF Locked, KeepsItsKey
    <3>3. CASE ~Created(c, r)
      <4>1. request'[r].key = request[r].key
        BY <3>3, <3>1, RowTypes DEF RowStep, Kept, Shortened, Moved, Base, Rows
      <4> QED BY <2>2, <3>1, <4>1
    <3> QED BY <3>2, <3>3
  <2>3. {r \in Requests : request'[r].key = k} = {}
    BY <2>2
  <2> QED BY <1>2, <2>1, <2>3 DEF CreatedUnder
<1>6. KeepsTheQuota(d)'
  <2> SUFFICES ASSUME call[d].step = "rows"
               PROVE  /\ quotaHolder' = d
                      /\ \A r \in call[d].todo :
                           rowHolder'[r] # d /\ request'[r].status \notin {"none", "draft"}
                      /\ \A r \in Requests : Waiting(r)' =>
                           r = call[d].req \/ r \in call[d].todo \/ rowHolder'[r] = d
    BY <1>2 DEF KeepsTheQuota, Waiting
  <2>1. /\ quotaHolder = d
        /\ \A r \in call[d].todo : rowHolder[r] # d /\ request[r].status \notin {"none", "draft"}
        /\ \A r \in Requests : Waiting(r) => r = call[d].req \/ r \in call[d].todo \/ rowHolder[r] = d
    BY <1>1 DEF Locked, KeepsTheQuota
  <2>2. call[d].todo \subseteq Requests
    BY CallTypes DEF Base
  <2>3. quotaHolder \notin {None, c}
    BY <2>1, NobodyIsNone
  <2>4. \A r \in Requests : request[r].status \notin {"none", "draft"} =>
          request'[r].status \notin {"none", "draft"}
    BY RowsGoOn
  <2>5. ASSUME NEW r \in Requests, Waiting(r)' PROVE Waiting(r)
    <3>1. request'[r].status = "submitted" /\ request'[r].special
      BY <2>5 DEF Waiting
    <3>2. CASE Kept(r)
      BY <3>1, <3>2 DEF Kept, Waiting
    <3>3. CASE Created(c, r)
      BY <2>3, <3>1, <3>3 DEF Created
    <3>4. CASE Shortened(c, r)
      BY <2>1, <2>3, <1>1, <3>4 DEF Shortened, Locked, KeepsTheQuota
    <3>5. CASE Moved(c, r)
      <4>1. call[c].kind = "submit"
        BY <3>1, <3>5, KindTables DEF Moved, RowKinds
      <4> QED BY <2>3, <3>1, <3>5, <4>1 DEF Moved
    <3> QED BY <3>2, <3>3, <3>4, <3>5 DEF RowStep
  <2> QED BY <1>2, <2>1, <2>2, <2>4, <2>5
<1>7. HoldsNoMore(d)'
  BY <1>1, <1>2, <1>3 DEF Locked, HoldsNoMore
<1> QED BY <1>4, <1>5, <1>6, <1>7 DEF Locked

\* What a page showed stays old or true.
LEMMA StillKnows ==
  ASSUME Base, NEW c \in Callers, \A r \in Requests : RowStep(c, r), NEW d \in Callers, Knows(d),
         call'[d].step # "idle" =>
           call[d].step # "idle" /\ call'[d].kind = call[d].kind
           /\ call'[d].req = call[d].req /\ call'[d].saw = call[d].saw
  PROVE  Knows(d)'
<1> SUFFICES ASSUME call'[d].step # "idle", call'[d].kind \in RowKinds
             PROVE  /\ call[d].saw.version <= request'[call[d].req].version
                    /\ call[d].saw.version = request'[call[d].req].version =>
                         /\ call[d].saw.days = request'[call[d].req].days
                         /\ call[d].saw.special = request'[call[d].req].special
  BY DEF Knows
<1>1. call[d].step # "idle" /\ call[d].kind \in RowKinds
  OBVIOUS
<1>2. PICK q \in Requests : q = call[d].req /\ request[q].status # "none"
  BY <1>1, NamesARow DEF Base
<1>3. /\ request[q].version <= request'[q].version
      /\ request[q].version = request'[q].version => request'[q] = request[q]
  BY <1>2, RowsGoOn
<1>4. /\ call[d].saw.version <= request[q].version
      /\ call[d].saw.version = request[q].version =>
           call[d].saw.days = request[q].days /\ call[d].saw.special = request[q].special
  BY <1>1, <1>2 DEF Knows
<1>5. request[q].version \in Nat /\ call[d].saw.version \in Nat /\ request'[q].version \in Nat
  BY <1>2, RowTypes, CallTypes, RowsGoOn DEF Base, Rows
<1> QED BY <1>2, <1>3, <1>4, <1>5

\* A step that is about call c.
Acts(c) == Serve(c) \/ Crash(c) \/ Client(c)

\* The tables stay tables of all requests, and the world outside stays.
LEMMA TablesStayTables ==
  ASSUME Base, NEW c \in Callers, Acts(c)
  PROVE  /\ request' = [r \in Requests |-> request'[r]]
         /\ absence' = [r \in Requests |-> absence'[r]]
         /\ confirmed' = [r \in Requests |-> confirmed'[r]]
         /\ window' = window /\ phase' = phase
<1>1. /\ request = [r \in Requests |-> request[r]] /\ absence = [r \in Requests |-> absence[r]]
      /\ confirmed = [r \in Requests |-> confirmed[r]]
  BY DEF Base, TypeOK
<1>2. CASE ReadOnly
  BY <1>1, <1>2 DEF ReadOnly, tables
<1>3. CASE AnswerDone(c)
  BY <1>1, <1>3 DEF AnswerDone, Confirm, tables
<1>4. CASE UpdateDraft(c)
  BY <1>1, <1>4 DEF UpdateDraft
<1>5. CASE Approve(c)
  BY <1>1, <1>5 DEF Approve, Confirm
<1>6. CASE SubmitPlainly(c)
  BY <1>1, <1>6 DEF SubmitPlainly
<1>7. CASE SubmitDraft(c)
  BY <1>1, <1>7 DEF SubmitDraft
<1>8. CASE End(c)
  BY <1>1, <1>8 DEF End, Confirm
<1>9. CASE Promote(c)
  <2>1. \E f : request' = [r \in Requests |-> f[r]]
    <3>1. PICK id : request' = [r \in Requests |->
            IF r = call[c].req THEN Ended(c)
            ELSE IF Promoted(c, r) # {} THEN ShortRow(c, r)
            ELSE IF r \in Range(id)
              THEN Remainder(c, CHOOSE q \in {q \in Requests : Promoted(c, q) # {} /\ Promoted(c, q) # request[q].days} : id[q] = r)
            ELSE request[r]]
      BY <1>9 DEF Promote, ShortRow
    <3>2. request' = [r \in Requests |-> request'[r]]
      BY <3>1
    <3> QED BY <3>2
  <2> QED BY <1>1, <1>9, <2>1 DEF Promote, Confirm
<1>10. ASSUME NEW special, InsertSegments(c, special)
       PROVE  /\ request' = [r \in Requests |-> request'[r]]
              /\ UNCHANGED <<absence, window, phase, confirmed>>
  <2>1. PICK id : request' = [r \in Requests |->
          IF r \in Range(id) THEN Segment(c, special, CHOOSE i \in DOMAIN call[c].asks : id[i] = r)
          ELSE request[r]]
    BY <1>10 DEF InsertSegments, Segment
  <2>2. request' = [r \in Requests |-> request'[r]]
    BY <2>1
  <2> QED BY <1>10, <2>2 DEF InsertSegments
<1>11. CASE InsertPlainly(c)
  BY <1>1, <1>10, <1>11 DEF InsertPlainly
<1>12. CASE SubmitSegments(c)
  BY <1>1, <1>10, <1>12 DEF SubmitSegments
<1>13. CASE ~ReadOnly
  <2>1. ~Client(c) /\ ~Crash(c)
    BY <1>13 DEF Client, Send, SendNew, Repeat, Crash, RollBack
  <2>2. Serve(c)
    BY <2>1 DEF Acts
  <2>3. /\ ~Refuse(c) /\ ~SubmitNearWindow(c) /\ ~RefuseSubmit(c)
        /\ ~EndFreeingQuota(c) /\ ~TakeQuota(c) /\ ~LockRow(c) /\ ~AnswerCreated(c)
        /\ ~BeginCreate(c) /\ ~BeginSplit(c) /\ ~RefuseSegments(c) /\ ~Victim(c)
    BY <1>13 DEF Refuse, SubmitNearWindow, RefuseSubmit, EndFreeingQuota, TakeQuota,
                 LockRow, AnswerCreated, BeginCreate, BeginSplit, RefuseSegments, Victim, RollBack
  <2> QED BY <2>2, <2>3, <1>3, <1>4, <1>5, <1>6, <1>7, <1>8, <1>9, <1>11, <1>12 DEF Serve
<1> QED BY <1>2, <1>13

\* Only what the table says by then is confirmed.
LEMMA ConfirmedStep ==
  ASSUME Base, NEW c \in Callers, Locked(c), Acts(c), NEW r \in Requests
  PROVE  \/ confirmed'[r] = confirmed[r]
         \/ /\ r = call[c].req /\ request[r].status # "none"
            /\ confirmed'[r] \subseteq confirmed[r] \cup {request'[r].status}
            /\ confirmed'[r] \subseteq Terminal
            /\ request'[r] = request[r] \/ Moved(c, r)
<1>1. confirmed \in [Requests -> SUBSET Terminal]
  BY DEF Base, TypeOK
<1>2. CASE UNCHANGED confirmed
  BY <1>2
<1>3. ASSUME call[c].req \in Requests, call[c].kind \in RowKinds \ {"edit"}, Confirm(c),
             call[c].step # "idle",
             request'[call[c].req].status = Target[call[c].kind],
             request'[call[c].req] = request[call[c].req] \/ Moved(c, call[c].req)
      PROVE  \/ confirmed'[r] = confirmed[r]
             \/ /\ r = call[c].req /\ request[r].status # "none"
                /\ confirmed'[r] \subseteq confirmed[r] \cup {request'[r].status}
                /\ confirmed'[r] \subseteq Terminal
                /\ request'[r] = request[r] \/ Moved(c, r)
  <2>1. CASE r # call[c].req
    BY <1>1, <1>3, <2>1 DEF Confirm
  <2>2. CASE r = call[c].req
    <3>1. confirmed'[r] = confirmed[r] \cup ({Target[call[c].kind]} \cap Terminal)
      BY <1>1, <1>3, <2>2 DEF Confirm
    <3>2. request[r].status # "none"
      BY <1>3, <2>2, NamesARow DEF Base
    <3> QED BY <1>1, <1>3, <2>2, <3>1, <3>2
  <2> QED BY <2>1, <2>2
<1>4. CASE AnswerDone(c)
  <2>1. call[c].kind \in RowKinds \ {"edit"} /\ call[c].step # "idle" /\ Confirm(c)
        /\ request[call[c].req].status = Target[call[c].kind] /\ request' = request
    BY <1>4 DEF AnswerDone, Locks, Done, tables
  <2>2. call[c].req \in Requests
    BY <2>1, NamesARow DEF Base
  <2> QED BY <2>1, <2>2, <1>3
<1>5. ASSUME Approve(c) \/ End(c) \/ Promote(c)
      PROVE  /\ call[c].kind \in RowKinds \ {"edit"} /\ call[c].step # "idle" /\ Confirm(c)
  BY <1>5 DEF Approve, End, Promote, MayGo, Locks, Base, Shaped, Ending, RowKinds
<1>6. CASE Approve(c) \/ End(c) \/ Promote(c)
  <2>1. PICK q \in Requests : q = call[c].req /\ request[q].status # "none"
    BY <1>5, <1>6, NamesARow DEF Base
  <2>2. RowStep(c, q)
    BY <1>6, ServeRowStep DEF Serve
  <2>3. ~Created(c, q) /\ ~Shortened(c, q)
    BY <2>1 DEF Created, Shortened
  <2>4. request'[q] # request[q]
    <3>1. CASE Approve(c)
      <4>1. request[q].version \in Nat /\ request'[q].version = request[q].version + 1
        BY <2>1, <3>1, RowTypes DEF Approve, Base, TypeOK, Rows
      <4> QED BY <4>1
    <3>2. CASE End(c)
      <4>1. request'[q] = Ended(c) /\ call[c].kind \in Ending
        BY <2>1, <3>2 DEF End, Base, TypeOK
      <4> QED BY <2>1, <4>1, EndedRow, RowTypes DEF Base
    <3>3. CASE Promote(c)
      <4>1. request'[q] = Ended(c) /\ call[c].kind \in Ending
        BY <2>1, <3>3, PromoteRows DEF Promote, Base, Shaped
      <4> QED BY <2>1, <4>1, EndedRow, RowTypes DEF Base
    <3> QED BY <1>6, <3>1, <3>2, <3>3
  <2>5. Moved(c, q)
    BY <2>2, <2>3, <2>4 DEF RowStep, Kept
  <2>6. request'[q].status = Target[call[c].kind]
    BY <1>5, <1>6, <2>5 DEF Moved
  <2> QED BY <1>3, <1>5, <1>6, <2>1, <2>5, <2>6
<1>7. CASE confirmed' # confirmed
  <2>1. ~Client(c) /\ ~Crash(c)
    BY <1>7 DEF Client, Send, SendNew, Repeat, Crash, RollBack, ReadOnly
  <2>2. Serve(c)
    BY <2>1 DEF Acts
  <2>3. /\ ~Refuse(c) /\ ~SubmitNearWindow(c) /\ ~RefuseSubmit(c)
        /\ ~EndFreeingQuota(c) /\ ~TakeQuota(c) /\ ~LockRow(c) /\ ~AnswerCreated(c)
        /\ ~BeginCreate(c) /\ ~BeginSplit(c) /\ ~RefuseSegments(c) /\ ~Victim(c)
    BY <1>7 DEF Refuse, SubmitNearWindow, RefuseSubmit, EndFreeingQuota, TakeQuota,
                LockRow, AnswerCreated, BeginCreate, BeginSplit, RefuseSegments, Victim,
                RollBack, ReadOnly
  <2>4. /\ ~UpdateDraft(c) /\ ~SubmitPlainly(c) /\ ~SubmitDraft(c)
        /\ ~InsertPlainly(c) /\ ~SubmitSegments(c)
    BY <1>7 DEF UpdateDraft, SubmitPlainly, SubmitDraft, InsertPlainly, SubmitSegments, InsertSegments
  <2> QED BY <2>2, <2>3, <2>4, <1>4, <1>6 DEF Serve
<1> QED BY <1>2, <1>7

\* Rows under a key come into being by the insertions of the call with that key.
LEMMA CreatedByInsertion ==
  ASSUME Base, NEW c \in Callers, Locked(c), Acts(c), NEW r \in Requests,
         request'[r] # request[r], request'[r].key # None, request[r].status = "none"
  PROVE  /\ call[c].step \in {"insert", "quota"} /\ call[c].kind \in {"create", "split"}
         /\ request'[r].key = call[c].key
         /\ \E special \in [DOMAIN call[c].asks -> BOOLEAN] : InsertSegments(c, special)
<1>1. Created(c, r)
  <2>1. RowStep(c, r) /\ ~Kept(r) /\ ~Shortened(c, r)
    BY ServeRowStep DEF Acts, Kept, Shortened, Waiting
  <2>2. ~Moved(c, r)
    BY KindTables DEF Moved, RowKinds
  <2> QED BY <2>1, <2>2 DEF RowStep
<1>2. /\ call[c].step \in {"insert", "quota"} /\ call[c].kind \in {"create", "split"}
      /\ request'[r].key = call[c].key
  BY <1>1 DEF Created
<1>3. request' # request
  OBVIOUS
<1>4. ~Client(c) /\ ~Crash(c)
  BY <1>3 DEF Client, Send, SendNew, Repeat, Crash, RollBack, ReadOnly, tables
<1>5. /\ ~Refuse(c) /\ ~SubmitNearWindow(c) /\ ~RefuseSubmit(c) /\ ~AnswerDone(c)
      /\ ~EndFreeingQuota(c) /\ ~TakeQuota(c) /\ ~LockRow(c) /\ ~AnswerCreated(c)
      /\ ~BeginCreate(c) /\ ~BeginSplit(c) /\ ~RefuseSegments(c) /\ ~Victim(c)
  BY <1>3 DEF Refuse, SubmitNearWindow, RefuseSubmit, EndFreeingQuota, TakeQuota, AnswerDone,
              LockRow, AnswerCreated, BeginCreate, BeginSplit, RefuseSegments, Victim,
              RollBack, ReadOnly, tables
<1>6. /\ ~UpdateDraft(c) /\ ~Approve(c) /\ ~SubmitPlainly(c) /\ ~SubmitDraft(c)
      /\ ~End(c) /\ ~Promote(c)
  BY <1>2 DEF UpdateDraft, Approve, SubmitPlainly, SubmitDraft, End, Promote, MayGo, Locks, Ending
<1>7. InsertPlainly(c) \/ SubmitSegments(c)
  BY <1>4, <1>5, <1>6 DEF Acts, Serve
<1>8. CASE InsertPlainly(c)
  <2>1. [i \in DOMAIN call[c].asks |-> FALSE] \in [DOMAIN call[c].asks -> BOOLEAN]
    OBVIOUS
  <2> QED BY <1>2, <1>8, <2>1 DEF InsertPlainly
<1>9. CASE SubmitSegments(c)
  <2>1. PICK verdict : InsertSegments(c, [i \in DOMAIN call[c].asks |-> verdict[i] = "collective"])
    BY <1>9 DEF SubmitSegments
  <2>2. [i \in DOMAIN call[c].asks |-> verdict[i] = "collective"] \in [DOMAIN call[c].asks -> BOOLEAN]
    OBVIOUS
  <2> QED BY <1>2, <2>1, <2>2
<1> QED BY <1>7, <1>8, <1>9

\* Two rows of one key come from one insertion and have different numbers.
LEMMA KeysStep ==
  ASSUME Base, KeyCreatesOnce, NEW c \in Callers, Locked(c), Acts(c)
  PROVE  KeyCreatesOnce'
<1> SUFFICES ASSUME NEW q \in Requests, NEW r \in Requests, q # r, request'[q].key # None,
                    request'[q].key = request'[r].key, request'[q].segment = request'[r].segment
             PROVE  FALSE
  BY DEF KeyCreatesOnce
<1>1. ASSUME NEW s \in Requests, request[s].status # "none"
      PROVE  request'[s].key = request[s].key /\ request'[s].segment = request[s].segment
  BY <1>1, ServeRowStep, RowsGoOn DEF Acts
<1>2. ASSUME NEW s \in Requests, NEW t \in Requests, request'[s] # request[s],
             request[s].status = "none", request'[s].key # None, request'[t].key = request'[s].key,
             request'[t] = request[t] \/ request[t].status # "none"
      PROVE  FALSE
  <2>1. /\ call[c].step \in {"insert", "quota"} /\ call[c].kind \in {"create", "split"}
        /\ request'[s].key = call[c].key
    BY <1>2, CreatedByInsertion
  <2>2. request[t].key = call[c].key
    BY <1>1, <1>2, <2>1
  <2>3. CreatedUnder(call[c].key) = {}
    BY <2>1 DEF Locked, KeepsItsKey
  <2> QED BY <2>2, <2>3 DEF CreatedUnder
<1>3. CASE request'[q] # request[q] /\ request[q].status = "none"
  <2>1. request'[r] # request[r] /\ request[r].status = "none"
    BY <1>2, <1>3
  <2>2. PICK special \in [DOMAIN call[c].asks -> BOOLEAN] : InsertSegments(c, special)
    BY <1>3, CreatedByInsertion
  <2>3. call[c].kind \in {"create", "split"} /\ call[c].step # "idle"
    BY <1>3, CreatedByInsertion
  <2> QED BY <1>3, <2>1, <2>2, <2>3, SegmentsDiffer
<1>4. CASE ~(request'[q] # request[q] /\ request[q].status = "none")
  <2>1. ~(request'[r] # request[r] /\ request[r].status = "none")
    BY <1>2, <1>4
  <2>2. /\ request[q].key = request'[q].key /\ request[q].segment = request'[q].segment
        /\ request[r].key = request'[r].key /\ request[r].segment = request'[r].segment
    BY <1>1, <1>4, <2>1
  <2> QED BY <2>2 DEF KeyCreatesOnce
<1> QED BY <1>3, <1>4

\* The calendar changes with an approval only, and approved rows stay.
LEMMA CalendarStep ==
  ASSUME Base, CalendarMatches, NEW c \in Callers, \A r \in Requests : RowStep(c, r)
  PROVE  CalendarMatches'
<1> SUFFICES ASSUME NEW r \in Requests
             PROVE  absence'[r] = IF request'[r].status = "approved" THEN request'[r].days ELSE {}
  BY DEF CalendarMatches
<1>1. absence[r] = IF request[r].status = "approved" THEN request[r].days ELSE {}
  BY DEF CalendarMatches
<1>2. CASE Kept(r)
  BY <1>1, <1>2 DEF Kept
<1>3. CASE Created(c, r)
  BY <1>1, <1>3 DEF Created
<1>4. CASE Shortened(c, r)
  <2>1. request[r].status = "submitted" /\ absence'[r] = absence[r]
    BY <1>4 DEF Shortened, Waiting
  <2>2. request'[r].status = "submitted"
    BY <1>4, <2>1, RowTypes DEF Shortened, Base, Rows
  <2> QED BY <1>1, <2>1, <2>2
<1>5. CASE Moved(c, r)
  <2>1. call[c].kind \in RowKinds /\ request[r].status \in {"draft", "submitted"}
    BY <1>5, KindTables DEF Moved, RowKinds
  <2>2. CASE call[c].kind = "approve"
    BY <1>1, <1>5, <2>1, <2>2, KindTables DEF Moved
  <2>3. CASE call[c].kind # "approve"
    BY <1>1, <1>5, <2>1, <2>3, KindTables DEF Moved, RowKinds
  <2> QED BY <2>2, <2>3
<1> QED BY <1>2, <1>3, <1>4, <1>5 DEF RowStep

\* A status that was confirmed is terminal and stays.
LEMMA AnswersStep ==
  ASSUME Base, AnswerStands, NEW c \in Callers, Locked(c), Acts(c)
  PROVE  AnswerStands'
<1> SUFFICES ASSUME NEW r \in Requests
             PROVE  confirmed'[r] \subseteq {request'[r].status}
  BY DEF AnswerStands
<1>1. confirmed[r] \subseteq {request[r].status} /\ confirmed[r] \subseteq Terminal
  BY DEF AnswerStands, Base, TypeOK
<1>2. RowStep(c, r)
  BY ServeRowStep DEF Acts
<1>3. request[r].status \notin Terminal => confirmed[r] = {}
  BY <1>1
<1>4. confirmed[r] \subseteq {request'[r].status}
  <2>1. CASE Kept(r)
    BY <1>1, <2>1 DEF Kept
  <2>2. CASE Created(c, r)
    BY <1>3, <2>2 DEF Created, Terminal
  <2>3. CASE Shortened(c, r)
    BY <1>3, <2>3 DEF Shortened, Waiting, Terminal
  <2>4. CASE Moved(c, r)
    <3>1. request[r].status \in {"draft", "submitted"}
      BY <2>4, KindTables DEF Moved, RowKinds
    <3> QED BY <1>3, <3>1 DEF Terminal
  <2> QED BY <1>2, <2>1, <2>2, <2>3, <2>4 DEF RowStep
<1> QED BY <1>4, ConfirmedStep

\* The steps of the calls keep the invariant ...
LEMMA ActsKeepsInv ==
  ASSUME Inv, NEW c \in Callers, Acts(c)
  PROVE  Inv'
<1>1. Base /\ \A d \in Callers : Locked(d) /\ Knows(d)
  BY DEF Inv
<1>2. \A r \in Requests : RowStep(c, r)
  BY <1>1, ServeRowStep DEF Acts
<1>3. /\ CallsOK' /\ OthersStay(c) /\ Shaped(c)' /\ Locked(c)' /\ Knows(c)'
      /\ call'[c].step # "idle" /\ call'[c].kind \in RowKinds =>
           call'[c].req \in Requests /\ request[call'[c].req].status # "none"
  <2>1. CASE Client(c)
    BY <1>1, <2>1, ClientStep
  <2>2. CASE Serve(c) \/ Crash(c)
    <3>1. CallStep(c)
      BY <1>1, <2>2, ServeStep
    <3>2. Knows(c)'
      BY <1>1, <1>2, <3>1, StillKnows DEF CallStep, KeepsItsQuestion
    <3>3. call'[c].step # "idle" /\ call'[c].kind \in RowKinds =>
           call'[c].req \in Requests /\ request[call'[c].req].status # "none"
      BY <1>1, <3>1, NamesARow DEF CallStep, KeepsItsQuestion, Base
    <3> QED BY <3>1, <3>2, <3>3 DEF CallStep
  <2> QED BY <2>1, <2>2 DEF Acts
<1>4. \A r \in Requests : request'[r] \in Rows /\ absence'[r] \subseteq Days /\ RowShaped(r)'
  BY <1>1, <1>2, RowsGoOn
<1>5. \A r \in Requests : confirmed'[r] \subseteq Terminal
  BY <1>1, ConfirmedStep DEF Base, TypeOK
<1>6. /\ request' = [r \in Requests |-> request'[r]] /\ absence' = [r \in Requests |-> absence'[r]]
      /\ confirmed' = [r \in Requests |-> confirmed'[r]] /\ window' = window /\ phase' = phase
  BY <1>1, TablesStayTables
<1>7. /\ request' \in [Requests -> Rows] /\ absence' \in [Requests -> SUBSET Days]
      /\ confirmed' \in [Requests -> SUBSET Terminal]
  BY <1>4, <1>5, <1>6
<1>8. \A d \in Callers : d # c => call'[d] = call[d]
  BY <1>3 DEF OthersStay
<1>9. ASSUME NEW d \in Callers, call'[d].step # "idle", call'[d].kind \in RowKinds
      PROVE  call'[d].req # None /\ request'[call'[d].req].status # "none"
  <2>1. call'[d].req \in Requests /\ request[call'[d].req].status # "none"
    BY <1>1, <1>3, <1>8, <1>9, NamesARow DEF Base
  <2> QED BY <1>1, <1>2, <2>1, RowsGoOn, NoneAssumption
<1>10. TypeOK'
  BY <1>1, <1>3, <1>6, <1>7, <1>9 DEF Base, TypeOK, CallsOK
<1>11. \A d \in Callers : Shaped(d)'
  BY <1>1, <1>3, <1>8 DEF Base, Shaped
<1>12. \A d \in Callers : Locked(d)'
  BY <1>1, <1>2, <1>3, OthersStayLocked
<1>13. \A d \in Callers : Knows(d)'
  <2> SUFFICES ASSUME NEW d \in Callers, d # c PROVE Knows(d)'
    BY <1>3
  <2> QED BY <1>1, <1>2, <1>8, StillKnows
<1>14. AnswerStands' /\ CalendarMatches' /\ KeyCreatesOnce'
  BY <1>1, <1>2, AnswersStep, CalendarStep, KeysStep DEF Inv
<1> QED BY <1>4, <1>10, <1>11, <1>12, <1>13, <1>14 DEF Inv, Base

\* ... and so do those of the administrators and the clock.
LEMMA WorldKeepsInv ==
  ASSUME Inv, UpdateWindow \/ Archive \/ DayPasses \/ UNCHANGED vars
  PROVE  Inv'
<1>1. UNCHANGED <<request, absence, call, confirmed, rowHolder, quotaHolder, keyHolder>>
  BY DEF UpdateWindow, Archive, ChangeWindow, DayPasses, vars, tables, locks
<1>2. window' \in [active : BOOLEAN, quota : Quotas, version : Nat] /\ phase' \in 1..Len(Phases)
  <2>1. window \in [active : BOOLEAN, quota : Quotas, version : Nat] /\ phase \in 1..Len(Phases)
    BY DEF Inv, Base, TypeOK
  <2>2. Len(Phases) \in Nat
    BY DEF Phases
  <2>3. ASSUME NEW active \in BOOLEAN, NEW quota \in Quotas, ChangeWindow(active, quota)
        PROVE  window' \in [active : BOOLEAN, quota : Quotas, version : Nat] /\ phase' = phase
    BY <2>1, <2>3 DEF ChangeWindow
  <2>4. CASE UpdateWindow
    BY <2>1, <2>3, <2>4 DEF UpdateWindow
  <2>5. CASE Archive
    BY <2>1, <2>3, <2>5 DEF Archive
  <2>6. CASE DayPasses
    BY <2>1, <2>2, <2>6 DEF DayPasses
  <2>7. CASE UNCHANGED vars
    BY <2>1, <2>7 DEF vars
  <2> QED BY <2>4, <2>5, <2>6, <2>7
<1>3. TypeOK'
  BY <1>1, <1>2 DEF Inv, Base, TypeOK
<1>4. /\ \A c \in Callers : Shaped(c)'
      /\ \A r \in Requests : RowShaped(r)'
  BY <1>1 DEF Inv, Base, Shaped, RowShaped
<1>5. \A c \in Callers : KeepsItsRow(c)' /\ KeepsItsKey(c)' /\ HoldsNoMore(c)'
  BY <1>1 DEF Inv, Locked, KeepsItsRow, KeepsItsKey, HoldsNoMore, CreatedUnder
<1>6. \A c \in Callers : KeepsTheQuota(c)' /\ Knows(c)'
  BY <1>1 DEF Inv, Locked, KeepsTheQuota, Knows, Waiting
<1>7. AnswerStands' /\ CalendarMatches' /\ KeyCreatesOnce'
  BY <1>1 DEF Inv, AnswerStands, CalendarMatches, KeyCreatesOnce
<1> QED BY <1>3, <1>4, <1>5, <1>6, <1>7 DEF Inv, Base, Locked

\* The invariant holds at the start, ...
LEMMA InitInv == Init => Inv
<1> SUFFICES ASSUME Init PROVE Inv
  OBVIOUS
<1>1. NoRequest \in Rows /\ NoCall \in Calls
  <2>1. NoRequest \in Rows
    BY DEF NoRequest, Rows, Statuses
  <2>2. NoCall \in Calls
    BY DEF NoCall, Calls, RowKinds
  <2> QED BY <2>1, <2>2
<1>2. window \in [active : BOOLEAN, quota : Quotas, version : Nat] /\ phase \in 1..Len(Phases)
  <2>1. window \in [active : BOOLEAN, quota : Quotas, version : Nat]
    <3>1. window \in [active : {TRUE}, quota : Quotas, version : {1}]
      BY DEF Init
    <3>2. {TRUE} \subseteq BOOLEAN /\ {1} \subseteq Nat
      OBVIOUS
    <3>3. window = [active |-> window.active, quota |-> window.quota, version |-> window.version]
      BY <3>1
    <3>4. window.active \in BOOLEAN /\ window.quota \in Quotas /\ window.version \in Nat
      BY <3>1, <3>2
    <3> QED BY <3>3, <3>4
  <2>2. Len(Phases) = 4
    BY DEF Phases
  <2>3. phase \in 1..4
    BY NumbersAssumption DEF Init
  <2> QED BY <2>1, <2>2, <2>3
<1>3. /\ \A c \in Callers : call[c] = NoCall
      /\ \A r \in Requests : request[r] = NoRequest /\ absence[r] = {} /\ confirmed[r] = {}
      /\ \A r \in Requests : rowHolder[r] = None
      /\ \A k \in Keys : keyHolder[k] = None
      /\ quotaHolder = None
  BY DEF Init
<1>4. /\ NoCall.step = "idle" /\ NoCall.todo = {} /\ NoCall.asks = <<>>
      /\ NoRequest.status = "none" /\ NoRequest.key = None /\ NoRequest.special = FALSE
  BY DEF NoCall, NoRequest
<1>5. TypeOK
  <2>1. /\ request \in [Requests -> Rows] /\ absence \in [Requests -> SUBSET Days]
        /\ call \in [Callers -> Calls] /\ confirmed \in [Requests -> SUBSET Terminal]
    BY <1>1 DEF Init
  <2>2. /\ rowHolder \in [Requests -> Callers \cup {None}]
        /\ quotaHolder \in Callers \cup {None}
        /\ keyHolder \in [Keys -> Callers \cup {None}]
    BY DEF Init
  <2> QED BY <1>2, <1>3, <1>4, <2>1, <2>2 DEF TypeOK
<1>6. \A c \in Callers : Shaped(c)
  <2>1. <<>> \in Seq((SUBSET Days) \ {{}})
    OBVIOUS
  <2> QED BY <1>3, <1>4, <2>1 DEF Shaped
<1>7. \A r \in Requests : RowShaped(r)
  BY <1>3, <1>4 DEF RowShaped
<1>8. \A c \in Callers : Locked(c) /\ Knows(c)
  BY <1>3, <1>4, NobodyIsNone
     DEF Locked, Knows, KeepsItsRow, KeepsItsKey, KeepsTheQuota, HoldsNoMore
<1>9. AnswerStands /\ CalendarMatches /\ KeyCreatesOnce
  BY <1>3, <1>4 DEF AnswerStands, CalendarMatches, KeyCreatesOnce
<1> QED BY <1>5, <1>6, <1>7, <1>8, <1>9 DEF Inv, Base

\* ... every step keeps it, ...
LEMMA NextInv == Inv /\ [Next]_vars => Inv'
<1> SUFFICES ASSUME Inv, [Next]_vars PROVE Inv'
  OBVIOUS
<1>1. CASE \E c \in Callers : Serve(c) \/ Client(c) \/ Crash(c)
  BY <1>1, ActsKeepsInv DEF Acts
<1>2. CASE UpdateWindow \/ Archive \/ DayPasses \/ UNCHANGED vars
  BY <1>2, WorldKeepsInv
<1> QED BY <1>1, <1>2 DEF Next

\* ... and so it always holds.
LEMMA InvHolds == Spec => []Inv
<1> QED BY InitInv, NextInv, PTL DEF Spec

-----------------------------------------------------------------------------
(* The theorems.                                                           *)

\* The tables and the calls keep their shape, whatever runs at the same time.
THEOREM AbsenceTypes == Spec => []TypeOK
<1>1. Inv => TypeOK
  BY DEF Inv, Base
<1> QED BY <1>1, InvHolds, PTL

\* An ending a client was told of stays what the table says.
THEOREM AnswersStand == Spec => []AnswerStands
<1>1. Inv => AnswerStands
  BY DEF Inv
<1> QED BY <1>1, InvHolds, PTL

\* The calendar is that of the approved requests.
THEOREM CalendarHolds == Spec => []CalendarMatches
<1>1. Inv => CalendarMatches
  BY DEF Inv
<1> QED BY <1>1, InvHolds, PTL

\* No key creates one of its segments twice.
THEOREM KeysCreateOnce == Spec => []KeyCreatesOnce
<1>1. Inv => KeyCreatesOnce
  BY DEF Inv
<1> QED BY <1>1, InvHolds, PTL

\* A call of a circle holds a lock and waits for one; only calls that end a
\* request hold the quota or a row others wait for while they wait themselves.
LEMMA CirclesOfEndings == Inv => VictimsAreEndings
<1> SUFFICES ASSUME Inv, NEW c \in Callers, NEW S \in SUBSET Callers,
                    c \in S, {Blocker(d) : d \in S} = S
             PROVE  call[c].kind \in Ending
  BY DEF VictimsAreEndings, OnCycle
<1>1. \A d \in Callers : Locked(d) /\ Shaped(d)
  BY DEF Inv, Base
<1>2. \A d \in S : Blocker(d) \in S /\ Blocker(d) # None /\ d \in Callers
  BY NobodyIsNone
<1>3. \A e \in S : \E d \in S : Blocker(d) = e
  OBVIOUS
<1>4. ASSUME NEW d \in S PROVE call[d].step \in {"sent", "quota", "rows"}
  <2>1. call[d].step \in {"idle", "sent", "insert", "quota", "rows"} /\ Shaped(d)
    BY <1>1, CallTypes DEF Inv, Base
  <2>2. call[d].step \in {"idle", "insert"} => Blocker(d) = None
    BY <2>1 DEF Blocker, Shaped
  <2> QED BY <1>2, <2>1, <2>2
<1>5. ASSUME NEW d \in S PROVE call[d].step \in {"quota", "rows"}
  <2>1. PICK e \in S : Blocker(e) = d
    BY <1>3
  <2>2. e \in Callers /\ call[e].step \in {"sent", "quota", "rows"} /\ Locked(d)
    BY <1>1, <1>4
  <2>3. CASE call[e].step = "sent" /\ call[e].kind \in RowKinds
    <3>1. call[e].req \in Requests /\ rowHolder[call[e].req] = d
      BY <2>1, <2>3, NamesARow DEF Blocker, Inv, Base
    <3> QED BY <2>2, <3>1 DEF Locked, HoldsNoMore
  <2>4. CASE call[e].step = "sent" /\ call[e].kind \notin RowKinds
    <3>1. call[e].kind \in {"create", "split"}
      BY <2>4, CallTypes DEF Inv, Base
    <3>2. call[e].key \in Keys /\ keyHolder[call[e].key] = d
      BY <1>1, <2>1, <2>4, <3>1 DEF Blocker, Shaped
    <3>3. call[d].step \in {"insert", "quota"}
      BY <2>2, <3>2 DEF Locked, HoldsNoMore
    <3> QED BY <1>4, <3>3
  <2>5. CASE call[e].step = "quota"
    <3>1. quotaHolder = d
      BY <2>1, <2>5 DEF Blocker
    <3> QED BY <2>2, <3>1 DEF Locked, HoldsNoMore
  <2>6. CASE call[e].step = "rows"
    <3>1. call[e].todo # {} /\ rowHolder[NextRow(call[e].todo)] = d
      BY <1>2, <2>1, <2>6 DEF Blocker
    <3>2. NextRow(call[e].todo) \in Requests
      BY <3>1, CallTypes, NextRowIsThere DEF Inv, Base
    <3> QED BY <2>2, <3>1, <3>2 DEF Locked, HoldsNoMore
  <2> QED BY <2>2, <2>3, <2>4, <2>5, <2>6
<1>6. CASE call[c].step = "rows"
  BY <1>1, <1>6 DEF Shaped
<1>7. CASE call[c].step = "quota"
  <2>1. PICK e \in S : e = quotaHolder
    BY <1>2, <1>7 DEF Blocker
  <2>2. e \in Callers /\ call[e].step = "rows"
    BY <1>1, <2>1 DEF Locked, HoldsNoMore
  <2>3. PICK d \in S : Blocker(d) = c
    BY <1>3
  <2>4. d = e
    <3>1. c # e
      BY <1>7, <2>2
    <3>2. call[d].step # "quota"
      BY <2>1, <2>3, <3>1 DEF Blocker
    <3>3. call[d].step = "rows" /\ d \in Callers
      BY <1>5, <3>2
    <3> QED BY <1>1, <2>1, <3>3 DEF Locked, KeepsTheQuota
  <2>5. /\ call[e].todo # {} /\ rowHolder[NextRow(call[e].todo)] = c
    BY <1>2, <2>2, <2>3, <2>4 DEF Blocker
  <2>6. PICK r \in call[e].todo : r = NextRow(call[e].todo)
    BY <2>2, <2>5, CallTypes, NextRowIsThere DEF Inv, Base
  <2>7. r \in Requests /\ rowHolder[r] = c
    BY <2>2, <2>5, <2>6, CallTypes DEF Inv, Base
  <2>8. request[r].status \notin {"none", "draft"}
    BY <1>1, <2>2, <2>6 DEF Locked, KeepsTheQuota
  <2>9. call[c].kind \in RowKinds /\ r = call[c].req
    BY <1>1, <1>7, <2>7 DEF Locked, HoldsNoMore
  <2>10. request[r].status \in AllowedFrom[call[c].kind]
    BY <1>1, <1>7, <2>9 DEF Locked, KeepsItsRow
  <2>11. call[c].kind # "submit"
    BY <2>8, <2>10, KindTables
  <2> QED BY <1>1, <1>7, <2>9, <2>11 DEF Shaped, RowKinds
<1> QED BY <1>5, <1>6, <1>7

\* Only cancellations and rejections can be rolled back by the database for
\* waiting in a circle: creations and submissions never are.
THEOREM OnlyEndingsAreVictims == Spec => []VictimsAreEndings
<1> QED BY CirclesOfEndings, InvHolds, PTL

\* A row changes with the answer to a call that was under way.
LEMMA ChangesWithAnAnswer ==
  ASSUME Inv, NEW c \in Callers, Acts(c), request' # request
  PROVE  /\ Serve(c) /\ call[c].step # "idle" /\ call'[c] = NoCall /\ call'[c] # call[c]
         /\ call[c].step = "rows" => Promote(c)
         /\ \/ UpdateDraft(c) \/ Approve(c) \/ SubmitPlainly(c) \/ SubmitDraft(c) \/ End(c)
            \/ Promote(c) \/ InsertPlainly(c) \/ SubmitSegments(c)
<1>1. ~Client(c) /\ ~Crash(c)
  BY DEF Client, Send, SendNew, Repeat, Crash, RollBack, ReadOnly, tables
<1>2. /\ ~Refuse(c) /\ ~SubmitNearWindow(c) /\ ~RefuseSubmit(c) /\ ~AnswerDone(c)
      /\ ~EndFreeingQuota(c) /\ ~TakeQuota(c) /\ ~LockRow(c) /\ ~AnswerCreated(c)
      /\ ~BeginCreate(c) /\ ~BeginSplit(c) /\ ~RefuseSegments(c) /\ ~Victim(c)
  BY DEF Refuse, SubmitNearWindow, RefuseSubmit, EndFreeingQuota, TakeQuota, AnswerDone,
         LockRow, AnswerCreated, BeginCreate, BeginSplit, RefuseSegments, Victim,
         RollBack, ReadOnly, tables
<1>3. \/ UpdateDraft(c) \/ Approve(c) \/ SubmitPlainly(c) \/ SubmitDraft(c) \/ End(c)
      \/ Promote(c) \/ InsertPlainly(c) \/ SubmitSegments(c)
  BY <1>1, <1>2 DEF Acts, Serve
<1>4. call[c].step # "idle" /\ (call[c].step = "rows" => Promote(c)) /\ Answer(c)
  BY <1>3 DEF UpdateDraft, Approve, SubmitPlainly, SubmitDraft, End, Promote, InsertPlainly,
              SubmitSegments, MayGo, Locks
<1>5. call'[c] = NoCall
  BY <1>4, AnswerStep DEF Inv
<1> QED BY <1>1, <1>3, <1>4, <1>5 DEF Acts, NoCall

\* Only the call about a request changes its status, at the version its page showed.
LEMMA SeenStep ==
  ASSUME Inv, NEW c \in Callers, Acts(c), NEW r \in Requests,
         request[r].status # "none", request'[r].status # request[r].status
  PROVE  /\ call[c].req = r /\ call'[c] # call[c]
         /\ call[c].saw.days = request[r].days /\ call[c].saw.special = request[r].special
<1>1. Base /\ Locked(c) /\ Knows(c)
  BY DEF Inv
<1>2. call[c].step # "idle" /\ call'[c] # call[c]
  BY ChangesWithAnAnswer
<1>3. RowStep(c, r) /\ ~Kept(r) /\ ~Created(c, r)
  BY <1>1, ServeRowStep DEF Acts, Kept, Created
<1>4. ~Shortened(c, r)
  BY <1>1, RowTypes DEF Shortened, Base, Rows
<1>5. Moved(c, r)
  BY <1>3, <1>4 DEF RowStep
<1>6. call[c].req = r /\ call[c].kind \in RowKinds /\ request[r].version = call[c].saw.version
  BY <1>5 DEF Moved
<1> QED BY <1>1, <1>2, <1>6 DEF Knows

\* A request changes status only by a call whose page showed it as it is.
THEOREM SeenBeforeDone == Spec => ActsOnWhatWasSeen
<1> DEFINE A == \A r \in Requests :
       request[r].status # "none" /\ request'[r].status # request[r].status =>
         \E c \in Callers :
           /\ call[c].req = r /\ call'[c] # call[c]
           /\ call[c].saw.days = request[r].days
           /\ call[c].saw.special = request[r].special
<1>1. Inv /\ [Next]_vars => A
  <2> SUFFICES ASSUME Inv, [Next]_vars PROVE A
    OBVIOUS
  <2>1. CASE \E c \in Callers : Serve(c) \/ Client(c) \/ Crash(c)
    BY <2>1, SeenStep DEF Acts
  <2>2. CASE UpdateWindow \/ Archive \/ DayPasses \/ UNCHANGED vars
    <3>1. request' = request
      BY <2>2 DEF UpdateWindow, Archive, ChangeWindow, DayPasses, vars, tables
    <3> QED BY <3>1
  <2> QED BY <2>1, <2>2 DEF Next
<1> QED BY <1>1, InvHolds, PTL DEF Spec, ActsOnWhatWasSeen

\* What a promotion cuts off goes to its remainder.
LEMMA NoDateStep ==
  ASSUME Inv, NEW c \in Callers, Acts(c), NEW r \in Requests,
         request[r].status = "submitted", request'[r].days # request[r].days
  PROVE  \E n \in Requests :
           /\ request[n].status = "none" /\ request'[n].status = "submitted" /\ request'[n].special
           /\ request'[n].at = request[r].at
           /\ request'[n].days = request[r].days \ request'[r].days
<1>1. Base /\ Locked(c)
  BY DEF Inv
<1>2. ~Moved(c, r)
  BY KindTables DEF Moved, RowKinds
<1>3. Shortened(c, r)
  BY <1>1, <1>2, ServeRowStep DEF Acts, RowStep, Kept, Created
<1>4. Promote(c)
  BY <1>3, ChangesWithAnAnswer DEF Shortened
<1>5. r # call[c].req /\ Waiting(r) /\ request[r].special
  BY <1>3 DEF Shortened, Waiting
<1>6. Promoted(c, r) # {}
  BY <1>1, <1>4, <1>5, PromoteRows
<1>7. request'[r] = ShortRow(c, r)
  BY <1>1, <1>4, <1>5, <1>6, PromoteRows
<1>8. request'[r].days = Promoted(c, r)
  BY <1>1, <1>7, RowTypes DEF ShortRow, Base, Rows
<1>9. PICK n \in Requests : request[n].status = "none" /\ request'[n] = Remainder(c, r)
  BY <1>1, <1>4, <1>6, <1>8, PromoteRows
<1>10. PICK days \in SUBSET Days : days = request[r].days \ Promoted(c, r)
  BY <1>1, RowTypes DEF Base
<1>11. request[r] \in Rows
  BY <1>1, RowTypes DEF Base
<1>12. Remainder(c, r) = Replaced(request[r], days, 1, None, 0)
  BY <1>10, <1>11 DEF Remainder, Replaced, Rows
<1>13. /\ request'[n].status = "submitted" /\ request'[n].special = request[r].special
       /\ request'[n].at = request[r].at /\ request'[n].days = days
  BY <1>9, <1>10, <1>11, <1>12, ReplacedRow
<1> QED BY <1>5, <1>8, <1>9, <1>10, <1>13

\* A submitted request loses dates only to a new one that waits with them.
THEOREM NoDateLost == Spec => NoDateIsLost
<1> DEFINE A == \A r \in Requests :
       request[r].status = "submitted" /\ request'[r].days # request[r].days =>
         \E n \in Requests :
           /\ request[n].status = "none" /\ request'[n].status = "submitted" /\ request'[n].special
           /\ request'[n].at = request[r].at
           /\ request'[n].days = request[r].days \ request'[r].days
<1>1. Inv /\ [Next]_vars => A
  <2> SUFFICES ASSUME Inv, [Next]_vars PROVE A
    OBVIOUS
  <2>1. CASE \E c \in Callers : Serve(c) \/ Client(c) \/ Crash(c)
    BY <2>1, NoDateStep DEF Acts
  <2>2. CASE UpdateWindow \/ Archive \/ DayPasses \/ UNCHANGED vars
    <3>1. request' = request
      BY <2>2 DEF UpdateWindow, Archive, ChangeWindow, DayPasses, vars, tables
    <3> QED BY <3>1
  <2> QED BY <2>1, <2>2 DEF Next
<1> QED BY <1>1, InvHolds, PTL DEF Spec, NoDateIsLost

\* The lines a reclassification chooses from, and the days that count for it.
Lines(c) ==
  UNION {{<<r, d>> : d \in Inside(request[r].days)} :
    r \in {q \in Requests \ {call[c].req} : rowHolder[q] = c /\ Active(q) /\ Waiting(q)}}

\* The dates it counts against the quota.
UseOfHeld(c) ==
  UNION {Inside(request[r].days) :
    r \in {q \in Requests \ {call[c].req} : rowHolder[q] = c /\ Active(q) /\ ~request[q].special}}

\* The lines that come before one of them.
LinesBefore(c, x) == {y \in Lines(c) : Before(y, x)}

\* A line is chosen when there is room for it after those before it.
LEMMA ChosenLines ==
  ASSUME NEW c, NEW x
  PROVE  x \in Chosen(c) <=>
           /\ x \in Lines(c)
           /\ Cardinality(LinesBefore(c, x)) < Room(call[c].window.quota, UseOfHeld(c))
<1>1. {r \in {q \in Requests \ {call[c].req} : rowHolder[q] = c /\ Active(q)} : Waiting(r)}
      = {q \in Requests \ {call[c].req} : rowHolder[q] = c /\ Active(q) /\ Waiting(q)}
  OBVIOUS
<1>2. {r \in {q \in Requests \ {call[c].req} : rowHolder[q] = c /\ Active(q)} : ~request[r].special}
      = {q \in Requests \ {call[c].req} : rowHolder[q] = c /\ Active(q) /\ ~request[q].special}
  OBVIOUS
<1>3. Chosen(c) = {z \in Lines(c) :
        Cardinality({y \in Lines(c) : Before(y, z)}) < Room(call[c].window.quota, UseOfHeld(c))}
  BY <1>1, <1>2, Zenon DEF Chosen, Lines, UseOfHeld
<1> QED BY <1>3 DEF LinesBefore

\* Every date of a waiting request the call holds is a line.
LEMMA LineOf ==
  ASSUME Base, NEW c \in Callers, NEW r, NEW d
  PROVE  <<r, d>> \in Lines(c) <=>
           /\ r \in Requests /\ r # call[c].req /\ rowHolder[r] = c /\ Waiting(r)
           /\ d \in request[r].days
<1>1. \A q \in Requests : Waiting(q) => Active(q) /\ Inside(request[q].days) = request[q].days
  BY DEF Waiting, Active, Inside, Base, RowShaped
<1>2. ASSUME <<r, d>> \in Lines(c)
      PROVE  /\ r \in Requests /\ r # call[c].req /\ rowHolder[r] = c /\ Waiting(r)
             /\ d \in request[r].days
  <2>1. PICK q \in {q \in Requests \ {call[c].req} : rowHolder[q] = c /\ Active(q) /\ Waiting(q)} :
          <<r, d>> \in {<<q, e>> : e \in Inside(request[q].days)}
    BY <1>2 DEF Lines
  <2>2. q = r /\ d \in Inside(request[q].days)
    BY <2>1
  <2> QED BY <1>1, <2>1, <2>2
<1>3. ASSUME r \in Requests, r # call[c].req, rowHolder[r] = c, Waiting(r), d \in request[r].days
      PROVE  <<r, d>> \in Lines(c)
  <2>1. r \in {q \in Requests \ {call[c].req} : rowHolder[q] = c /\ Active(q) /\ Waiting(q)}
        /\ d \in Inside(request[r].days)
    BY <1>1, <1>3
  <2>2. <<r, d>> \in {<<r, e>> : e \in Inside(request[r].days)}
    BY <2>1
  <2> QED BY <2>1, <2>2 DEF Lines
<1> QED BY <1>2, <1>3

\* Lines are requests with dates, ...
LEMMA LinesArePairs ==
  ASSUME Base, NEW c \in Callers
  PROVE  Lines(c) \subseteq Requests \X Days
<1> SUFFICES ASSUME NEW x \in Lines(c) PROVE x \in Requests \X Days
  OBVIOUS
<1>1. PICK q \in {q \in Requests \ {call[c].req} : rowHolder[q] = c /\ Active(q) /\ Waiting(q)} :
        x \in {<<q, e>> : e \in Inside(request[q].days)}
  BY DEF Lines
<1>2. PICK e \in Inside(request[q].days) : x = <<q, e>>
  BY <1>1
<1> QED BY <1>1, <1>2, RowTypes DEF Inside, Base

\* ... finitely many, ...
LEMMA LinesFinite ==
  ASSUME Base, NEW c \in Callers
  PROVE  IsFiniteSet(Lines(c)) /\ \A x : IsFiniteSet(LinesBefore(c, x))
<1>1. IsFiniteSet(Requests \X Days)
  BY FS_Product, NumbersAssumption
<1>2. IsFiniteSet(Lines(c))
  BY <1>1, LinesArePairs, FS_Subset
<1>3. ASSUME NEW x PROVE IsFiniteSet(LinesBefore(c, x))
  <2>1. LinesBefore(c, x) \in SUBSET Lines(c)
    BY DEF LinesBefore
  <2> QED BY <1>2, <2>1, FS_Subset
<1> QED BY <1>2, <1>3

\* ... and so are the dates in use.
LEMMA UseFinite ==
  ASSUME Base, NEW c \in Callers
  PROVE  /\ UseOfHeld(c) \subseteq Days /\ IsFiniteSet(UseOfHeld(c))
         /\ Room(call[c].window.quota, UseOfHeld(c)) \in Nat
<1>1. UseOfHeld(c) \subseteq Days
  <2>1. \A r \in Requests : Inside(request[r].days) \subseteq Days
    BY RowTypes DEF Inside, Base
  <2> QED BY <2>1 DEF UseOfHeld
<1>2. IsFiniteSet(UseOfHeld(c))
  BY <1>1, FS_Subset, NumbersAssumption
<1>3. Cardinality(UseOfHeld(c)) \in Nat
  BY <1>2, FS_CardinalityType
<1>4. call[c].window.quota \in Nat
  BY CallTypes DEF Base
<1> QED BY <1>1, <1>2, <1>3, <1>4 DEF Room

\* The order of the lines is strict and total.
LEMMA BeforeOrders ==
  ASSUME TypeOK, NEW q \in Requests, NEW r \in Requests, NEW d \in Days, NEW e \in Days
  PROVE  /\ <<q, d>> # <<r, e>> => Before(<<q, d>>, <<r, e>>) \/ Before(<<r, e>>, <<q, d>>)
         /\ ~Before(<<q, d>>, <<q, d>>)
         /\ \A s \in Requests, f \in Days :
              Before(<<q, d>>, <<r, e>>) /\ Before(<<r, e>>, <<s, f>>) => Before(<<q, d>>, <<s, f>>)
<1>1. \A i, j \in Requests, k, l \in Days :
        Before(<<i, k>>, <<j, l>>) <=> Earlier(i, j) \/ (i = j /\ k < l)
  BY DEF Before
<1>2. Days \subseteq Nat
  BY NumbersAssumption
<1> HIDE DEF Before
<1>3. <<q, d>> # <<r, e>> => Before(<<q, d>>, <<r, e>>) \/ Before(<<r, e>>, <<q, d>>)
  <2>1. CASE q = r
    <3>1. d < e \/ e < d \/ d = e
      BY <1>2
    <3> QED BY <1>1, <2>1, <3>1
  <2>2. CASE q # r
    BY <1>1, <2>2, EarlierOrders
  <2> QED BY <2>1, <2>2
<1>4. ~Before(<<q, d>>, <<q, d>>)
  <2>1. ~(d < d)
    BY <1>2
  <2> QED BY <1>1, <2>1, EarlierOrders
<1>5. ASSUME NEW s \in Requests, NEW f \in Days,
             Before(<<q, d>>, <<r, e>>), Before(<<r, e>>, <<s, f>>)
      PROVE  Before(<<q, d>>, <<s, f>>)
  <2>1. Earlier(q, r) \/ (q = r /\ d < e)
    BY <1>1, <1>5
  <2>2. Earlier(r, s) \/ (r = s /\ e < f)
    BY <1>1, <1>5
  <2>3. d < e /\ e < f => d < f
    BY <1>2
  <2>4. Earlier(q, r) /\ Earlier(r, s) => Earlier(q, s)
    BY EarlierOrders
  <2>5. Earlier(q, s) \/ (q = s /\ d < f)
    BY <2>1, <2>2, <2>3, <2>4
  <2> QED BY <1>1, <2>5
<1> QED BY <1>3, <1>4, <1>5

\* What comes before a chosen line is chosen.
LEMMA ChosenFromTheFront ==
  ASSUME Base, NEW c \in Callers, NEW x \in Lines(c), NEW y \in Chosen(c), Before(x, y)
  PROVE  x \in Chosen(c)
<1>1. y \in Lines(c)
  BY ChosenLines
<1>2. LinesBefore(c, x) \in SUBSET LinesBefore(c, y)
  <2>1. x \in Requests \X Days /\ y \in Requests \X Days
    BY <1>1, LinesArePairs
  <2>2. ASSUME NEW z \in LinesBefore(c, x) PROVE z \in LinesBefore(c, y)
    <3>1. z \in Lines(c) /\ Before(z, x)
      BY <2>2 DEF LinesBefore
    <3>2. z \in Requests \X Days
      BY <3>1, LinesArePairs
    <3>3. PICK q \in Requests, d \in Days : z = <<q, d>>
      BY <3>2
    <3>4. PICK r \in Requests, e \in Days : x = <<r, e>>
      BY <2>1
    <3>5. PICK s \in Requests, f \in Days : y = <<s, f>>
      BY <2>1
    <3>6. Before(z, y)
      BY <3>1, <3>3, <3>4, <3>5, BeforeOrders DEF Base
    <3> QED BY <3>1, <3>6 DEF LinesBefore
  <2> QED BY <2>2
<1>3. /\ Cardinality(LinesBefore(c, x)) <= Cardinality(LinesBefore(c, y))
      /\ Cardinality(LinesBefore(c, x)) \in Nat /\ Cardinality(LinesBefore(c, y)) \in Nat
  <2>1. IsFiniteSet(LinesBefore(c, x)) /\ IsFiniteSet(LinesBefore(c, y))
    BY LinesFinite
  <2> QED BY <1>2, <2>1, FS_Subset, FS_CardinalityType
<1>4. Room(call[c].window.quota, UseOfHeld(c)) \in Nat
  BY UseFinite
<1>5. Cardinality(LinesBefore(c, y)) < Room(call[c].window.quota, UseOfHeld(c))
  BY ChosenLines
<1>6. Cardinality(LinesBefore(c, x)) < Room(call[c].window.quota, UseOfHeld(c))
  BY <1>3, <1>4, <1>5
<1> QED BY <1>6, ChosenLines

\* Only a promotion ends a request's wait without ending the request.
LEMMA OnlyPromotions ==
  ASSUME Inv, NEW c \in Callers, Acts(c), NEW r \in Requests,
         request[r].special, ~request'[r].special
  PROVE  /\ Promote(c) /\ r # call[c].req /\ Promoted(c, r) # {}
         /\ call[c].step = "rows" /\ call[c].todo = {}
<1>1. Base /\ Locked(c)
  BY DEF Inv
<1>2. request[r].status \notin {"none", "draft"}
  BY <1>1 DEF Base, RowShaped
<1>3. ~Kept(r) /\ ~Created(c, r)
  BY <1>2 DEF Kept, Created
<1>4. ~Moved(c, r)
  BY <1>2, KindTables DEF Moved, RowKinds
<1>5. Shortened(c, r)
  BY <1>1, <1>3, <1>4, ServeRowStep DEF Acts, RowStep
<1>6. call[c].step = "rows" /\ r # call[c].req /\ Waiting(r)
  BY <1>5 DEF Shortened
<1>7. request' # request
  OBVIOUS
<1>8. Promote(c)
  BY <1>6, <1>7, ChangesWithAnAnswer
<1>9. Promoted(c, r) # {}
  BY <1>1, <1>2, <1>3, <1>6, <1>8, PromoteRows
<1> QED BY <1>6, <1>8, <1>9 DEF Promote

\* Dates of the earlier request come before those of the later one.
LEMMA InOrderStep ==
  ASSUME Inv, NEW c \in Callers, Acts(c), NEW q \in Requests, NEW r \in Requests,
         request[r].special, ~request'[r].special, Waiting(q), Earlier(q, r)
  PROVE  ~(request'[q].status = "submitted" /\ request'[q].special)
<1>1. Base /\ Locked(c)
  BY DEF Inv
<1>2. /\ Promote(c) /\ r # call[c].req /\ Promoted(c, r) # {}
      /\ call[c].step = "rows" /\ call[c].todo = {}
  BY OnlyPromotions
<1>3. CASE q = call[c].req
  <2>1. call[c].kind \in Ending /\ request'[q] = Ended(c)
    BY <1>1, <1>2, <1>3, PromoteRows DEF Base, Shaped
  <2>2. request'[q].status \in {"cancelled", "rejected"}
    BY <1>1, <1>3, <2>1, RowTypes DEF Ended, Ending, Target, Base, Rows
  <2> QED BY <2>2
<1>4. CASE q # call[c].req
  <2>1. rowHolder[q] = c
    BY <1>1, <1>2, <1>4 DEF Locked, KeepsTheQuota
  <2>2. PICK d \in request[r].days : <<r, d>> \in Chosen(c)
    BY <1>2 DEF Promoted
  <2>3. ASSUME NEW e \in request[q].days PROVE <<q, e>> \in Chosen(c)
    <3>1. <<q, e>> \in Lines(c)
      BY <1>1, <1>4, <2>1, LineOf
    <3>2. Before(<<q, e>>, <<r, d>>)
      BY DEF Before
    <3> QED BY <1>1, <2>2, <3>1, <3>2, ChosenFromTheFront
  <2>4. request[q].days # {}
    BY <1>1 DEF Base, RowShaped, Waiting
  <2>5. Promoted(c, q) # {}
    BY <2>3, <2>4 DEF Promoted
  <2>6. request'[q] = ShortRow(c, q)
    BY <1>1, <1>2, <1>4, <2>5, PromoteRows
  <2>7. request'[q].special = FALSE
    BY <1>1, <2>6, RowTypes DEF ShortRow, Base, Rows
  <2> QED BY <2>7
<1> QED BY <1>3, <1>4

\* First come, first served: no waiting request is promoted past an earlier one
\* that goes on waiting.
THEOREM PromotionsInOrder == Spec => PromotedInOrder
<1> DEFINE A == \A q, r \in Requests :
       /\ request[r].special /\ ~request'[r].special
       /\ Waiting(q) /\ Earlier(q, r)
       => ~Waiting(q)'
<1>1. Inv /\ [Next]_vars => A
  <2> SUFFICES ASSUME Inv, [Next]_vars PROVE A
    OBVIOUS
  <2>1. CASE \E c \in Callers : Serve(c) \/ Client(c) \/ Crash(c)
    BY <2>1, InOrderStep DEF Acts, Waiting
  <2>2. CASE UpdateWindow \/ Archive \/ DayPasses \/ UNCHANGED vars
    <3>1. request' = request
      BY <2>2 DEF UpdateWindow, Archive, ChangeWindow, DayPasses, vars, tables
    <3> QED BY <3>1
  <2> QED BY <2>1, <2>2 DEF Next
<1> QED BY <1>1, InvHolds, PTL DEF Spec, PromotedInOrder

-----------------------------------------------------------------------------
(* The quota.                                                              *)

\* A request that uses up quota.
Counts(r) == Active(r) /\ ~request[r].special /\ Inside(request[r].days) # {}

\* A split submission that found no segment to touch the window has none that
\* does, as long as the window was not archived then.
NeedsNoQuota(c) ==
  call[c].step = "insert" /\ call[c].kind = "split" /\ window.active =>
    \A i \in DOMAIN call[c].asks : Inside(call[c].asks[i]) = {}

\* A call that waits for the quota has found the window.
SawTheWindow(c) == call[c].step = "quota" => call[c].window.active

\* A call that reclassifies has locked, or will lock, all that use quota.
KnowsTheUse(c) ==
  call[c].step = "rows" /\ window.active =>
    \A r \in Requests : Counts(r) => r = call[c].req \/ r \in call[c].todo \/ rowHolder[r] = c

\* The strengthening the quota needs.
Reckons(c) == NeedsNoQuota(c) /\ SawTheWindow(c) /\ KnowsTheUse(c)

\* The days in use now, and after a step.
LEMMA UsedAreCounted ==
  ASSUME NEW d
  PROVE  /\ d \in UsedDays <=> \E r \in Requests :
              Active(r) /\ ~request[r].special /\ d \in Inside(request[r].days)
         /\ d \in UsedDays' <=> \E r \in Requests :
              Active(r)' /\ ~request'[r].special /\ d \in Inside(request'[r].days)
<1> QED BY DEF UsedDays, Inside

\* A row is first put to use by a call that needs no quota, or under its lock.
LEMMA UseBegins ==
  ASSUME Inv, NEW c \in Callers, Acts(c), NeedsNoQuota(c), window.active,
         NEW r \in Requests, Counts(r)', ~Counts(r)
  PROVE  call[c].step \in {"quota", "rows"} /\ quotaHolder \in {None, c}
<1>1. Base /\ Locked(c)
  BY DEF Inv
<1>2. request[r] \in Rows /\ request'[r] # request[r] /\ request' # request
  BY <1>1, RowTypes DEF Base, Counts, Active
<1>3. \/ UpdateDraft(c) \/ Approve(c) \/ SubmitPlainly(c) \/ SubmitDraft(c) \/ End(c)
      \/ Promote(c) \/ InsertPlainly(c) \/ SubmitSegments(c)
  BY <1>2, ChangesWithAnAnswer
<1>4. request'[r].status \in {"submitted", "approved"} /\ ~request'[r].special
      /\ Inside(request'[r].days) # {}
  BY DEF Counts, Active
<1>5. CASE UpdateDraft(c) \/ Approve(c) \/ End(c) \/ SubmitPlainly(c)
  <2>1. call[c].kind \in RowKinds /\ call[c].step = "sent"
    BY <1>5 DEF UpdateDraft, Approve, End, SubmitPlainly, MayGo, Locks
  <2>2. call[c].req \in Requests /\ request[call[c].req].status # "none"
    BY <1>1, <2>1, NamesARow DEF Base
  <2>3. r = call[c].req
    BY <1>1, <1>2, <1>5 DEF UpdateDraft, Approve, End, SubmitPlainly, Base, TypeOK
  <2>4. Moved(c, r)
    <3>1. ~Kept(r) /\ ~Created(c, r) /\ ~Shortened(c, r)
      BY <1>2, <2>1, <2>2, <2>3 DEF Kept, Created, Shortened
    <3> QED BY <1>1, <3>1, ServeRowStep DEF Acts, RowStep
  <2>5. call[c].kind \in {"approve", "submit"}
    BY <1>4, <2>1, <2>4, KindTables DEF Moved, RowKinds
  <2>6. request'[r].days = request[r].days
    BY <2>4, <2>5 DEF Moved
  <2>7. CASE call[c].kind = "approve"
    <3>1. request[r].status = "submitted" /\ request'[r].special = request[r].special
      BY <2>4, <2>7, KindTables DEF Moved
    <3> QED BY <1>4, <2>6, <3>1 DEF Counts, Active
  <2>8. CASE call[c].kind = "submit"
    <3>1. ~Touches(request[r].days, window)
      BY <1>5, <2>3, <2>8 DEF UpdateDraft, Approve, End, SubmitPlainly, Ending
    <3> QED BY <1>4, <2>6, <3>1 DEF Touches
  <2> QED BY <2>5, <2>7, <2>8
<1>6. CASE InsertPlainly(c)
  <2> DEFINE special == [i \in DOMAIN call[c].asks |-> FALSE]
  <2>1. call[c].kind \in {"create", "split"} /\ call[c].step = "insert"
    BY <1>1, <1>6 DEF Base, Shaped, InsertPlainly
  <2>2. special \in [DOMAIN call[c].asks -> BOOLEAN] /\ InsertSegments(c, special)
    BY <1>6 DEF InsertPlainly
  <2> HIDE DEF special
  <2>3. PICK i \in DOMAIN call[c].asks : request'[r] = Segment(c, special, i)
    BY <1>1, <1>2, <2>1, <2>2, SegmentsInserted
  <2>4. CASE call[c].kind = "create"
    <3>1. Segment(c, special, i).status = "draft"
      BY <2>4 DEF Segment, NoRequest
    <3> QED BY <1>4, <2>3, <3>1
  <2>5. CASE call[c].kind = "split"
    <3>1. request'[r].days = call[c].asks[i]
      BY <1>1, <2>1, <2>2, <2>3, SegmentRow
    <3> QED BY <1>4, <2>1, <2>5, <3>1 DEF NeedsNoQuota
  <2> QED BY <2>1, <2>4, <2>5
<1>7. CASE SubmitDraft(c) \/ SubmitSegments(c)
  BY <1>7 DEF SubmitDraft, SubmitSegments
<1>8. CASE Promote(c)
  BY <1>1, <1>8 DEF Promote, Locked, KeepsTheQuota
<1> QED BY <1>3, <1>5, <1>6, <1>7, <1>8

\* Nobody else puts rows to use while a call reclassifies.
LEMMA OthersStillReckon ==
  ASSUME Inv, NEW c \in Callers, Acts(c), \A d \in Callers : Reckons(d),
         OthersStay(c), window' = window, NEW d \in Callers, d # c
  PROVE  Reckons(d)'
<1>1. /\ call'[d] = call[d]
      /\ \A r \in Requests : rowHolder'[r] = d <=> rowHolder[r] = d
  BY DEF OthersStay
<1>2. NeedsNoQuota(d)' /\ SawTheWindow(d)'
  BY <1>1 DEF Reckons, NeedsNoQuota, SawTheWindow
<1>3. KnowsTheUse(d)'
  <2> SUFFICES ASSUME call[d].step = "rows", window.active, NEW r \in Requests, Counts(r)'
               PROVE  r = call[d].req \/ r \in call[d].todo \/ rowHolder'[r] = d
    BY <1>1 DEF KnowsTheUse
  <2>1. quotaHolder = d
    BY DEF Inv, Locked, KeepsTheQuota
  <2>2. quotaHolder \notin {None, c}
    BY <2>1, NobodyIsNone
  <2>3. Counts(r)
    BY <2>2, UseBegins DEF Reckons
  <2> QED BY <1>1, <2>3 DEF Reckons, KnowsTheUse
<1> QED BY <1>2, <1>3 DEF Reckons

\* A call that goes on to wait for the quota has seen the window.
LEMMA WaitersSawTheWindow ==
  ASSUME Base, NEW c \in Callers, NEW at, WaitForQuota(c, at)
  PROVE  Reckons(c)'
<1> DEFINE its == [call[c] EXCEPT !.step = "quota", !.at = at,
                                  !.window = [active |-> TRUE, quota |-> window.quota]]
<1>1. call' = [call EXCEPT ![c] = its]
  BY DEF WaitForQuota, Base, TypeOK
<1>2. call[c] \in Calls
  BY CallTypes DEF Base
<1>3. its.step = "quota" /\ its.window.active
  BY <1>2 DEF Calls
<1> HIDE DEF its
<1>4. call'[c] = its
  BY <1>1 DEF Base, TypeOK
<1> QED BY <1>3, <1>4 DEF Reckons, NeedsNoQuota, SawTheWindow, KnowsTheUse

\* The call's own steps keep it reckoning.
LEMMA StillReckons ==
  ASSUME Inv, NEW c \in Callers, Acts(c), Reckons(c), window' = window
  PROVE  Reckons(c)'
<1>1. Base /\ Locked(c) /\ call \in [Callers -> Calls] /\ call[c] \in Calls
  BY CallTypes DEF Inv, Base, TypeOK
<1>2. CASE Answer(c)
  <2>1. call'[c] = NoCall
    BY <1>1, <1>2, AnswerStep
  <2> QED BY <2>1 DEF NoCall, Reckons, NeedsNoQuota, SawTheWindow, KnowsTheUse
<1>3. CASE Client(c)
  <2>1. call'[c].step = "sent"
    BY <1>1, <1>3, ClientStep DEF Inv
  <2> QED BY <2>1 DEF Reckons, NeedsNoQuota, SawTheWindow, KnowsTheUse
<1>4. CASE SubmitNearWindow(c) \/ EndFreeingQuota(c) \/ BeginSplit(c)
  <2>1. PICK at : WaitForQuota(c, at)
    BY <1>4 DEF SubmitNearWindow, EndFreeingQuota, BeginSplit
  <2> QED BY <1>1, <2>1, WaitersSawTheWindow
<1>5. CASE TakeQuota(c)
  <2> DEFINE rows == {r \in Requests \ {call[c].req} : Allocated(r)}
             its == [call[c] EXCEPT !.step = "rows", !.todo = rows]
  <2>1. call' = [call EXCEPT ![c] = its] /\ request' = request
    BY <1>1, <1>5 DEF TakeQuota, ReadOnly, tables
  <2>2. its.step = "rows" /\ its.todo = rows /\ its.req = call[c].req
    BY <1>1 DEF Calls
  <2>3. \A r \in Requests : Counts(r) => r = call[c].req \/ r \in rows
    BY DEF Counts, Allocated
  <2> HIDE DEF its, rows
  <2>4. call'[c] = its
    BY <1>1, <2>1
  <2>5. \A r \in Requests : Counts(r)' <=> Counts(r)
    BY <2>1 DEF Counts, Active
  <2> QED BY <2>2, <2>3, <2>4, <2>5 DEF Reckons, NeedsNoQuota, SawTheWindow, KnowsTheUse
<1>6. CASE LockRow(c)
  <2> DEFINE n == NextRow(call[c].todo)
             its == [call[c] EXCEPT !.todo = call[c].todo \ {n}]
  <2>1. /\ call' = [call EXCEPT ![c] = its] /\ request' = request
        /\ rowHolder' = [rowHolder EXCEPT ![n] = c] /\ call[c].step = "rows"
    BY <1>1, <1>6 DEF LockRow, ReadOnly, tables
  <2>2. its.step = "rows" /\ its.todo = call[c].todo \ {n} /\ its.req = call[c].req
    BY <1>1, <2>1 DEF Calls
  <2> HIDE DEF its, n
  <2>3. call'[c] = its
    BY <1>1, <2>1
  <2>4. \A r \in Requests : Counts(r)' <=> Counts(r)
    BY <2>1 DEF Counts, Active
  <2>5. \A r \in Requests : rowHolder'[r] = IF r = n THEN c ELSE rowHolder[r]
    BY <1>1, <2>1 DEF Base, TypeOK
  <2> QED BY <2>1, <2>2, <2>3, <2>4, <2>5 DEF Reckons, NeedsNoQuota, SawTheWindow, KnowsTheUse
<1>7. CASE BeginCreate(c)
  <2>1. PICK n : n = IF call[c].kind = "split" THEN Now ELSE 0
    OBVIOUS
  <2> DEFINE its == [call[c] EXCEPT !.step = "insert", !.at = n]
  <2>2. call' = [call EXCEPT ![c] = its] /\ (call[c].kind = "create" \/ FirstTouching(c) = {})
    BY <1>1, <1>7, <2>1 DEF BeginCreate
  <2>3. its.step = "insert" /\ its.kind = call[c].kind /\ its.asks = call[c].asks
    BY <1>1 DEF Calls
  <2> HIDE DEF its
  <2>4. call'[c] = its
    BY <1>1, <2>2
  <2>5. call[c].kind = "split" /\ window.active =>
          \A i \in DOMAIN call[c].asks : Inside(call[c].asks[i]) = {}
    BY <2>2 DEF FirstTouching, Touches
  <2> QED BY <2>3, <2>4, <2>5 DEF Reckons, NeedsNoQuota, SawTheWindow, KnowsTheUse
<1>8. CASE ~Answer(c) /\ ~Client(c)
  <2>1. ~Crash(c) /\ ~Victim(c)
    BY <1>8 DEF Crash, Victim, RollBack
  <2>2. Serve(c)
    BY <1>8, <2>1 DEF Acts
  <2>3. /\ ~AnswerDone(c) /\ ~Refuse(c) /\ ~UpdateDraft(c) /\ ~Approve(c)
        /\ ~SubmitPlainly(c) /\ ~SubmitDraft(c) /\ ~RefuseSubmit(c)
        /\ ~End(c) /\ ~Promote(c) /\ ~AnswerCreated(c)
        /\ ~InsertPlainly(c) /\ ~SubmitSegments(c) /\ ~RefuseSegments(c)
    BY <1>8 DEF AnswerDone, Refuse, UpdateDraft, Approve, SubmitPlainly, SubmitDraft, RefuseSubmit,
                End, Promote, AnswerCreated, InsertPlainly, SubmitSegments, RefuseSegments
  <2> QED BY <2>1, <2>2, <2>3, <1>4, <1>5, <1>6, <1>7 DEF Serve
<1> QED BY <1>2, <1>3, <1>8

\* The window is not taken out of the archive.
StaysArchived == [][window'.active => window.active]_vars

\* So every call reckons with all that is used.
LEMMA ReckonsHolds == Spec /\ StaysArchived => [](\A c \in Callers : Reckons(c))
<1> DEFINE I == \A c \in Callers : Reckons(c)
<1>1. Init => I
  BY DEF Init, NoCall, Reckons, NeedsNoQuota, SawTheWindow, KnowsTheUse
<1>2. Inv /\ I /\ [Next]_vars /\ [window'.active => window.active]_vars => I'
  <2> SUFFICES ASSUME Inv, I, [Next]_vars, [window'.active => window.active]_vars PROVE I'
    OBVIOUS
  <2>1. ASSUME NEW c \in Callers, Acts(c) PROVE I'
    <3>1. window' = window
      BY <2>1, TablesStayTables DEF Inv
    <3>2. OthersStay(c)
      <4>1. CASE Client(c)
        BY <4>1, ClientStep DEF Inv
      <4>2. CASE Serve(c) \/ Crash(c)
        BY <4>2, ServeStep DEF Inv, CallStep
      <4> QED BY <2>1, <4>1, <4>2 DEF Acts
    <3> QED BY <2>1, <3>1, <3>2, OthersStillReckon, StillReckons
  <2>2. CASE UpdateWindow \/ Archive \/ DayPasses \/ UNCHANGED vars
    <3>1. UNCHANGED <<request, call, rowHolder>>
      BY <2>2 DEF UpdateWindow, Archive, ChangeWindow, DayPasses, vars, locks, tables
    <3>2. window'.active => window.active
      BY DEF vars
    <3> QED BY <3>1, <3>2 DEF Reckons, NeedsNoQuota, SawTheWindow, KnowsTheUse, Counts, Active
  <2> QED BY <2>1, <2>2 DEF Next, Acts
<1> QED BY <1>1, <1>2, InvHolds, PTL DEF Spec, StaysArchived

\* What fits the room that is left, fits the quota with what is used.
LEMMA FitsTheRoom ==
  ASSUME NEW used \in SUBSET Days, NEW T \in SUBSET Days, T # {}, NEW quota \in Nat,
         NEW n \in Nat, Cardinality(T) <= n, n <= Room(quota, used),
         NEW S \in SUBSET (used \cup T)
  PROVE  Cardinality(S) <= quota
<1>1. IsFiniteSet(used) /\ IsFiniteSet(T) /\ IsFiniteSet(used \cap T)
  BY FS_Subset, NumbersAssumption
<1>2. /\ IsFiniteSet(used \cup T)
      /\ Cardinality(used \cup T) = Cardinality(used) + Cardinality(T) - Cardinality(used \cap T)
  BY <1>1, FS_Union
<1>3. Cardinality(used) \in Nat /\ Cardinality(T) \in Nat /\ Cardinality(used \cap T) \in Nat
  BY <1>1, FS_CardinalityType
<1>4. Cardinality(T) # 0
  BY <1>1, FS_EmptySet
<1>5. Cardinality(S) \in Nat /\ Cardinality(S) <= Cardinality(used \cup T)
  BY <1>2, FS_Subset, FS_CardinalityType
<1>6. Cardinality(used \cup T) \in Nat
  BY <1>2, FS_CardinalityType
<1>7. Cardinality(used) < quota /\ n <= quota - Cardinality(used)
  BY <1>3, <1>4 DEF Room
<1> QED BY <1>2, <1>3, <1>5, <1>6, <1>7

\* Days in use are days.
LEMMA UsedAreDays == TypeOK => UsedDays \in SUBSET Days
<1> SUFFICES ASSUME TypeOK, NEW d \in UsedDays PROVE d \in Days
  OBVIOUS
<1>1. PICK r \in Requests : d \in Inside(request[r].days)
  BY UsedAreCounted
<1> QED BY <1>1, RowTypes DEF Inside

\* The quota is judged with all that is used and the dates themselves.
LEMMA ExemptFits ==
  ASSUME NEW days \in SUBSET Days, NEW quota \in Nat, NEW used \in SUBSET Days,
         Verdict(days, quota, used) = "exempt", Inside(days) # {},
         NEW S \in SUBSET (used \cup Inside(days))
  PROVE  Cardinality(S) <= quota
<1>1. Cardinality(Inside(days)) <= Room(quota, used)
  BY DEF Verdict
<1>2. Inside(days) \in SUBSET Days /\ IsFiniteSet(Inside(days))
  BY FS_Subset, NumbersAssumption DEF Inside
<1>3. Cardinality(Inside(days)) \in Nat
  BY <1>2, FS_CardinalityType
<1>4. Cardinality(Inside(days)) <= Cardinality(Inside(days))
  BY <1>3
<1> QED BY <1>1, <1>2, <1>3, <1>4, FitsTheRoom

\* A submission adds its own dates only, and they fit.
LEMMA SubmitDraftFits ==
  ASSUME Inv, NEW c \in Callers, SubmitDraft(c), ~(UsedDays' \subseteq UsedDays)
  PROVE  Cardinality(UsedDays') <= call[c].window.quota
<1> DEFINE q == call[c].req
           days == request[q].days
           row == Submitted(request[q], VerdictOn(c) = "collective", call[c].at)
<1>1. Base /\ call[c].kind = "submit" /\ call[c].kind \in RowKinds /\ call[c].step = "quota"
  BY DEF Inv, SubmitDraft, RowKinds
<1>2. q \in Requests /\ request[q] \in Rows /\ request \in [Requests -> Rows] /\ days \in SUBSET Days
  BY <1>1, NamesARow, RowTypes DEF Base, TypeOK
<1>3. request' = [request EXCEPT ![q] = row] /\ Accepted(VerdictOn(c))
  BY <1>2 DEF SubmitDraft
<1>4. /\ row.days = days /\ row.special = (VerdictOn(c) = "collective")
  <2>1. call[c].at \in Nat /\ (VerdictOn(c) = "collective") \in BOOLEAN
    BY <1>1, CallTypes DEF Base
  <2> QED BY <1>2, <2>1, SubmittedRow
<1> HIDE DEF row
<1>5. PICK d \in UsedDays' : d \notin UsedDays
  OBVIOUS
<1>6. \A e \in UsedDays' : e \in UsedDays \/ (~row.special /\ e \in Inside(days))
  <2> SUFFICES ASSUME NEW e \in UsedDays' PROVE e \in UsedDays \/ (~row.special /\ e \in Inside(days))
    OBVIOUS
  <2>1. PICK r \in Requests : Active(r)' /\ ~request'[r].special /\ e \in Inside(request'[r].days)
    BY UsedAreCounted
  <2>2. CASE r = q
    BY <1>2, <1>3, <1>4, <2>1, <2>2
  <2>3. CASE r # q
    <3>1. request'[r] = request[r]
      BY <1>2, <1>3, <2>3
    <3> QED BY <2>1, <3>1, UsedAreCounted DEF Active
  <2> QED BY <2>2, <2>3
<1>7. Inside(days) # {} /\ VerdictOn(c) = "exempt"
  BY <1>3, <1>4, <1>5, <1>6, VerdictsKnown DEF Accepted, VerdictOn
<1>8. UsedDays' \in SUBSET (UsedDays \cup Inside(days))
  BY <1>6
<1>9. UsedDays \in SUBSET Days /\ call[c].window.quota \in Nat
  BY <1>1, UsedAreDays, CallTypes DEF Base
<1>10. Verdict(days, call[c].window.quota, UsedDays) = "exempt"
  BY <1>7 DEF VerdictOn
<1> HIDE DEF days
<1> QED BY <1>2, <1>7, <1>8, <1>9, <1>10, ExemptFits

\* A segment waits if it was judged collective.
LEMMA SegmentSpecial ==
  ASSUME Base, NEW c \in Callers, call[c].kind = "split", call[c].step # "idle",
         NEW special \in [DOMAIN call[c].asks -> BOOLEAN], NEW i \in DOMAIN call[c].asks
  PROVE  Segment(c, special, i).special = special[i]
<1> DEFINE new == [NoRequest EXCEPT !.status = "draft", !.days = call[c].asks[i], !.version = 1,
                             !.key = call[c].key, !.segment = i]
<1>1. Segment(c, special, i) = Submitted(new, special[i], call[c].at)
  BY DEF Segment
<1>2. Submitted(new, special[i], call[c].at).special = special[i]
  BY DEF Submitted, NoRequest
<1> QED BY <1>1, <1>2

\* The last exempt segment was judged with all that the others use.
LEMMA SegmentsFit ==
  ASSUME Inv, NEW c \in Callers, SawTheWindow(c), SubmitSegments(c),
         window.active, window.quota = call[c].window.quota, ~(UsedDays' \subseteq UsedDays)
  PROVE  Cardinality(UsedDays') <= window.quota
<1> DEFINE asks == call[c].asks
<1>1. Base /\ call[c].kind = "split" /\ call[c].step = "quota" /\ call[c].window.active
  BY DEF Inv, SubmitSegments, SawTheWindow
<1>2. PICK verdict \in Judgements(c) :
        /\ Accepts(c, verdict)
        /\ InsertSegments(c, [i \in DOMAIN asks |-> verdict[i] = "collective"])
  BY DEF SubmitSegments
<1> DEFINE special == [i \in DOMAIN asks |-> verdict[i] = "collective"]
           Exempt == {i \in DOMAIN asks : verdict[i] = "exempt" /\ Inside(asks[i]) # {}}
<1>3. special \in [DOMAIN asks -> BOOLEAN] /\ InsertSegments(c, special)
  BY <1>2
<1>4. /\ asks \in Seq((SUBSET Days) \ {{}}) /\ \A i \in DOMAIN asks : asks[i] \in SUBSET Days
      /\ DOMAIN asks = 1..Len(asks) /\ Len(asks) \in Nat
  BY <1>1 DEF Base, Shaped
<1>5. \A i \in DOMAIN asks : /\ WindowFor(c, i).active /\ WindowFor(c, i).quota = window.quota
                             /\ Touches(asks[i], WindowFor(c, i)) <=> Inside(asks[i]) # {}
  BY <1>1 DEF WindowFor, Touches
<1>6. \A i \in DOMAIN asks : special[i] <=> verdict[i] # "exempt"
  BY <1>2 DEF Judgements
<1> HIDE DEF special
<1>7. ASSUME NEW e \in UsedDays', e \notin UsedDays
      PROVE  \E i \in Exempt : e \in Inside(asks[i])
  <2>1. PICK r \in Requests : Active(r)' /\ ~request'[r].special /\ e \in Inside(request'[r].days)
    BY UsedAreCounted
  <2>2. request'[r] # request[r]
    BY <1>7, <2>1, UsedAreCounted DEF Active
  <2>3. PICK i \in DOMAIN asks : request'[r] = Segment(c, special, i)
    BY <1>1, <1>3, <2>2, SegmentsInserted
  <2>4. /\ request'[r].days = asks[i]
        /\ ~special[i]
    <3>1. request'[r].days = asks[i]
      BY <1>1, <1>3, <2>3, SegmentRow
    <3>2. ~special[i]
      BY <1>1, <1>3, <2>1, <2>3, SegmentSpecial
    <3> QED BY <3>1, <3>2
  <2> QED BY <1>6, <2>1, <2>4
<1>8. PICK i \in Exempt : \A j \in Exempt : j <= i
  <2>1. Exempt # {}
    BY <1>7
  <2>2. Exempt \in SUBSET (1..Len(asks)) /\ Exempt \subseteq Nat
    BY <1>4
  <2> HIDE DEF Exempt
  <2>3. IsFiniteSet(1..Len(asks))
    <3>1. Len(asks) \in Int /\ 1 \in Int
      BY <1>4
    <3> HIDE DEF asks
    <3> QED BY <3>1, FS_Interval
  <2>4. IsFiniteSet(Exempt)
    BY <2>2, <2>3, FS_Subset
  <2> QED BY <2>1, <2>2, <2>4, LargestNumber
<1> DEFINE used == UsedDays \cup ReservedBefore(c, verdict, i)
<1>9. UsedDays' \in SUBSET (used \cup Inside(asks[i]))
  <2>1. ASSUME NEW e \in UsedDays', e \notin UsedDays, e \notin Inside(asks[i])
        PROVE  e \in ReservedBefore(c, verdict, i)
    <3>1. PICK j \in Exempt : e \in Inside(asks[j])
      BY <1>7, <2>1
    <3>2. j \in 1..Len(asks) /\ i \in 1..Len(asks) /\ j <= i /\ j # i
      <4>1. j \in 1..Len(asks) /\ i \in 1..Len(asks)
        BY <1>4
      <4>2. j # i
        BY <2>1, <3>1
      <4> QED BY <1>8, <4>1, <4>2
    <3>4. j \in 1..(i - 1)
      <4>1. Len(asks) \in Nat
        BY <1>4
      <4> HIDE DEF asks, Exempt
      <4> QED BY <3>2, <4>1
    <3>3. j \in {k \in 1..(i - 1) : verdict[k] = "exempt" /\ Touches(asks[k], WindowFor(c, k))}
      BY <1>5, <3>1, <3>4
    <3> QED BY <3>1, <3>3 DEF ReservedBefore
  <2> QED BY <2>1
<1>10. Verdict(asks[i], window.quota, used) = "exempt"
  <2>1. SegmentVerdict(c, verdict, i) = "exempt"
    BY <1>2, <1>8 DEF Accepts
  <2> QED BY <1>5, <1>8, <2>1 DEF SegmentVerdict
<1>11. used \in SUBSET Days /\ asks[i] \in SUBSET Days /\ window.quota \in Nat
  <2>1. UsedDays \in SUBSET Days
    BY <1>1, UsedAreDays DEF Base
  <2>2. ReservedBefore(c, verdict, i) \in SUBSET Days
    <3>1. Len(asks) >= i /\ i \in Nat
      BY <1>4, <1>8
    <3>2. \A k \in 1..(i - 1) : asks[k] \in SUBSET Days
      BY <1>4, <3>1
    <3> QED BY <3>2 DEF ReservedBefore, Inside
  <2>3. call[c].window.quota \in Nat
    BY <1>1, CallTypes DEF Base
  <2> QED BY <1>4, <1>8, <2>1, <2>2, <2>3
<1>12. Inside(asks[i]) # {}
  BY <1>8
<1> HIDE DEF used, asks
<1> QED BY <1>9, <1>10, <1>11, <1>12, ExemptFits

\* A promotion chooses no more dates than there is room for.
LEMMA ChosenFit ==
  ASSUME Base, NEW c \in Callers, NEW T, T # {},
         \A d \in T : \E r : <<r, d>> \in Chosen(c)
  PROVE  T \in SUBSET Days /\ Cardinality(T) <= Room(call[c].window.quota, UseOfHeld(c))
<1> DEFINE R == {p \in Chosen(c) \X Chosen(c) : Before(p[2], p[1])}
<1>1. /\ \A x \in Chosen(c) : x \in Lines(c)
      /\ Chosen(c) \in SUBSET Lines(c) /\ Lines(c) \subseteq Requests \X Days
  BY ChosenLines, LinesArePairs
<1>2. IsFiniteSet(Chosen(c)) /\ Chosen(c) # {}
  BY <1>1, LinesFinite, FS_Subset
<1>3. \A x, y \in Chosen(c) : <<x, y>> \in R <=> Before(y, x)
  OBVIOUS
<1>4. \A x \in Chosen(c) : \E q \in Requests, d \in Days : x = <<q, d>>
  BY <1>1
<1> HIDE DEF R
<1>5. \A x \in Chosen(c) : <<x, x>> \notin R
  BY <1>3, <1>4, BeforeOrders DEF Base
<1>6. ASSUME NEW x \in Chosen(c), NEW y \in Chosen(c), NEW z \in Chosen(c),
             <<x, y>> \in R, <<y, z>> \in R
      PROVE  <<x, z>> \in R
  <2>1. PICK q \in Requests, d \in Days : x = <<q, d>>
    BY <1>4
  <2>2. PICK r \in Requests, e \in Days : y = <<r, e>>
    BY <1>4
  <2>3. PICK s \in Requests, f \in Days : z = <<s, f>>
    BY <1>4
  <2>4. Before(<<s, f>>, <<r, e>>) /\ Before(<<r, e>>, <<q, d>>)
    BY <1>3, <1>6, <2>1, <2>2, <2>3
  <2>5. Before(<<s, f>>, <<q, d>>)
    BY <2>4, BeforeOrders DEF Base
  <2> QED BY <1>3, <2>1, <2>3, <2>5
<1>7. \E x \in Chosen(c) : \A y \in Chosen(c) : <<y, x>> \notin R
  BY <1>2, <1>5, <1>6, SomethingFirst, Zenon
<1>8. PICK x \in Chosen(c) : \A y \in Chosen(c) : <<y, x>> \notin R
  BY <1>7
<1>9. Chosen(c) \in SUBSET (LinesBefore(c, x) \cup {x})
  <2> SUFFICES ASSUME NEW y \in Chosen(c), y # x PROVE Before(y, x)
    BY <1>1 DEF LinesBefore
  <2>1. PICK q \in Requests, d \in Days : x = <<q, d>>
    BY <1>4
  <2>2. PICK r \in Requests, e \in Days : y = <<r, e>>
    BY <1>4
  <2>3. ~Before(x, y)
    BY <1>3, <1>8
  <2> QED BY <2>1, <2>2, <2>3, BeforeOrders DEF Base
<1>10. /\ Cardinality(LinesBefore(c, x)) \in Nat
       /\ Cardinality(Chosen(c)) \in Nat
       /\ Cardinality(Chosen(c)) <= Cardinality(LinesBefore(c, x)) + 1
  <2>1. IsFiniteSet(LinesBefore(c, x))
    BY LinesFinite
  <2>2. IsFiniteSet(LinesBefore(c, x) \cup {x})
    BY <2>1, FS_AddElement
  <2>3. /\ Cardinality(LinesBefore(c, x)) \in Nat /\ Cardinality(Chosen(c)) \in Nat
        /\ Cardinality(LinesBefore(c, x) \cup {x}) \in Nat
    BY <1>2, <2>1, <2>2, FS_CardinalityType
  <2>4. Cardinality(LinesBefore(c, x) \cup {x}) <= Cardinality(LinesBefore(c, x)) + 1
    <3>1. \/ Cardinality(LinesBefore(c, x) \cup {x}) = Cardinality(LinesBefore(c, x))
          \/ Cardinality(LinesBefore(c, x) \cup {x}) = Cardinality(LinesBefore(c, x)) + 1
      BY <2>1, FS_AddElement
    <3>2. PICK n \in Nat : n = Cardinality(LinesBefore(c, x))
      BY <2>3
    <3>3. n <= n + 1 /\ n + 1 <= n + 1
      BY <3>2
    <3> QED BY <3>1, <3>2, <3>3
  <2>5. Cardinality(Chosen(c)) <= Cardinality(LinesBefore(c, x) \cup {x})
    BY <1>9, <2>2, FS_Subset
  <2> QED BY <2>3, <2>4, <2>5
<1>11. Cardinality(Chosen(c)) <= Room(call[c].window.quota, UseOfHeld(c))
  <2>1. Cardinality(LinesBefore(c, x)) < Room(call[c].window.quota, UseOfHeld(c))
    BY ChosenLines
  <2>2. Room(call[c].window.quota, UseOfHeld(c)) \in Nat
    BY UseFinite
  <2> QED BY <1>10, <2>1, <2>2
<1> DEFINE D == {y[2] : y \in Chosen(c)}
           date == [y \in Chosen(c) |-> y[2]]
<1>12. T \in SUBSET D
  <2> SUFFICES ASSUME NEW d \in T PROVE d \in D
    OBVIOUS
  <2>1. PICK r : <<r, d>> \in Chosen(c)
    OBVIOUS
  <2>2. <<r, d>>[2] = d
    OBVIOUS
  <2> QED BY <2>1, <2>2
<1>13. D \in SUBSET Days
  BY <1>1
<1>14. date \in Surjection(Chosen(c), D)
  BY DEF Surjection
<1>15. IsFiniteSet(D) /\ Cardinality(D) <= Cardinality(Chosen(c))
  BY <1>2, <1>14, FS_Surjection
<1> HIDE DEF D, date
<1>16. Cardinality(T) <= Cardinality(D) /\ Cardinality(T) \in Nat /\ Cardinality(D) \in Nat
  BY <1>12, <1>15, FS_Subset, FS_CardinalityType
<1>17. Room(call[c].window.quota, UseOfHeld(c)) \in Nat
  BY UseFinite
<1> QED BY <1>10, <1>11, <1>12, <1>13, <1>15, <1>16, <1>17

\* A promotion adds the chosen dates to those of the rows it holds.
LEMMA PromotionFits ==
  ASSUME Inv, NEW c \in Callers, KnowsTheUse(c), Promote(c), window.active,
         ~(UsedDays' \subseteq UsedDays)
  PROVE  Cardinality(UsedDays') <= call[c].window.quota
<1>1. Base /\ Locked(c) /\ call[c].step = "rows" /\ call[c].todo = {} /\ call[c].kind \in Ending
  BY DEF Inv, Promote, Base, Shaped
<1>2. call[c].kind \in RowKinds /\ call[c].req \in Requests
  BY <1>1, NamesARow DEF Base, RowKinds, Ending
<1> DEFINE T == {d \in Days : \E r \in Requests : <<r, d>> \in Chosen(c)}
<1>3. ASSUME NEW e \in UsedDays' PROVE e \in UseOfHeld(c) \cup T
  <2>1. PICK r \in Requests : Active(r)' /\ ~request'[r].special /\ e \in Inside(request'[r].days)
    BY UsedAreCounted
  <2>2. CASE r = call[c].req
    <3>1. request'[r] = Ended(c)
      BY <1>1, <2>2, PromoteRows
    <3>2. request'[r].status \in {"cancelled", "rejected"}
      BY <1>1, <2>2, <3>1, EndedRow, KindTables DEF Ending
    <3> QED BY <2>1, <3>2 DEF Active
  <2>3. CASE r # call[c].req /\ Promoted(c, r) # {}
    <3>1. request'[r] = ShortRow(c, r)
      BY <1>1, <2>3, PromoteRows
    <3>2. request'[r].days = Promoted(c, r)
      BY <1>1, <3>1, RowTypes DEF ShortRow, Base, Rows
    <3>3. e \in request[r].days /\ <<r, e>> \in Chosen(c)
      BY <2>1, <3>2 DEF Inside, Promoted
    <3>4. e \in Days
      BY <1>1, <3>3, RowTypes DEF Base
    <3> QED BY <3>3, <3>4
  <2>4. CASE request'[r] = request[r] /\ r # call[c].req
    <3>1. Counts(r) /\ Active(r)
      BY <2>1, <2>4 DEF Counts, Active
    <3>2. rowHolder[r] = c
      BY <1>1, <2>4, <3>1 DEF KnowsTheUse
    <3> QED BY <2>1, <2>4, <3>1, <3>2 DEF UseOfHeld
  <2>5. CASE Promoted(c, r) = {} /\ r # call[c].req /\ request'[r] # request[r]
    <3>1. PICK q \in Requests : Promoted(c, q) # {} /\ request'[r] = Remainder(c, q)
      BY <1>1, <2>5, PromoteRows
    <3>2. Waiting(q) /\ request[q] \in Rows
      BY <1>1, <3>1, PromotedWait, RowTypes DEF Base
    <3>3. request'[r].special = request[q].special
      BY <3>1, <3>2 DEF Remainder, Rows
    <3> QED BY <2>1, <3>2, <3>3 DEF Waiting
  <2> QED BY <2>2, <2>3, <2>4, <2>5
<1>4. UseOfHeld(c) \subseteq UsedDays
  <2> SUFFICES ASSUME NEW e \in UseOfHeld(c) PROVE e \in UsedDays
    OBVIOUS
  <2>1. PICK r \in Requests : Active(r) /\ ~request[r].special /\ e \in Inside(request[r].days)
    BY DEF UseOfHeld
  <2> QED BY <2>1, UsedAreCounted
<1>5. T # {}
  BY <1>3, <1>4
<1>6. \A d \in T : \E r : <<r, d>> \in Chosen(c)
  OBVIOUS
<1>7. T \in SUBSET Days
  OBVIOUS
<1>8. UsedDays' \in SUBSET (UseOfHeld(c) \cup T)
  BY <1>3
<1> HIDE DEF T
<1>9. Cardinality(T) <= Room(call[c].window.quota, UseOfHeld(c))
  BY <1>1, <1>5, <1>6, ChosenFit
<1>10. UseOfHeld(c) \in SUBSET Days /\ call[c].window.quota \in Nat
       /\ Room(call[c].window.quota, UseOfHeld(c)) \in Nat
       /\ Room(call[c].window.quota, UseOfHeld(c)) <= Room(call[c].window.quota, UseOfHeld(c))
  BY <1>1, UseFinite, CallTypes DEF Base
<1> QED BY <1>5, <1>7, <1>8, <1>9, <1>10, FitsTheRoom

\* These are the steps that use quota.
LEMMA QuotaStep ==
  ASSUME Inv, NEW c \in Callers, Acts(c), Reckons(c), call[c].step \in {"quota", "rows"},
         window.active, window.quota = call[c].window.quota, ~(UsedDays' \subseteq UsedDays)
  PROVE  Cardinality(UsedDays') <= window.quota
<1>1. request' # request
  BY DEF UsedDays, Active
<1>2. \/ UpdateDraft(c) \/ Approve(c) \/ SubmitPlainly(c) \/ SubmitDraft(c) \/ End(c)
      \/ Promote(c) \/ InsertPlainly(c) \/ SubmitSegments(c)
  BY <1>1, ChangesWithAnAnswer
<1>3. SubmitDraft(c) \/ SubmitSegments(c) \/ Promote(c)
  BY <1>2 DEF UpdateDraft, Approve, SubmitPlainly, End, InsertPlainly, MayGo, Locks
<1> QED BY <1>3, SubmitDraftFits, SegmentsFit, PromotionFits DEF Reckons

\* No decision under the quota lock brings the exempt dates above the quota, as
\* long as an archived window is not put to use again: split segments that found
\* it archived would then come in beside a promotion that could not see them.
THEOREM QuotaHolds == Spec /\ StaysArchived => QuotaRespected
<1> DEFINE I == \A c \in Callers : Reckons(c)
           A == \A c \in Callers :
             /\ call[c].step \in {"quota", "rows"} /\ call'[c] # call[c]
             /\ window.active /\ window.quota = call[c].window.quota
             /\ ~(UsedDays' \subseteq UsedDays)
             => Cardinality(UsedDays') <= window.quota
<1>1. Inv /\ I /\ [Next]_vars => A
  <2> SUFFICES ASSUME Inv, I, [Next]_vars, NEW c \in Callers,
                      call[c].step \in {"quota", "rows"}, call'[c] # call[c],
                      window.active, window.quota = call[c].window.quota,
                      ~(UsedDays' \subseteq UsedDays)
               PROVE  Cardinality(UsedDays') <= window.quota
    OBVIOUS
  <2>1. ASSUME NEW d \in Callers, Acts(d) PROVE d = c
    <3>1. OthersStay(d)
      <4>1. CASE Client(d)
        BY <4>1, ClientStep DEF Inv
      <4>2. CASE Serve(d) \/ Crash(d)
        BY <4>2, ServeStep DEF Inv, CallStep
      <4> QED BY <2>1, <4>1, <4>2 DEF Acts
    <3> QED BY <3>1 DEF OthersStay
  <2>2. CASE \E d \in Callers : Serve(d) \/ Client(d) \/ Crash(d)
    BY <2>1, <2>2, QuotaStep DEF Acts
  <2>3. CASE UpdateWindow \/ Archive \/ DayPasses \/ UNCHANGED vars
    BY <2>3 DEF UpdateWindow, Archive, ChangeWindow, DayPasses, vars
  <2> QED BY <2>2, <2>3 DEF Next
<1> QED BY <1>1, InvHolds, ReckonsHolds, PTL DEF Spec, QuotaRespected
==============================================================================
