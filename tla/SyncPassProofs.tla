---------------------------- MODULE SyncPassProofs ----------------------------
(***************************************************************************)
(* Theorems about what the passes and retries of the sync worker store,    *)
(* for any number of processes, endpoints, rows, pages and faults.         *)
(*                                                                         *)
(* The invariant follows one run from page to page: as long as no other    *)
(* process works and no row enters or leaves the listing, the pages behind *)
(* a full pass are stored as the run saw them or stand in the backlog.     *)
(***************************************************************************)
EXTENDS SyncProofs

-----------------------------------------------------------------------------
(* The shapes of what a worker keeps *)

RunSteps == {"none", "rounds", "retry", "retried", "resolving", "passes", "fetch", "have", "stored", "ending"}
AtEndpoint == {"rounds", "retry", "retried", "resolving", "fetch", "have", "stored", "ending"}
AtPage == {"retried", "resolving", "have", "stored", "ending"}
PassSteps == {"fetch", "have", "stored", "ending"}

\* Functions from some pages, or from some rows.
DueType == UNION {[S -> Nat] : S \in SUBSET Pages}
HaveType == UNION {[S -> Nat] : S \in SUBSET Rows}

RunType == [step : RunSteps, i : Nat \ {0}, due : DueType, page : Nat, after : Nat, last : Nat,
            have : HaveType, seen : Nat, full : BOOLEAN, alone : BOOLEAN, still : BOOLEAN]
EntryType == [status : {"none", "deferred", "failed", "resolved"}, tries : Nat]
StateType == [page : Nat, mark : Nat]

DataShape ==
  /\ remote \in [Selected -> [Rows -> Nat]] /\ clock \in Nat
  /\ store \in [Selected -> [Rows -> Nat]]
  /\ source \in [Rows -> Int]
  /\ endpoint \in [Selected -> StateType]
  /\ backlog \in [Selected -> [Pages -> EntryType]]
  /\ run \in [Workers -> RunType]

\* A process has a pass while it has a job; it is at one of the endpoints, and
\* at a page the backlog can hold.
ShapeOf(w) ==
  /\ Working(w) <=> run[w].step # "none"
  /\ run[w].step \in AtEndpoint => run[w].i <= Len(Endpoints)
  /\ run[w].step \in AtPage => run[w].page \in Pages
  /\ run[w].step \in {"retried", "resolving"} => run[w].page \in DOMAIN run[w].due
  /\ run[w].step \in PassSteps => run[w].page > 0
  /\ run[w].seen <= clock
RunShape == \A w \in Workers : ShapeOf(w)

-----------------------------------------------------------------------------
(* What a pass knows of the pages it has left behind *)

\* A run that was alone from the start is so until another one begins.
Loneliness == \A w \in Workers : Working(w) /\ run[w].alone => Alone(w)

NoManualJobs == \A j \in Jobs : job[j].type # "manual"

\* A pass of a bootstrap job is a full one, and a full one has no filter.
FullPass(w) ==
  run[w].step \in PassSteps =>
    /\ run[w].full => run[w].after = 0
    /\ Type(w) # "delta" => run[w].full
FullPasses == \A w \in Workers : FullPass(w)

\* The page in hand is the page as it is listed now, but for later changes.
HaveFits(w, e, p) ==
  /\ DOMAIN run[w].have = Page(e, 0, p)
  /\ \A r \in DOMAIN run[w].have : Settled(w, e, r) => run[w].have[r] = remote[e][r]

\* A page that is not in the backlog is stored.
Whole(e, p) == backlog[e][p].status \in {"none", "resolved"}
Stored(w, e, p) == Whole(e, p) => UpToDate(w, e, p)

\* Every page behind a full pass is stored or in the backlog.
Behind(w, e, g) == \A p \in Pages : p < g => Stored(w, e, p)
PagesKept(w, e, g) ==
  /\ Behind(w, e, g)
  /\ run[w].step = "have" => HaveFits(w, e, g)
  /\ run[w].step = "stored" => DOMAIN run[w].have = Page(e, 0, g) /\ UpToDate(w, e, g)
  /\ run[w].step = "ending" => Cardinality(Page(e, 0, g)) < PageSize /\ UpToDate(w, e, g)

\* The listed worksheets behind a bootstrap's pass carry its mark, unless a page
\* is in the backlog.
Marked(w, r) == source[r] = worker[w].job
HasHoles == Pending("worksheets") \cup Failed("worksheets") # {}
MarkedBehind(w, g) ==
  \A r \in Listed("worksheets", 0) :
    Position("worksheets", 0, r) <= (g - 1) * PageSize => Marked(w, r) \/ HasHoles
SourcesKept(w, g) ==
  /\ MarkedBehind(w, g)
  /\ run[w].step \in {"stored", "ending"} => \A r \in Page("worksheets", 0, g) : Marked(w, r)

\* A page that is asked for again is stored before its entry is resolved.
RetryKept(w, e, g) ==
  /\ run[w].step = "retried" => HaveFits(w, e, g)
  /\ run[w].step = "resolving" => UpToDate(w, e, g)

\* As long as nothing disturbs the run, at the endpoint e and the page g.
Passing(w, e, g) == Undisturbed(w) /\ E(w) = e /\ run[w].page = g /\ run[w].step \in PassSteps /\ run[w].full
Retrying(w, e, g) == Undisturbed(w) /\ E(w) = e /\ run[w].page = g /\ run[w].step \in {"retried", "resolving"}
Story(w) ==
  /\ \A e \in Selected, g \in Pages : Passing(w, e, g) => PagesKept(w, e, g)
  /\ \A g \in Pages : Passing(w, "worksheets", g) /\ Type(w) # "delta" => SourcesKept(w, g)
  /\ \A e \in Selected, g \in Pages : Retrying(w, e, g) /\ e # "projects_v3" => RetryKept(w, e, g)

SInv == /\ DataShape /\ RunShape /\ Loneliness /\ NoManualJobs /\ FullPasses
        /\ \A w \in Workers : Story(w)
-----------------------------------------------------------------------------
(* The shapes, kept *)

LEMMA DueFacts ==
  /\ \A d \in DueType : DOMAIN d \subseteq Pages /\ \A p \in DOMAIN d : d[p] \in Nat
  /\ \A S \in SUBSET Pages : \A d \in [S -> Nat] : d \in DueType
BY DEF DueType

LEMMA HaveFacts ==
  /\ \A h \in HaveType : DOMAIN h \subseteq Rows /\ \A r \in DOMAIN h : h[r] \in Nat
  /\ \A S \in SUBSET Rows : \A h \in [S -> Nat] : h \in HaveType
BY DEF HaveType

LEMMA NothingType == Nothing \in HaveType
<1>1. Nothing \in [{} -> Nat]
  BY DEF Nothing
<1> QED BY <1>1, HaveFacts

LEMMA CopyType ==
  ASSUME DataShape, NEW e \in Selected, NEW S \in SUBSET Rows
  PROVE  /\ Copy(e, S) \in HaveType /\ DOMAIN Copy(e, S) = S
         /\ \A r \in S : Copy(e, S)[r] = remote[e][r]
<1>1. Copy(e, S) \in [S -> Nat]
  BY DEF DataShape, Copy
<1>2. DOMAIN Copy(e, S) = S /\ \A r \in S : Copy(e, S)[r] = remote[e][r]
  BY DEF Copy
<1> QED BY <1>1, <1>2, HaveFacts

LEMMA ForgetType ==
  ASSUME DataShape, NEW w \in Workers, NEW p
  PROVE  Forget(w, p) \in DueType
<1>1. run[w].due \in DueType
  BY DEF DataShape, RunType
<1>2. DOMAIN run[w].due \subseteq Pages /\ \A q \in DOMAIN run[w].due : run[w].due[q] \in Nat
  BY <1>1, DueFacts
<1>3. Forget(w, p) \in [DOMAIN run[w].due \ {p} -> Nat]
  BY <1>2 DEF Forget
<1> QED BY <1>2, <1>3, DueFacts

LEMMA NoRunType == NoRun \in RunType
<1>1. [p \in {} |-> 0] \in DueType
  <2>1. [p \in {} |-> 0] \in [{} -> Nat]
    OBVIOUS
  <2> QED BY <2>1, DueFacts
<1> QED BY <1>1, NothingType DEF NoRun, RunType, RunSteps

\* Between endpoints a run keeps only what it knows of other runs.
Between(step, i, alone) == [NoRun EXCEPT !.step = step, !.i = i, !.alone = alone]

LEMMA BetweenType ==
  ASSUME NEW step \in RunSteps, NEW i \in Nat \ {0}, NEW alone \in BOOLEAN
  PROVE  /\ Between(step, i, alone) \in RunType
         /\ Between(step, i, alone).step = step /\ Between(step, i, alone).i = i
         /\ Between(step, i, alone).alone = alone
         /\ Between(step, i, alone).seen = 0
<1>1. NoRun \in RunType /\ NoRun.seen = 0
  BY NoRunType DEF NoRun
<1> QED BY <1>1 DEF Between, RunType

LEMMA EndpointsFinite ==
  /\ Len(Endpoints) \in Nat \ {0}
  /\ \A i \in 1..Len(Endpoints) : Endpoints[i] \in Selected
  /\ Selected \subseteq {"projects_v4", "projects_v3", "worksheets"}
BY EndpointsAssumption DEF Selected

LEMMA RunIn == ASSUME DataShape, NEW w \in Workers PROVE run[w] \in RunType
BY DEF DataShape

LEMMA RunFields ==
  ASSUME DataShape, NEW w \in Workers
  PROVE  /\ run[w].step \in RunSteps /\ run[w].i \in Nat \ {0} /\ run[w].due \in DueType
         /\ run[w].page \in Nat /\ run[w].after \in Nat /\ run[w].last \in Nat /\ run[w].have \in HaveType
         /\ run[w].seen \in Nat /\ run[w].full \in BOOLEAN /\ run[w].alone \in BOOLEAN /\ run[w].still \in BOOLEAN
<1>1. run[w] \in RunType
  BY DEF DataShape
<1> QED BY <1>1 DEF RunType

\* A run that is at an endpoint is at one of the tenant's.
LEMMA AtOneEndpoint ==
  ASSUME DataShape, RunShape, NEW w \in Workers, run[w].step \in AtEndpoint
  PROVE  E(w) \in Selected
<1>1. run[w].i \in Nat \ {0} /\ run[w].i <= Len(Endpoints)
  BY RunFields DEF RunShape, ShapeOf
<1> QED BY <1>1, EndpointsFinite DEF E

\* What a step of one process's run leaves of the others.
Only(w) == \A v \in Workers : v # w => run'[v] = run[v]

LEMMA RunSet ==
  ASSUME DataShape, NEW w \in Workers, NEW new \in RunType, run' = [run EXCEPT ![w] = new]
  PROVE  run' \in [Workers -> RunType] /\ run'[w] = new /\ Only(w)
BY DEF DataShape, Only

LEMMA PagesNat == Pages \subseteq Nat \ {0} /\ \A n \in Nat \ {0} : n + 1 \in Pages => n \in Pages
<1>1. Cardinality(Rows) \in Nat
  BY RowsAssumption, FS_CardinalityType
<1>2. LastPage + 1 + MaxFaults \in Int
  BY <1>1, SizesAssumption, BoundsAssumption DEF LastPage
<1> QED BY <1>2 DEF Pages

-----------------------------------------------------------------------------
(* The listing and its pages *)

LEMMA ListedFinite ==
  ASSUME NEW e, NEW after
  PROVE  /\ Listed(e, after) \subseteq Rows /\ Listed(e, after) \subseteq Nat
         /\ \A S \in SUBSET Listed(e, after) : IsFiniteSet(S) /\ Cardinality(S) \in Nat
<1>1. Listed(e, after) \subseteq Rows
  BY DEF Listed
<1>2. \A S \in SUBSET Listed(e, after) : S \in SUBSET Rows
  BY <1>1
<1>3. \A S \in SUBSET Rows : IsFiniteSet(S)
  BY RowsAssumption, FS_Subset
<1>4. \A S \in SUBSET Rows : Cardinality(S) \in Nat
  BY <1>3, FS_CardinalityType
<1> QED BY <1>1, <1>2, <1>3, <1>4, RowsAssumption

\* The rows of a listing up to one of them.
UpTo(e, after, r) == {q \in Listed(e, after) : q <= r}

\* Positions count from one, and no two rows have the same.
LEMMA PositionsDistinct ==
  ASSUME NEW e, NEW after
  PROVE  /\ \A r \in Listed(e, after) : Position(e, after, r) \in Nat \ {0}
         /\ \A q, r \in Listed(e, after) : q < r => Position(e, after, q) < Position(e, after, r)
<1> DEFINE L == Listed(e, after)
<1>1. L \subseteq Nat /\ \A S \in SUBSET L : IsFiniteSet(S) /\ Cardinality(S) \in Nat
  BY ListedFinite
<1> HIDE DEF L
<1>2. \A r \in L : UpTo(e, after, r) \in SUBSET L /\ r \in UpTo(e, after, r)
  BY <1>1 DEF UpTo, L
<1>3. \A r : Position(e, after, r) = Cardinality(UpTo(e, after, r))
  BY DEF Position, UpTo
<1>4. ASSUME NEW r \in L PROVE Position(e, after, r) \in Nat \ {0}
  <2>1. IsFiniteSet(UpTo(e, after, r)) /\ Cardinality(UpTo(e, after, r)) \in Nat /\ UpTo(e, after, r) # {}
    BY <1>1, <1>2
  <2>2. Cardinality(UpTo(e, after, r)) # 0
    BY <2>1, FS_EmptySet
  <2> QED BY <2>1, <2>2, <1>3
<1>5. ASSUME NEW q \in L, NEW r \in L, q < r PROVE Position(e, after, q) < Position(e, after, r)
  <2> DEFINE A == UpTo(e, after, q)
             B == UpTo(e, after, r)
  <2>1. A \subseteq B /\ r \in B /\ r \notin A
    <3>1. A \subseteq B
      BY <1>1, <1>5 DEF UpTo, L
    <3>2. r \in B
      BY <1>2
    <3>3. r \notin A
      BY <1>1, <1>5 DEF UpTo, L
    <3> QED BY <3>1, <3>2, <3>3
  <2>2. IsFiniteSet(A) /\ IsFiniteSet(B) /\ Cardinality(A) \in Nat /\ Cardinality(B) \in Nat
    BY <1>1, <1>2
  <2> HIDE DEF A, B
  <2>3. A \in SUBSET B
    BY <2>1
  <2>4. Cardinality(A) <= Cardinality(B) /\ (Cardinality(B) = Cardinality(A) => B = A)
    BY <2>2, <2>3, FS_Subset
  <2>5. Cardinality(A) < Cardinality(B)
    BY <2>1, <2>2, <2>4
  <2> QED BY <2>5, <1>3 DEF A, B
<1> QED BY <1>4, <1>5 DEF L

\* Every position up to that of a row is that of a row: no gaps.
LEMMA NoGaps ==
  ASSUME NEW e, NEW after, NEW r \in Listed(e, after), NEW i \in 1..Position(e, after, r)
  PROVE  \E q \in Listed(e, after) : q <= r /\ Position(e, after, q) = i
<1> DEFINE L == Listed(e, after)
           A == UpTo(e, after, r)
           k == Position(e, after, r)
           f == [q \in A |-> Position(e, after, q)]
<1>1. L \subseteq Nat /\ \A S \in SUBSET L : IsFiniteSet(S) /\ Cardinality(S) \in Nat
  BY ListedFinite
<1>2. A \subseteq L /\ r \in A /\ (\A q \in A : q <= r) /\ k = Cardinality(A)
  BY <1>1 DEF UpTo, Position
<1>3. /\ \A q \in L : Position(e, after, q) \in Nat \ {0}
      /\ \A p, q \in L : p < q => Position(e, after, p) < Position(e, after, q)
  BY PositionsDistinct
<1>4. k \in Nat
  BY <1>2, <1>3
<1> HIDE DEF L, A, k
<1>5. \A q \in A : Position(e, after, q) \in 1..k
  <2> SUFFICES ASSUME NEW q \in A PROVE Position(e, after, q) \in 1..k
    OBVIOUS
  <2>1. q \in L /\ r \in L /\ q \in Nat /\ r \in Nat /\ q <= r
    BY <1>1, <1>2
  <2>2. q = r \/ q < r
    BY <2>1
  <2>3. Position(e, after, q) \in Nat \ {0} /\ (q < r => Position(e, after, q) < Position(e, after, r))
    BY <1>3, <2>1
  <2> QED BY <1>4, <2>2, <2>3 DEF k
<1>6. f \in [A -> 1..k]
  BY <1>5
<1>7. \A p, q \in A : f[p] = f[q] => p = q
  <2> SUFFICES ASSUME NEW p \in A, NEW q \in A, f[p] = f[q] PROVE p = q
    OBVIOUS
  <2>1. p \in L /\ q \in L /\ p \in Nat /\ q \in Nat
    BY <1>1, <1>2
  <2>2. p < q \/ q < p \/ p = q
    BY <2>1
  <2>3. Position(e, after, p) = Position(e, after, q) /\ Position(e, after, p) \in Nat
    BY <1>3, <2>1
  <2> QED BY <1>3, <2>1, <2>2, <2>3
<1>8. f \in Injection(A, 1..k)
  BY <1>6, <1>7 DEF Injection, IsInjective
<1>9. IsFiniteSet(1..k) /\ Cardinality(1..k) = k
  BY <1>4, FS_Interval
<1>10. f \in Surjection(A, 1..k)
  <2>1. Cardinality(A) = Cardinality(1..k)
    BY <1>2, <1>9
  <2> HIDE DEF f
  <2> QED BY <1>8, <1>9, <2>1, FS_Injection
<1>11. i \in 1..k
  BY DEF k
<1>12. \E q \in A : f[q] = i
  <2> HIDE DEF f
  <2> QED BY <1>10, <1>11 DEF Surjection
<1> QED BY <1>2, <1>12 DEF L

\* A page with fewer rows than a page holds is the last one with any.
LEMMA ShortPageIsLast ==
  ASSUME NEW e, NEW after, NEW p \in Nat \ {0}, Cardinality(Page(e, after, p)) < PageSize,
         NEW r \in Listed(e, after)
  PROVE  Position(e, after, r) <= p * PageSize
<1> DEFINE k == Position(e, after, r)
           lo == (p - 1) * PageSize
           hi == p * PageSize
<1>1. PageSize \in Nat \ {0}
  BY SizesAssumption
<1>2. lo \in Nat /\ hi \in Nat /\ hi = lo + PageSize
  BY <1>1
<1>3. k \in Nat \ {0}
  BY PositionsDistinct
<1> SUFFICES ASSUME k > hi PROVE FALSE
  BY <1>2, <1>3
<1>4. Page(e, after, p) = {q \in Listed(e, after) : Position(e, after, q) \in (lo + 1)..hi}
  BY DEF Page
<1> HIDE DEF k, lo, hi
<1> DEFINE P == Page(e, after, p)
           I == (lo + 1)..hi
           g == [q \in P |-> Position(e, after, q)]
<1>5. g \in [P -> I]
  BY <1>4
<1>6. \A i \in I : \E q \in P : Position(e, after, q) = i
  <2> SUFFICES ASSUME NEW i \in I PROVE \E q \in P : Position(e, after, q) = i
    OBVIOUS
  <2>1. i \in 1..Position(e, after, r)
    BY <1>2, <1>3 DEF k
  <2>2. PICK q \in Listed(e, after) : Position(e, after, q) = i
    BY <2>1, NoGaps
  <2> QED BY <2>2, <1>4
<1>7. g \in Surjection(P, I)
  BY <1>5, <1>6 DEF Surjection
<1>8. IsFiniteSet(P) /\ Cardinality(P) \in Nat
  <2>1. P \in SUBSET Listed(e, after)
    BY <1>4
  <2> QED BY <2>1, ListedFinite
<1>9. Cardinality(I) = PageSize
  <2>1. lo + 1 \in Int /\ hi \in Int
    BY <1>2
  <2>2. Cardinality(I) = IF lo + 1 > hi THEN 0 ELSE hi - (lo + 1) + 1
    BY <2>1, FS_Interval
  <2> QED BY <2>2, <1>1, <1>2
<1>10. Cardinality(I) <= Cardinality(P)
  <2> HIDE DEF g, P, I
  <2> QED BY <1>7, <1>8, FS_Surjection
<1> QED BY <1>1, <1>8, <1>9, <1>10

\* ... so that the pages after it are empty.
LEMMA LaterPagesEmpty ==
  ASSUME NEW e, NEW after, NEW p \in Nat \ {0}, Cardinality(Page(e, after, p)) < PageSize,
         NEW q \in Nat, q > p
  PROVE  Page(e, after, q) = {}
<1>1. PageSize \in Nat \ {0}
  BY SizesAssumption
<1>2. (q - 1) * PageSize >= p * PageSize
  <2>1. q - 1 - p \in Nat /\ p \in Nat
    OBVIOUS
  <2>2. (q - 1 - p) * PageSize >= 0
    BY <1>1, <2>1
  <2>3. (q - 1) * PageSize = p * PageSize + (q - 1 - p) * PageSize
    BY <1>1
  <2>4. p * PageSize \in Int /\ (q - 1) * PageSize \in Int /\ (q - 1 - p) * PageSize \in Int
    BY <1>1
  <2> QED BY <2>2, <2>3, <2>4
<1>3. \A r \in Listed(e, after) : Position(e, after, r) \in Nat /\ Position(e, after, r) <= p * PageSize
  BY ShortPageIsLast, PositionsDistinct
<1>4. p * PageSize \in Int /\ (q - 1) * PageSize \in Int
  BY <1>1
<1>5. \A r \in Listed(e, after) : Position(e, after, r) \notin ((q - 1) * PageSize + 1)..(q * PageSize)
  BY <1>2, <1>3, <1>4
<1> QED BY <1>5 DEF Page

-----------------------------------------------------------------------------
(* What each step makes of the run of its process *)

LEMMA RoundType ==
  ASSUME DataShape, NEW w \in Workers, NEW i \in Nat \ {0}
  PROVE  /\ Round(w, i) \in RunType /\ Round(w, i).i \in {1, i} /\ Round(w, i).alone = run[w].alone
         /\ Round(w, i).step \in {"rounds", "passes"} /\ Round(w, i).seen = 0
         /\ Round(w, i).step = "rounds" => Round(w, i).i <= Len(Endpoints)
<1>1. run[w].alone \in BOOLEAN
  BY RunFields
<1>2. Round(w, i) = IF i > Len(Endpoints) THEN Between("passes", 1, run[w].alone) ELSE Between("rounds", i, run[w].alone)
  <2>1. NoRun \in RunType /\ NoRun.i = 1
    BY NoRunType DEF NoRun
  <2> QED BY <2>1 DEF Round, Between, RunType
<1>3. "rounds" \in RunSteps /\ "passes" \in RunSteps /\ 1 \in Nat \ {0}
  BY DEF RunSteps
<1>4. CASE i > Len(Endpoints)
  <2>1. Round(w, i) = Between("passes", 1, run[w].alone)
    BY <1>2, <1>4
  <2> QED BY <2>1, <1>1, <1>3, BetweenType
<1>5. CASE ~(i > Len(Endpoints))
  <2>1. Round(w, i) = Between("rounds", i, run[w].alone)
    BY <1>2, <1>5
  <2>2. i <= Len(Endpoints)
    BY <1>5, EndpointsFinite
  <2> QED BY <2>1, <2>2, <1>1, <1>3, BetweenType
<1> QED BY <1>4, <1>5

LEMMA ReadDueSets ==
  ASSUME DataShape, RunShape, NEW w \in Workers, ReadDue(w)
  PROVE  /\ run' \in [Workers -> RunType] /\ Only(w)
         /\ run'[w].step \in {"rounds", "passes", "retry"}
         /\ run'[w].alone = run[w].alone /\ run'[w].seen <= clock
         /\ run'[w].step \in AtEndpoint => run'[w].i <= Len(Endpoints)
<1>1. run[w].step = "rounds" /\ run[w].i <= Len(Endpoints) /\ E(w) \in Selected /\ run[w].seen <= clock
  BY AtOneEndpoint DEF ReadDue, At, RunShape, ShapeOf, AtEndpoint
<1>2. PICK due \in SUBSET Pending(E(w)) :
        run' = [run EXCEPT ![w] = IF due = {} THEN Round(w, run[w].i + 1)
                                  ELSE [@ EXCEPT !.step = "retry", !.due = [p \in due |-> backlog[E(w)][p].tries]]]
  BY DEF ReadDue
<1> DEFINE d == [p \in due |-> backlog[E(w)][p].tries]
           new == [run[w] EXCEPT !.step = "retry", !.due = d]
<1>3. d \in DueType
  <2>1. due \in SUBSET Pages
    BY DEF Pending
  <2>2. d \in [due -> Nat]
    BY <1>1, <2>1 DEF DataShape, EntryType
  <2> QED BY <2>1, <2>2, DueFacts
<1> HIDE DEF d
<1>4. new \in RunType /\ new.step = "retry" /\ new.alone = run[w].alone /\ new.i = run[w].i /\ new.seen = run[w].seen
  BY <1>3, RunIn DEF RunType, RunSteps
<1> HIDE DEF new
<1>5. CASE due = {}
  <2>1. run[w].i + 1 \in Nat \ {0}
    BY RunFields
  <2>2. run' = [run EXCEPT ![w] = Round(w, run[w].i + 1)]
    BY <1>2, <1>5 DEF DataShape
  <2>3. clock \in Nat
    BY DEF DataShape
  <2> DEFINE next == Round(w, run[w].i + 1)
  <2>4. /\ next \in RunType /\ next.alone = run[w].alone
        /\ next.step \in {"rounds", "passes"} /\ next.seen = 0
        /\ next.step = "rounds" => next.i <= Len(Endpoints)
    BY <2>1, RoundType
  <2> HIDE DEF next
  <2>5. run' \in [Workers -> RunType] /\ run'[w] = next /\ Only(w)
    BY <2>2, <2>4, RunSet DEF next
  <2> QED BY <2>3, <2>4, <2>5 DEF AtEndpoint
<1>6. CASE due # {}
  <2>1. run' = [run EXCEPT ![w] = new]
    BY <1>2, <1>6 DEF DataShape, new, d
  <2> QED BY <2>1, <1>1, <1>4, RunSet
<1> QED BY <1>5, <1>6

LEMMA KeptType ==
  ASSUME DataShape, NEW e \in Selected, NEW S \in SUBSET Rows
  PROVE  Kept(e, S) \in HaveType /\ (e # "projects_v3" => Kept(e, S) = Copy(e, S))
BY CopyType, NothingType DEF Kept

LEMMA RetryFetchedSets ==
  ASSUME DataShape, RunShape, NEW w \in Workers, NEW p \in Pages, RetryFetched(w, p)
  PROVE  /\ run' \in [Workers -> RunType] /\ Only(w)
         /\ run'[w].step = "retried" /\ run'[w].page = p /\ run'[w].seen = clock
         /\ run'[w].have = Kept(E(w), Page(E(w), 0, p)) /\ run'[w].i = run[w].i
         /\ run'[w].alone = run[w].alone /\ run'[w].due = run[w].due
<1> DEFINE h == Kept(E(w), Page(E(w), 0, p))
           new == [run[w] EXCEPT !.step = "retried", !.page = p, !.seen = clock, !.have = h, !.still = TRUE]
<1>1. E(w) \in Selected
  BY AtOneEndpoint DEF RetryFetched, At, AtEndpoint
<1>2. h \in HaveType
  BY <1>1, KeptType DEF Page, Listed
<1>3. run' = [run EXCEPT ![w].step = "retried", ![w].page = p, ![w].seen = clock, ![w].have = h, ![w].still = TRUE]
  BY DEF RetryFetched
<1> HIDE DEF h
<1>4. new \in RunType /\ new.step = "retried" /\ new.page = p /\ new.seen = clock /\ new.have = h
      /\ new.i = run[w].i /\ new.alone = run[w].alone /\ new.due = run[w].due
  <2>1. p \in Nat /\ clock \in Nat
    BY PagesNat DEF DataShape
  <2> QED BY <1>2, <2>1, RunIn DEF RunType, RunSteps
<1>5. run' = [run EXCEPT ![w] = new]
  <2>1. run \in [Workers -> RunType]
    BY DEF DataShape
  <2> QED BY <1>3, <2>1
<1> HIDE DEF new
<1> QED BY <1>4, <1>5, RunSet DEF h

\* A run goes back to its retries, without the page it is done with.
LEMMA BackToRetry ==
  ASSUME DataShape, NEW w \in Workers, NEW p,
         run' = [run EXCEPT ![w].step = "retry", ![w].due = Forget(w, p), ![w].have = Nothing]
  PROVE  /\ run' \in [Workers -> RunType] /\ Only(w)
         /\ run'[w].step = "retry" /\ run'[w].i = run[w].i /\ run'[w].alone = run[w].alone
         /\ run'[w].seen = run[w].seen /\ run'[w].still = run[w].still
<1> DEFINE d == Forget(w, p)
           new == [run[w] EXCEPT !.step = "retry", !.due = d, !.have = Nothing]
<1>1. d \in DueType
  BY ForgetType
<1> HIDE DEF d
<1>2. run' = [run EXCEPT ![w] = new]
  <2>1. run \in [Workers -> RunType]
    BY DEF DataShape
  <2>2. run' = [run EXCEPT ![w].step = "retry", ![w].due = d, ![w].have = Nothing]
    BY DEF d
  <2> QED BY <2>1, <2>2
<1>3. new \in RunType /\ new.step = "retry" /\ new.i = run[w].i /\ new.alone = run[w].alone
      /\ new.seen = run[w].seen /\ new.still = run[w].still
  BY <1>1, RunIn, NothingType DEF RunType, RunSteps
<1> HIDE DEF new
<1> QED BY <1>2, <1>3, RunSet

\* A run changes its step alone.
LEMMA StepSets ==
  ASSUME DataShape, NEW w \in Workers, NEW s \in RunSteps, run' = [run EXCEPT ![w].step = s]
  PROVE  /\ run' \in [Workers -> RunType] /\ Only(w)
         /\ run'[w].step = s /\ run'[w].i = run[w].i /\ run'[w].due = run[w].due
         /\ run'[w].page = run[w].page /\ run'[w].after = run[w].after /\ run'[w].last = run[w].last
         /\ run'[w].have = run[w].have /\ run'[w].seen = run[w].seen /\ run'[w].full = run[w].full
         /\ run'[w].alone = run[w].alone /\ run'[w].still = run[w].still
<1> DEFINE new == [run[w] EXCEPT !.step = s]
<1>1. run' = [run EXCEPT ![w] = new]
  BY DEF DataShape
<1>2. /\ new \in RunType /\ new.step = s /\ new.i = run[w].i /\ new.due = run[w].due
      /\ new.page = run[w].page /\ new.after = run[w].after /\ new.last = run[w].last
      /\ new.have = run[w].have /\ new.seen = run[w].seen /\ new.full = run[w].full
      /\ new.alone = run[w].alone /\ new.still = run[w].still
  BY RunFields DEF DataShape, RunType
<1> HIDE DEF new
<1> QED BY <1>1, <1>2, RunSet

LEMMA RoundDoneSets ==
  ASSUME DataShape, RunShape, NEW w \in Workers, RoundDone(w)
  PROVE  /\ run' \in [Workers -> RunType] /\ Only(w)
         /\ run'[w].step \in {"rounds", "passes"}
         /\ run'[w].alone = run[w].alone /\ run'[w].seen <= clock
         /\ run'[w].step \in AtEndpoint => run'[w].i <= Len(Endpoints)
<1>1. run[w].i + 1 \in Nat \ {0} /\ clock \in Nat
  BY RunFields DEF DataShape
<1>2. run' = [run EXCEPT ![w] = Round(w, run[w].i + 1)]
  BY DEF RoundDone
<1> DEFINE next == Round(w, run[w].i + 1)
<1>3. /\ next \in RunType /\ next.alone = run[w].alone
      /\ next.step \in {"rounds", "passes"} /\ next.seen = 0
      /\ next.step = "rounds" => next.i <= Len(Endpoints)
  BY <1>1, RoundType
<1> HIDE DEF next
<1>4. run' \in [Workers -> RunType] /\ run'[w] = next /\ Only(w)
  BY <1>2, <1>3, RunSet DEF next
<1> QED BY <1>1, <1>3, <1>4 DEF AtEndpoint

\* The run of a pass that begins.
PassFrom(r, first, after, at, time, full, lone) ==
  [r EXCEPT !.step = "fetch", !.page = first, !.after = after, !.last = at,
            !.seen = time, !.full = full, !.alone = lone, !.still = TRUE]

LEMMA PassRecord ==
  ASSUME NEW r \in RunType, NEW first \in Nat, NEW after \in Nat, NEW at \in Nat, NEW time \in Nat,
         NEW full \in BOOLEAN, NEW lone \in BOOLEAN
  PROVE  /\ PassFrom(r, first, after, at, time, full, lone) \in RunType
         /\ PassFrom(r, first, after, at, time, full, lone).step = "fetch"
         /\ PassFrom(r, first, after, at, time, full, lone).i = r.i
         /\ PassFrom(r, first, after, at, time, full, lone).page = first
         /\ PassFrom(r, first, after, at, time, full, lone).after = after
         /\ PassFrom(r, first, after, at, time, full, lone).seen = time
         /\ PassFrom(r, first, after, at, time, full, lone).alone = lone
         /\ PassFrom(r, first, after, at, time, full, lone).full = full
BY DEF PassFrom, RunType, RunSteps

LEMMA StartPassSets ==
  ASSUME DataShape, RunShape, NEW w \in Workers, StartPass(w)
  PROVE  /\ run' \in [Workers -> RunType] /\ Only(w)
         /\ run'[w].step = "fetch" /\ run'[w].i = run[w].i /\ run'[w].i <= Len(Endpoints)
         /\ run'[w].page > 0 /\ run'[w].seen = clock
         /\ run'[w].alone = Alone(w)
         /\ run'[w].full = (run'[w].page = 1 /\ run'[w].after = 0)
         /\ Type(w) = "bootstrap" => run'[w].full
<1> DEFINE first == IF Type(w) = "bootstrap" THEN 1 ELSE endpoint[E(w)].page + 1
           after == IF StrictDelta(w) THEN endpoint[E(w)].mark ELSE 0
           new == [run[w] EXCEPT !.step = "fetch", !.page = first, !.after = after, !.last = endpoint[E(w)].page,
                                 !.seen = clock, !.full = (first = 1 /\ after = 0),
                                 !.alone = Alone(w), !.still = TRUE]
<1>1. run[w].i \in 1..Len(Endpoints) /\ E(w) \in Selected
  <2>1. run[w].i \in Nat \ {0} /\ ~(run[w].i > Len(Endpoints)) /\ Len(Endpoints) \in Nat
    BY RunFields, EndpointsFinite DEF StartPass, AtEnd
  <2>2. run[w].i \in 1..Len(Endpoints)
    BY <2>1
  <2> QED BY <2>2, EndpointsFinite DEF E
<1>2. endpoint[E(w)].page \in Nat /\ endpoint[E(w)].mark \in Nat /\ clock \in Nat
  BY <1>1 DEF DataShape, StateType
<1>3. first \in Nat \ {0} /\ after \in Nat /\ Alone(w) \in BOOLEAN /\ (first = 1 /\ after = 0) \in BOOLEAN
  BY <1>2 DEF Alone
<1>4. run' = [run EXCEPT ![w] = new]
  <2>1. run' = [run EXCEPT ![w].step = "fetch", ![w].page = first, ![w].after = after, ![w].last = endpoint[E(w)].page,
                           ![w].seen = clock, ![w].full = (first = 1 /\ after = 0),
                           ![w].alone = Alone(w), ![w].still = TRUE]
    BY DEF StartPass
  <2> HIDE DEF first, after
  <2>2. run \in [Workers -> RunType]
    BY DEF DataShape
  <2> QED BY <2>1, <2>2
<1>5. Type(w) = "bootstrap" => first = 1 /\ after = 0
  BY DEF StrictDelta
<1> DEFINE lone == Alone(w)
           full == (first = 1 /\ after = 0)
           at == endpoint[E(w)].page
<1>6. new = [run[w] EXCEPT !.step = "fetch", !.page = first, !.after = after, !.last = at,
                           !.seen = clock, !.full = full, !.alone = lone, !.still = TRUE]
  OBVIOUS
<1>7. lone \in BOOLEAN /\ full \in BOOLEAN /\ at \in Nat /\ (full <=> first = 1 /\ after = 0) /\ lone = Alone(w)
  BY <1>2, <1>3
<1> HIDE DEF first, after, new, lone, full, at
<1>8. new \in RunType /\ new.step = "fetch" /\ new.i = run[w].i /\ new.page = first /\ new.after = after
      /\ new.seen = clock /\ new.alone = lone /\ new.full = full
  <2>1. /\ run[w] \in RunType /\ first \in Nat /\ after \in Nat /\ at \in Nat /\ clock \in Nat
        /\ full \in BOOLEAN /\ lone \in BOOLEAN
    BY <1>2, <1>3, <1>7 DEF DataShape
  <2>2. PICK b \in BOOLEAN, c \in BOOLEAN : b = full /\ c = lone
    BY <2>1
  <2>3. PICK r \in RunType, f \in Nat, a \in Nat, l \in Nat, t \in Nat :
          r = run[w] /\ f = first /\ a = after /\ l = at /\ t = clock
    BY <2>1
  <2>4. new = PassFrom(r, f, a, l, t, b, c)
    BY <1>6, <2>2, <2>3 DEF PassFrom
  <2>5. /\ PassFrom(r, f, a, l, t, b, c) \in RunType
        /\ PassFrom(r, f, a, l, t, b, c).step = "fetch"
        /\ PassFrom(r, f, a, l, t, b, c).i = r.i
        /\ PassFrom(r, f, a, l, t, b, c).page = f
        /\ PassFrom(r, f, a, l, t, b, c).after = a
        /\ PassFrom(r, f, a, l, t, b, c).seen = t
        /\ PassFrom(r, f, a, l, t, b, c).alone = c
        /\ PassFrom(r, f, a, l, t, b, c).full = b
    BY PassRecord
  <2> QED BY <2>2, <2>3, <2>4, <2>5
<1>9. run' \in [Workers -> RunType] /\ run'[w] = new /\ Only(w)
  BY <1>4, <1>8, RunSet DEF new
<1>10. run[w].i <= Len(Endpoints) /\ first > 0
  BY <1>1, <1>3, EndpointsFinite
<1>11. Type(w) = "bootstrap" => full
  BY <1>5, <1>7
<1> QED BY <1>7, <1>8, <1>9, <1>10, <1>11

LEMMA FetchPageSets ==
  ASSUME DataShape, RunShape, NEW w \in Workers, FetchPage(w)
  PROVE  /\ run' \in [Workers -> RunType] /\ Only(w)
         /\ run'[w].step = "have" /\ run'[w].have = Copy(E(w), Page(E(w), run[w].after, run[w].page))
         /\ run'[w].i = run[w].i /\ run'[w].page = run[w].page /\ run'[w].after = run[w].after
         /\ run'[w].seen = run[w].seen /\ run'[w].full = run[w].full
         /\ run'[w].alone = run[w].alone /\ run'[w].still = run[w].still
<1> DEFINE h == Copy(E(w), Page(E(w), run[w].after, run[w].page))
           new == [run[w] EXCEPT !.step = "have", !.have = h]
<1>1. E(w) \in Selected
  BY AtOneEndpoint DEF FetchPage, At, AtEndpoint
<1>2. h \in HaveType
  BY <1>1, CopyType DEF Page, Listed
<1> HIDE DEF h
<1>3. run' = [run EXCEPT ![w] = new]
  <2>1. run \in [Workers -> RunType]
    BY DEF DataShape
  <2>2. run' = [run EXCEPT ![w].step = "have", ![w].have = h]
    BY DEF FetchPage, h
  <2> QED BY <2>1, <2>2
<1>4. new \in RunType /\ new.step = "have" /\ new.have = h
      /\ new.i = run[w].i /\ new.page = run[w].page /\ new.after = run[w].after
      /\ new.seen = run[w].seen /\ new.full = run[w].full
      /\ new.alone = run[w].alone /\ new.still = run[w].still
  BY <1>2, RunIn DEF RunType, RunSteps
<1> HIDE DEF new
<1> QED BY <1>3, <1>4, RunSet DEF h

LEMMA NextPageSets ==
  ASSUME DataShape, RunShape, NEW w \in Workers, NextPage(w)
  PROVE  /\ run' \in [Workers -> RunType] /\ Only(w)
         /\ \/ /\ Cardinality(DOMAIN run[w].have) < PageSize
               /\ run'[w].step = "ending" /\ run'[w].page = run[w].page
            \/ /\ ~(Cardinality(DOMAIN run[w].have) < PageSize)
               /\ run'[w].step = "fetch" /\ run'[w].page = run[w].page + 1
         /\ run'[w].i = run[w].i /\ run'[w].after = run[w].after
         /\ run'[w].seen = run[w].seen /\ run'[w].full = run[w].full
         /\ run'[w].alone = run[w].alone /\ run'[w].still = run[w].still
<1> DEFINE rows == Cardinality(DOMAIN run[w].have)
           s == IF rows < PageSize THEN "ending" ELSE "fetch"
           l == IF rows > 0 THEN run[w].page ELSE run[w].last
           g == IF rows < PageSize THEN run[w].page ELSE run[w].page + 1
           new == [run[w] EXCEPT !.step = s, !.last = l, !.page = g, !.have = Nothing]
<1>1. run' = [run EXCEPT ![w].step = s, ![w].last = l, ![w].page = g, ![w].have = Nothing]
  <2>1. run \in [Workers -> RunType]
    BY DEF DataShape
  <2> QED BY <2>1 DEF NextPage
<1>2. s \in {"ending", "fetch"} /\ l \in Nat /\ g \in Nat
  BY RunFields
<1>3. \/ rows < PageSize /\ s = "ending" /\ g = run[w].page
      \/ ~(rows < PageSize) /\ s = "fetch" /\ g = run[w].page + 1
  OBVIOUS
<1> HIDE DEF s, l, g
<1>4. run' = [run EXCEPT ![w] = new]
  <2>1. run \in [Workers -> RunType]
    BY DEF DataShape
  <2> QED BY <1>1, <2>1
<1>5. /\ new \in RunType /\ new.step = s /\ new.page = g
      /\ new.i = run[w].i /\ new.after = run[w].after
      /\ new.seen = run[w].seen /\ new.full = run[w].full
      /\ new.alone = run[w].alone /\ new.still = run[w].still
  BY <1>2, RunIn, NothingType DEF RunType, RunSteps
<1> HIDE DEF new
<1> QED BY <1>3, <1>4, <1>5, RunSet

LEMMA PageFailedSets ==
  ASSUME DataShape, RunShape, NEW w \in Workers, NEW retryable \in BOOLEAN, PageFailed(w, retryable)
  PROVE  /\ run' \in [Workers -> RunType] /\ Only(w)
         /\ run'[w].step = "fetch" /\ run'[w].page = run[w].page + 1
         /\ run'[w].i = run[w].i /\ run'[w].after = run[w].after
         /\ run'[w].seen = run[w].seen /\ run'[w].full = run[w].full
         /\ run'[w].alone = run[w].alone /\ run'[w].still = run[w].still
<1> DEFINE g == run[w].page + 1
           new == [run[w] EXCEPT !.step = "fetch", !.page = g, !.have = Nothing]
<1>1. run' = [run EXCEPT ![w] = new]
  <2>1. run \in [Workers -> RunType]
    BY DEF DataShape
  <2>2. run' = [run EXCEPT ![w].step = "fetch", ![w].page = @ + 1, ![w].have = Nothing]
    BY DEF PageFailed
  <2> QED BY <2>1, <2>2
<1>2. g \in Nat
  BY RunFields
<1>3. /\ new \in RunType /\ new.step = "fetch" /\ new.page = g
      /\ new.i = run[w].i /\ new.after = run[w].after
      /\ new.seen = run[w].seen /\ new.full = run[w].full
      /\ new.alone = run[w].alone /\ new.still = run[w].still
  BY <1>2, RunIn, NothingType DEF RunType, RunSteps
<1> HIDE DEF new
<1> QED BY <1>1, <1>3, RunSet

\* The end of a pass, as it should be or not.
LEMMA NextEndpointSets ==
  ASSUME DataShape, RunShape, NEW w \in Workers, EndPass(w) \/ SkipEnrichment(w)
  PROVE  /\ run' \in [Workers -> RunType] /\ Only(w)
         /\ run'[w].step = "passes" /\ run'[w].alone = run[w].alone /\ run'[w].seen = 0
<1>1. run[w].i + 1 \in Nat \ {0} /\ run[w].alone \in BOOLEAN
  BY RunFields
<1>2. run' = [run EXCEPT ![w] = Between("passes", run[w].i + 1, run[w].alone)]
  BY DEF EndPass, SkipEnrichment, Between
<1> DEFINE next == Between("passes", run[w].i + 1, run[w].alone)
<1>3. "passes" \in RunSteps
  BY DEF RunSteps
<1>4. next \in RunType /\ next.step = "passes" /\ next.alone = run[w].alone /\ next.seen = 0
  BY <1>1, <1>3, BetweenType
<1> HIDE DEF next
<1> QED BY <1>2, <1>4, RunSet DEF next

LEMMA LeaveSets ==
  ASSUME DataShape, NEW w \in Workers, Leave(w)
  PROVE  run' \in [Workers -> RunType] /\ Only(w) /\ run'[w].step = "none" /\ run'[w].seen = 0
BY NoRunType, RunSet DEF Leave, NoRun

\* A claim starts one run and takes the others' being alone from them.
LEMMA StartSets ==
  ASSUME DataShape, NEW w \in Workers, NEW j \in Jobs, Start(w, j)
  PROVE  /\ run' \in [Workers -> RunType]
         /\ run'[w].step = "rounds" /\ run'[w].alone = Alone(w) /\ run'[w].i = 1 /\ run'[w].seen = 0
         /\ \A v \in Workers : v # w =>
              /\ ~Working(v) => run'[v] = run[v]
              /\ Working(v) => run'[v].alone = FALSE
              /\ run'[v].step = run[v].step /\ run'[v].i = run[v].i /\ run'[v].page = run[v].page
              /\ run'[v].after = run[v].after /\ run'[v].full = run[v].full
              /\ run'[v].due = run[v].due /\ run'[v].seen = run[v].seen
<1> DEFINE lone == Alone(w)
           new == [NoRun EXCEPT !.step = "rounds", !.alone = lone]
<1>1. lone \in BOOLEAN
  BY DEF Alone
<1>2. \A v \in Workers : run'[v] = IF v = w THEN new
                                   ELSE IF Working(v) THEN [run[v] EXCEPT !.alone = FALSE] ELSE run[v]
  BY DEF Start
<1>3. run' = [v \in Workers |-> IF v = w THEN new
                                ELSE IF Working(v) THEN [run[v] EXCEPT !.alone = FALSE] ELSE run[v]]
  BY DEF Start
<1> HIDE DEF lone
<1>4. new \in RunType /\ new.step = "rounds" /\ new.alone = lone /\ new.i = 1 /\ new.seen = 0
  <2>1. NoRun \in RunType /\ NoRun.i = 1 /\ NoRun.seen = 0
    BY NoRunType DEF NoRun
  <2> QED BY <1>1, <2>1 DEF RunType, RunSteps
<1> HIDE DEF new
<1>5. ASSUME NEW v \in Workers
      PROVE  LET r == [run[v] EXCEPT !.alone = FALSE]
             IN  /\ r \in RunType /\ r.alone = FALSE
                 /\ r.step = run[v].step /\ r.i = run[v].i /\ r.page = run[v].page
                 /\ r.after = run[v].after /\ r.full = run[v].full /\ r.due = run[v].due /\ r.seen = run[v].seen
  BY DEF DataShape, RunType
<1>6. \A v \in Workers : run'[v] \in RunType
  BY <1>2, <1>4, <1>5 DEF DataShape
<1>7. run' \in [Workers -> RunType]
  BY <1>3, <1>6
<1>8. run'[w] = new
  BY <1>2
<1>9. ASSUME NEW v \in Workers, v # w, ~Working(v) PROVE run'[v] = run[v]
  BY <1>2, <1>9
<1>10. ASSUME NEW v \in Workers, v # w, Working(v) PROVE run'[v] = [run[v] EXCEPT !.alone = FALSE]
  BY <1>2, <1>10
<1>11. ASSUME NEW v \in Workers, v # w
       PROVE  /\ ~Working(v) => run'[v] = run[v]
              /\ Working(v) => run'[v].alone = FALSE
              /\ run'[v].step = run[v].step /\ run'[v].i = run[v].i /\ run'[v].page = run[v].page
              /\ run'[v].after = run[v].after /\ run'[v].full = run[v].full
              /\ run'[v].due = run[v].due /\ run'[v].seen = run[v].seen
  <2>1. CASE Working(v)
    <3>1. run'[v] = [run[v] EXCEPT !.alone = FALSE]
      BY <1>10, <1>11, <2>1
    <3> QED BY <1>5, <2>1, <3>1
  <2>2. CASE ~Working(v)
    BY <1>9, <1>11, <2>2
  <2> QED BY <2>1, <2>2
<1> QED BY <1>4, <1>7, <1>8, <1>11 DEF lone

\* A change of a listing reaches only what the runs remember of its standing still.
LEMMA MovesSets ==
  ASSUME DataShape, NEW e, Moves(e) \/ UNCHANGED run
  PROVE  /\ run' \in [Workers -> RunType]
         /\ \A v \in Workers :
              /\ run'[v].step = run[v].step /\ run'[v].i = run[v].i /\ run'[v].page = run[v].page
              /\ run'[v].after = run[v].after /\ run'[v].full = run[v].full /\ run'[v].have = run[v].have
              /\ run'[v].due = run[v].due /\ run'[v].seen = run[v].seen /\ run'[v].alone = run[v].alone
              /\ run'[v].still => run[v].still
         /\ Moves(e) => \A v \in Workers : Working(v) /\ run[v].step \notin {"rounds", "passes"} /\ E(v) = e
                                            => ~run'[v].still
<1>1. CASE UNCHANGED run /\ ~Moves(e)
  BY <1>1 DEF DataShape
<1>2. CASE Moves(e)
  <2>1. ASSUME NEW v \in Workers
        PROVE  LET r == [run[v] EXCEPT !.still = FALSE]
               IN  /\ r \in RunType /\ r.still = FALSE
                   /\ r.step = run[v].step /\ r.i = run[v].i /\ r.page = run[v].page
                   /\ r.after = run[v].after /\ r.full = run[v].full /\ r.due = run[v].due /\ r.seen = run[v].seen
                   /\ r.have = run[v].have /\ r.alone = run[v].alone
    BY DEF DataShape, RunType
  <2>2. \A v \in Workers : run'[v] = IF Working(v) /\ run[v].step \notin {"rounds", "passes"} /\ E(v) = e
                                     THEN [run[v] EXCEPT !.still = FALSE] ELSE run[v]
    BY <1>2 DEF Moves
  <2>3. \A v \in Workers : run'[v] \in RunType
    BY <2>1, <2>2 DEF DataShape
  <2>4. run' \in [Workers -> RunType]
    BY <1>2, <2>3 DEF Moves
  <2>5. ASSUME NEW v \in Workers
        PROVE  /\ run'[v].step = run[v].step /\ run'[v].i = run[v].i /\ run'[v].page = run[v].page
               /\ run'[v].after = run[v].after /\ run'[v].full = run[v].full /\ run'[v].have = run[v].have
               /\ run'[v].due = run[v].due /\ run'[v].seen = run[v].seen /\ run'[v].alone = run[v].alone
               /\ run'[v].still => run[v].still
               /\ Working(v) /\ run[v].step \notin {"rounds", "passes"} /\ E(v) = e => ~run'[v].still
    <3>1. CASE Working(v) /\ run[v].step \notin {"rounds", "passes"} /\ E(v) = e
      <4>1. run'[v] = [run[v] EXCEPT !.still = FALSE]
        BY <2>2, <3>1
      <4> QED BY <2>1, <4>1
    <3>2. CASE ~(Working(v) /\ run[v].step \notin {"rounds", "passes"} /\ E(v) = e)
      <4>1. run'[v] = run[v]
        BY <2>2, <3>2
      <4> QED BY <3>2, <4>1
    <3> QED BY <3>1, <3>2
  <2> QED BY <2>4, <2>5
<1> QED BY <1>1, <1>2

-----------------------------------------------------------------------------
(* What a step leaves alone *)

\* Nothing is told of a run that is disturbed, or between its pages.
LEMMA NoStory ==
  ASSUME NEW w, ~Undisturbed(w)' \/ run'[w].step \notin PassSteps \cup {"retried", "resolving"}
  PROVE  Story(w)'
BY DEF Story, Passing, Retrying

\* A step of a process that works touches the run of no other, and whoever
\* works beside it is not alone.
LEMMA OthersStory ==
  ASSUME SInv, NEW w \in Workers, Working(w), UNCHANGED clock, Only(w), NEW v \in Workers, v # w,
         worker'[v] = worker[v], Working(v) => Type(v)' = Type(v)
  PROVE  ShapeOf(v)' /\ FullPass(v)' /\ Story(v)'
<1>1. run'[v] = run[v]
  BY DEF Only
<1>2. ShapeOf(v) /\ FullPass(v)
  BY DEF SInv, RunShape, FullPasses
<1>3. ShapeOf(v)'
  BY <1>1, <1>2 DEF ShapeOf, Working
<1>4. FullPass(v)'
  BY <1>1, <1>2 DEF FullPass, ShapeOf, PassSteps
<1>5. Story(v)'
  <2>1. CASE Working(v)
    <3>1. ~run[v].alone
      BY <2>1 DEF SInv, Loneliness, Alone
    <3> QED BY <1>1, <3>1, NoStory DEF Undisturbed
  <2>2. CASE ~Working(v)
    <3>1. run'[v].step = "none"
      BY <1>1, <1>2, <2>2 DEF ShapeOf
    <3> QED BY <3>1, NoStory DEF PassSteps
  <2> QED BY <2>1, <2>2
<1> QED BY <1>3, <1>4, <1>5

\* So what is left to show for such a step is what it does to its own run.
LEMMA OwnStep ==
  ASSUME SInv, NEW w \in Workers, Working(w), UNCHANGED <<job, worker, clock>>, Only(w), DataShape',
         ShapeOf(w)', FullPass(w)', Story(w)', run'[w].alone => run[w].alone \/ Alone(w)
  PROVE  SInv'
<1>1. ASSUME NEW v \in Workers, v # w PROVE ShapeOf(v)' /\ FullPass(v)' /\ Story(v)'
  <2>1. worker'[v] = worker[v] /\ Type(v)' = Type(v)
    BY DEF Type
  <2> QED BY <1>1, <2>1, OthersStory
<1>2. RunShape' /\ FullPasses' /\ \A v \in Workers : Story(v)'
  BY <1>1 DEF RunShape, FullPasses
<1>3. NoManualJobs'
  BY DEF SInv, NoManualJobs
<1>4. Loneliness'
  <2> SUFFICES ASSUME NEW v \in Workers, Working(v), run'[v].alone PROVE Alone(v)
    BY DEF Loneliness, Working, Alone
  <2>1. CASE v = w
    BY <2>1 DEF SInv, Loneliness
  <2>2. CASE v # w
    BY <2>2 DEF SInv, Loneliness, Only
  <2> QED BY <2>1, <2>2
<1> QED BY <1>2, <1>3, <1>4 DEF SInv

\* The rows of a listing stand for a run: none enters or leaves it, and those
\* the run takes for settled are unchanged.
RowsStand(w, e) ==
  /\ Listed(e, 0)' = Listed(e, 0)
  /\ \A r \in Rows : Settled(w, e, r)' => Settled(w, e, r) /\ remote'[e][r] = remote[e][r]

LEMMA ListingStays ==
  ASSUME NEW w, NEW e \in Selected, remote' = remote, run'[w].seen = run[w].seen
  PROVE  RowsStand(w, e)
BY DEF RowsStand, Listed, Settled

LEMMA SamePages ==
  ASSUME NEW e, Listed(e, 0)' = Listed(e, 0)
  PROVE  /\ \A p : Page(e, 0, p)' = Page(e, 0, p)
         /\ \A r : Position(e, 0, r)' = Position(e, 0, r)
<1>1. \A r : Position(e, 0, r)' = Position(e, 0, r)
  BY DEF Position
<1>2. \A p : Page(e, 0, p)' = Page(e, 0, p)
  BY <1>1 DEF Page
<1> QED BY <1>1, <1>2

LEMMA StillUpToDate ==
  ASSUME NEW w, NEW e, NEW p, RowsStand(w, e), UNCHANGED store, UpToDate(w, e, p)
  PROVE  UpToDate(w, e, p)'
<1>1. Page(e, 0, p)' = Page(e, 0, p) /\ Page(e, 0, p) \subseteq Rows
  BY SamePages DEF RowsStand, Page, Listed
<1>2. ASSUME NEW r \in Page(e, 0, p), Settled(w, e, r)', Known(e, r)' PROVE store'[e][r] = remote'[e][r]
  <2>1. Settled(w, e, r) /\ remote'[e][r] = remote[e][r]
    BY <1>1, <1>2 DEF RowsStand
  <2>2. Known(e, r)
    BY <1>2 DEF Known
  <2> QED BY <2>1, <2>2 DEF UpToDate
<1> QED BY <1>1, <1>2 DEF UpToDate

LEMMA StillFits ==
  ASSUME NEW w, NEW e, NEW p, RowsStand(w, e), run'[w].have = run[w].have, HaveFits(w, e, p)
  PROVE  HaveFits(w, e, p)'
<1>1. Page(e, 0, p)' = Page(e, 0, p) /\ Page(e, 0, p) \subseteq Rows
  BY SamePages DEF RowsStand, Page, Listed
<1> QED BY <1>1 DEF RowsStand, HaveFits

\* Rows as the run saw them, or later ones, put in the place of stored ones:
\* the pages stored stay so, and the page in hand becomes one.
LEMMA UpsertKeeps ==
  ASSUME DataShape, NEW w, NEW e \in Selected, NEW p, NEW h, RowsStand(w, e), Upsert(e, h),
         \A r \in DOMAIN h : Settled(w, e, r) => h[r] = remote[e][r],
         UpToDate(w, e, p) \/ DOMAIN h = Page(e, 0, p)
  PROVE  UpToDate(w, e, p)'
<1>1. Page(e, 0, p)' = Page(e, 0, p) /\ Page(e, 0, p) \subseteq Rows
  BY SamePages DEF RowsStand, Page, Listed
<1>2. \A r : Known(e, r)' = Known(e, r)
  <2>1. e = "projects_v3" /\ "projects_v4" \in Selected => store'["projects_v4"] = store["projects_v4"]
    BY DEF Upsert, DataShape
  <2> QED BY <2>1 DEF Known
<1>3. \A r \in Rows : store'[e][r] = IF r \in DOMAIN h /\ Known(e, r) THEN h[r] ELSE store[e][r]
  BY DEF Upsert, DataShape
<1>4. ASSUME NEW r \in Page(e, 0, p), Settled(w, e, r)', Known(e, r)' PROVE store'[e][r] = remote'[e][r]
  <2>1. r \in Rows /\ Settled(w, e, r) /\ remote'[e][r] = remote[e][r]
    BY <1>1, <1>4 DEF RowsStand
  <2>2. Known(e, r)
    BY <1>2, <1>4
  <2>3. CASE r \in DOMAIN h
    BY <1>3, <2>1, <2>2, <2>3
  <2>4. CASE r \notin DOMAIN h
    <3>1. UpToDate(w, e, p)
      BY <2>4
    <3>2. store[e][r] = remote[e][r]
      BY <3>1, <2>1, <2>2 DEF UpToDate
    <3> QED BY <3>2, <1>3, <2>1, <2>4
  <2> QED BY <2>3, <2>4
<1> QED BY <1>1, <1>4 DEF UpToDate

-----------------------------------------------------------------------------
(* The story goes on *)

\* A step that touches neither a run's place nor what is stored leaves its
\* story as it is, when the rows stand for it.
LEMMA FrameStory ==
  ASSUME NEW w \in Workers, UNCHANGED <<store, source, backlog>>, Story(w),
         run'[w].step = run[w].step, run'[w].i = run[w].i, run'[w].page = run[w].page,
         run'[w].full = run[w].full, worker'[w].job = worker[w].job, Type(w)' = Type(w),
         Undisturbed(w)' => Undisturbed(w) /\ run'[w].have = run[w].have,
         Undisturbed(w)' /\ run[w].step \in PassSteps \cup {"retried", "resolving"} =>
           \A e : E(w) = e => RowsStand(w, e)
  PROVE  Story(w)'
<1>1. \A e, g : Passing(w, e, g)' => Passing(w, e, g) /\ RowsStand(w, e)
  BY DEF Passing, E
<1>2. \A e, g : Retrying(w, e, g)' => Retrying(w, e, g) /\ RowsStand(w, e)
  BY DEF Retrying, E
<1>3. ASSUME NEW e \in Selected, NEW g \in Pages, Passing(w, e, g)' PROVE PagesKept(w, e, g)'
  <2>1. PagesKept(w, e, g) /\ RowsStand(w, e) /\ run'[w].have = run[w].have
    BY <1>1, <1>3 DEF Story, Passing
  <2>2. \A p \in Pages : Stored(w, e, p) => Stored(w, e, p)'
    BY <2>1, StillUpToDate DEF Stored, Whole
  <2>3. Page(e, 0, g)' = Page(e, 0, g)
    BY <2>1, SamePages DEF RowsStand
  <2>4. HaveFits(w, e, g) => HaveFits(w, e, g)'
    BY <2>1, StillFits
  <2>5. UpToDate(w, e, g) => UpToDate(w, e, g)'
    BY <2>1, StillUpToDate
  <2> QED BY <2>1, <2>2, <2>3, <2>4, <2>5 DEF PagesKept, Behind
<1>4. ASSUME NEW g \in Pages, Passing(w, "worksheets", g)', (Type(w) # "delta")' PROVE SourcesKept(w, g)'
  <2>1. SourcesKept(w, g) /\ RowsStand(w, "worksheets")
    BY <1>1, <1>4 DEF Story
  <2>2. Listed("worksheets", 0)' = Listed("worksheets", 0)
    BY <2>1 DEF RowsStand
  <2>3. Page("worksheets", 0, g)' = Page("worksheets", 0, g)
        /\ \A r : Position("worksheets", 0, r)' = Position("worksheets", 0, r)
    BY <2>2, SamePages
  <2>4. HasHoles' <=> HasHoles
    BY DEF HasHoles, Pending, Failed
  <2>5. \A r : Marked(w, r)' <=> Marked(w, r)
    BY DEF Marked
  <2> QED BY <2>1, <2>2, <2>3, <2>4, <2>5 DEF SourcesKept, MarkedBehind
<1>5. ASSUME NEW e \in Selected, NEW g \in Pages, Retrying(w, e, g)', e # "projects_v3" PROVE RetryKept(w, e, g)'
  <2>1. RetryKept(w, e, g) /\ RowsStand(w, e) /\ run'[w].have = run[w].have
    BY <1>2, <1>5 DEF Story, Retrying
  <2>2. HaveFits(w, e, g) => HaveFits(w, e, g)'
    BY <2>1, StillFits
  <2>3. UpToDate(w, e, g) => UpToDate(w, e, g)'
    BY <2>1, StillUpToDate
  <2> QED BY <2>1, <2>2, <2>3 DEF RetryKept
<1> QED BY <1>3, <1>4, <1>5 DEF Story

\* The rows stand for a run when one is changed or taken away: had it been in
\* the run's listing and settled, the listing would have moved.
LEMMA ChangedRowsStand ==
  ASSUME DataShape, NEW w \in Workers, run[w].seen <= clock, run'[w].seen = run[w].seen,
         NEW e \in Selected, NEW f \in Selected, NEW r \in Rows,
         clock' = clock + 1, remote' = [remote EXCEPT ![f][r] = clock + 1],
         e = f => remote[f][r] # 0
  PROVE  RowsStand(w, e)
<1>1. clock \in Nat /\ run[w].seen \in Nat /\ \A q \in Rows : remote[e][q] \in Nat
  BY RunFields DEF DataShape
<1>2. CASE e # f
  <2>1. remote'[e] = remote[e]
    BY <1>2 DEF DataShape
  <2> QED BY <2>1 DEF RowsStand, Listed, Settled
<1>3. CASE e = f
  <2>1. \A q \in Rows : remote'[e][q] = IF q = r THEN clock + 1 ELSE remote[e][q]
    BY <1>3 DEF DataShape
  <2>2. \A q \in Rows : remote'[e][q] > 0 <=> remote[e][q] > 0
    BY <1>1, <1>3, <2>1
  <2>3. Listed(e, 0)' = Listed(e, 0)
    BY <2>2 DEF Listed
  <2>4. \A q \in Rows : Settled(w, e, q)' => Settled(w, e, q) /\ remote'[e][q] = remote[e][q]
    <3> SUFFICES ASSUME NEW q \in Rows, remote'[e][q] <= run'[w].seen
                 PROVE  Settled(w, e, q) /\ remote'[e][q] = remote[e][q]
      BY DEF Settled
    <3>1. q # r
      BY <1>1, <2>1
    <3> QED BY <2>1, <3>1 DEF Settled
  <2> QED BY <2>3, <2>4 DEF RowsStand
<1> QED BY <1>2, <1>3

\* A row outside the listing of a run leaves its rows standing.
LEMMA OthersRowsStand ==
  ASSUME DataShape, NEW w, NEW e \in Selected, NEW f, NEW r, NEW t, e # f,
         remote' = [remote EXCEPT ![f][r] = t], run'[w].seen = run[w].seen
  PROVE  RowsStand(w, e)
<1>1. remote'[e] = remote[e]
  BY DEF DataShape
<1> QED BY <1>1 DEF RowsStand, Listed, Settled

-----------------------------------------------------------------------------
(* The steps of the queue *)

\* A row keeps the kind of job it holds.
TypesStay == \A j \in Jobs : job[j].status # "absent" => job'[j].type = job[j].type

LEMMA HeldTypeStays ==
  ASSUME JInv, TypesStay, NEW w \in Workers, Working(w), worker'[w] = worker[w]
  PROVE  Type(w)' = Type(w)
<1>1. worker[w].job \in Jobs /\ job[worker[w].job].status # "absent"
  BY DEF JInv, JobsTypeOK, HeldRuns, Holds
<1> QED BY <1>1 DEF TypesStay, Type

LEMMA QueueTypes ==
  ASSUME JInv, NoManualJobs,
         \/ UNCHANGED job
         \/ \E w \in Workers : \/ ScheduleDelta(w) \/ Succeed(w) \/ Fail(w)
                               \/ \E j \in Jobs : Claim(w, j)
         \/ RequeueBootstrap \/ \E j \in Jobs : Ripen(j)
  PROVE  TypesStay /\ NoManualJobs'
<1>1. job \in [Jobs -> JobType]
  BY DEF JInv, JobsTypeOK
<1>2. \A j \in Jobs : IsNext(j) => job[j].status = "absent"
  BY DEF IsNext, Free
<1>3. CASE UNCHANGED job
  BY <1>3 DEF TypesStay, NoManualJobs
<1>4. ASSUME NEW w \in Workers, ScheduleDelta(w) PROVE TypesStay /\ NoManualJobs'
  <2>1. \A j \in Jobs : job'[j] = IF IsNext(j) THEN NewJob("delta") ELSE job[j]
    BY <1>4 DEF ScheduleDelta
  <2> QED BY <2>1, <1>2 DEF TypesStay, NoManualJobs, NewJob
<1>5. ASSUME \A j \in Jobs : job'[j].type = job[j].type PROVE TypesStay /\ NoManualJobs'
  BY <1>5 DEF TypesStay, NoManualJobs
<1>6. ASSUME NEW w \in Workers, Succeed(w) \/ Fail(w) PROVE TypesStay /\ NoManualJobs'
  <2>1. worker[w].job \in Jobs
    BY <1>6 DEF Succeed, Fail, JInv, JobsTypeOK
  <2>2. \E new : new.type = job[worker[w].job].type /\ job' = [job EXCEPT ![worker[w].job] = new]
    <3>1. CASE Succeed(w)
      <4> DEFINE new == [job[worker[w].job] EXCEPT !.status = "success", !.ripe = TRUE]
      <4>1. job' = [job EXCEPT ![worker[w].job] = new]
        BY <1>1, <2>1, <3>1 DEF Succeed
      <4>2. new.type = job[worker[w].job].type
        BY <1>1, <2>1 DEF JobType
      <4> HIDE DEF new
      <4> QED BY <4>1, <4>2
    <3>2. CASE Fail(w)
      <4> DEFINE tries == worker[w].retries + 1
                 over == tries >= MaxRetries
                 new == [job[worker[w].job] EXCEPT !.status = IF over THEN "failed" ELSE "queued",
                                                   !.retries = tries, !.ripe = over]
      <4>1. job' = [job EXCEPT ![worker[w].job] = new]
        BY <1>1, <2>1, <3>2 DEF Fail
      <4>2. new.type = job[worker[w].job].type
        BY <1>1, <2>1 DEF JobType
      <4> HIDE DEF new
      <4> QED BY <4>1, <4>2
    <3> QED BY <1>6, <3>1, <3>2
  <2>3. \A j \in Jobs : job'[j].type = job[j].type
    BY <1>1, <2>1, <2>2
  <2> QED BY <2>3, <1>5
<1>7. ASSUME NEW w \in Workers, NEW j \in Jobs, Claim(w, j) PROVE TypesStay /\ NoManualJobs'
  <2>1. \A k \in Jobs : job'[k].type = job[k].type
    BY <1>1, <1>7 DEF Claim, JobType
  <2> QED BY <2>1, <1>5
<1>8. CASE RequeueBootstrap
  <2>1. PICK n \in Jobs : IsNext(n) /\ job' = [j \in Jobs |->
          IF j = n THEN NewJob("bootstrap")
          ELSE IF job[j].type = "bootstrap" /\ job[j].status = "running" THEN [job[j] EXCEPT !.status = "failed"]
          ELSE job[j]]
    BY <1>8 DEF RequeueBootstrap
  <2>2. \A j \in Jobs : j # n => job'[j].type = job[j].type
    BY <1>1, <2>1 DEF JobType
  <2>3. job'[n].type = "bootstrap"
    BY <2>1 DEF NewJob
  <2> QED BY <1>2, <2>1, <2>2, <2>3 DEF TypesStay, NoManualJobs
<1>9. ASSUME NEW j \in Jobs, Ripen(j) PROVE TypesStay /\ NoManualJobs'
  <2>1. \A k \in Jobs : job'[k].type = job[k].type
    BY <1>1, <1>9 DEF Ripen, JobType
  <2> QED BY <2>1, <1>5
<1> QED BY <1>3, <1>4, <1>6, <1>7, <1>8, <1>9

LEMMA DataStays ==
  ASSUME DataShape, UNCHANGED data, run' \in [Workers -> RunType]
  PROVE  DataShape'
BY DEF DataShape, data

\* A step of the queue that starts and ends no run.
LEMMA QueueStep ==
  ASSUME JInv, SInv, UNCHANGED <<remote, clock, store, source, backlog, run>>,
         endpoint' \in [Selected -> StateType], TypesStay, NoManualJobs',
         \A w \in Workers : (Working(w)' <=> Working(w)) /\ (Working(w) => worker'[w] = worker[w])
  PROVE  SInv'
<1>1. DataShape'
  BY DEF SInv, DataShape
<1>2. RunShape'
  BY DEF SInv, RunShape, ShapeOf
<1>3. Loneliness'
  BY DEF SInv, Loneliness, Alone
<1>4. ASSUME NEW w \in Workers PROVE FullPass(w)' /\ Story(w)'
  <2>1. FullPass(w) /\ Story(w) /\ ShapeOf(w)
    BY DEF SInv, FullPasses, RunShape
  <2>2. CASE ~Working(w)
    <3>1. run'[w].step = "none"
      BY <2>1, <2>2 DEF ShapeOf
    <3> QED BY <3>1, NoStory DEF FullPass, PassSteps
  <2>3. CASE Working(w)
    <3>1. worker'[w] = worker[w] /\ Type(w)' = Type(w)
      BY <2>3, HeldTypeStays
    <3>2. FullPass(w)'
      BY <2>1, <3>1 DEF FullPass
    <3>3. ASSUME run[w].step \in PassSteps \cup {"retried", "resolving"}, NEW e, E(w) = e PROVE RowsStand(w, e)
      <4>1. e \in Selected
        BY <3>3, AtOneEndpoint DEF SInv, PassSteps, AtEndpoint
      <4> QED BY <4>1, ListingStays
    <3>4. Story(w)'
      BY <2>1, <3>1, <3>3, FrameStory DEF Undisturbed
    <3> QED BY <3>2, <3>4
  <2> QED BY <2>2, <2>3
<1> QED BY <1>1, <1>2, <1>3, <1>4 DEF SInv, FullPasses

LEMMA PollKeeps ==
  ASSUME JInv, SInv, NEW w \in Workers, Poll(w) \/ ScheduleDelta(w) \/ NothingToClaim(w), UNCHANGED passVars
  PROVE  SInv'
<1>1. UNCHANGED job \/ ScheduleDelta(w)
  BY DEF Poll, NothingToClaim
<1>2. TypesStay /\ NoManualJobs'
  BY <1>1, QueueTypes DEF SInv
<1>3. \A v \in Workers : (Working(v)' <=> Working(v)) /\ (Working(v) => worker'[v] = worker[v])
  BY DEF JInv, JobsTypeOK, Poll, ScheduleDelta, NothingToClaim, Idle, Working, WorkerType
<1> QED BY <1>2, <1>3, QueueStep DEF SInv, DataShape, passVars

LEMMA RowsKeep ==
  ASSUME JInv, SInv, (NextInterval \/ \E j \in Jobs : Ripen(j)) /\ UNCHANGED passVars
  PROVE  SInv'
<1>1. TypesStay /\ NoManualJobs'
  BY QueueTypes DEF SInv, NextInterval
<1>2. UNCHANGED worker
  BY DEF NextInterval, Ripen
<1> QED BY <1>1, <1>2, QueueStep DEF SInv, DataShape, passVars, Working

LEMMA RequeueKeeps == ASSUME JInv, SInv, Requeue PROVE SInv'
<1>1. TypesStay /\ NoManualJobs' /\ UNCHANGED worker
  BY QueueTypes DEF SInv, Requeue, RequeueBootstrap
<1>2. endpoint' \in [Selected -> StateType]
  BY DEF SInv, DataShape, Requeue, StateType
<1> QED BY <1>1, <1>2, QueueStep DEF Requeue, Working

LEMMA StartKeeps == ASSUME JInv, SInv, NEW w \in Workers, NEW j \in Jobs, Start(w, j) PROVE SInv'
<1>1. /\ run' \in [Workers -> RunType]
      /\ run'[w].step = "rounds" /\ run'[w].alone = Alone(w) /\ run'[w].i = 1 /\ run'[w].seen = 0
      /\ \A v \in Workers : v # w =>
           /\ ~Working(v) => run'[v] = run[v]
           /\ Working(v) => run'[v].alone = FALSE
           /\ run'[v].step = run[v].step /\ run'[v].i = run[v].i /\ run'[v].page = run[v].page
           /\ run'[v].after = run[v].after /\ run'[v].full = run[v].full
           /\ run'[v].due = run[v].due /\ run'[v].seen = run[v].seen
  BY StartSets DEF SInv
<1>2. TypesStay /\ NoManualJobs'
  BY QueueTypes DEF SInv, Start
<1>3. Working(w)' /\ \A v \in Workers : v # w => worker'[v] = worker[v]
  BY DEF Start, Claim, Working, JInv, JobsTypeOK
<1>4. DataShape'
  BY <1>1, DataStays DEF SInv, Start
<1>5. clock' = clock /\ clock \in Nat
  BY DEF SInv, DataShape, Start, data
<1>6. ShapeOf(w)' /\ FullPass(w)' /\ Story(w)'
  <2>1. 1 <= Len(Endpoints)
    BY EndpointsFinite
  <2>2. Story(w)'
    BY <1>1, NoStory DEF PassSteps
  <2> QED BY <1>1, <1>3, <1>5, <2>1, <2>2 DEF ShapeOf, FullPass, AtEndpoint, AtPage, PassSteps
<1>7. ASSUME NEW v \in Workers, v # w PROVE ShapeOf(v)' /\ FullPass(v)' /\ Story(v)'
  <2>1. ShapeOf(v) /\ FullPass(v)
    BY DEF SInv, RunShape, FullPasses
  <2>2. worker'[v] = worker[v] /\ (Working(v)' <=> Working(v))
    BY <1>3, <1>7 DEF Working
  <2>3. ShapeOf(v)'
    BY <1>1, <1>5, <1>7, <2>1, <2>2 DEF ShapeOf
  <2>4. CASE Working(v)
    <3>1. Type(v)' = Type(v)
      BY <1>2, <2>2, <2>4, HeldTypeStays
    <3>2. FullPass(v)'
      BY <1>1, <1>7, <2>1, <3>1 DEF FullPass
    <3>3. Story(v)'
      BY <1>1, <1>7, <2>4, NoStory DEF Undisturbed
    <3> QED BY <2>3, <3>2, <3>3
  <2>5. CASE ~Working(v)
    <3>1. run'[v].step = "none"
      BY <2>1, <2>2, <2>3, <2>5 DEF ShapeOf
    <3> QED BY <2>3, <3>1, NoStory DEF FullPass, PassSteps
  <2> QED BY <2>4, <2>5
<1>8. Loneliness'
  <2> SUFFICES ASSUME NEW v \in Workers, Working(v)', run'[v].alone PROVE Alone(v)'
    BY DEF Loneliness
  <2>1. v = w
    BY <1>1, <1>3 DEF Working
  <2>2. Alone(w)
    BY <1>1, <2>1
  <2> QED BY <1>3, <2>1, <2>2 DEF Alone, Working
<1> QED BY <1>2, <1>4, <1>6, <1>7, <1>8 DEF SInv, RunShape, FullPasses

LEMMA LeaveKeeps ==
  ASSUME JInv, SInv, NEW w \in Workers, FinishJob(w) \/ FailJob(w) \/ LoseJob(w) PROVE SInv'
<1>1. Leave(w) /\ Working(w) /\ worker' = [worker EXCEPT ![w] = Idle]
  BY DEF FinishJob, FailJob, LoseJob, Succeed, Fail, Lose
<1>2. run' \in [Workers -> RunType] /\ Only(w) /\ run'[w].step = "none" /\ run'[w].seen = 0
  BY <1>1, LeaveSets DEF SInv
<1>3. UNCHANGED data /\ UNCHANGED clock
  BY <1>1 DEF Leave, data
<1>4. TypesStay /\ NoManualJobs'
  BY QueueTypes DEF SInv, FinishJob, FailJob, LoseJob, Lose
<1>5. ~Working(w)' /\ \A v \in Workers : v # w => worker'[v] = worker[v]
  BY <1>1 DEF Idle, Working, JInv, JobsTypeOK
<1>6. DataShape'
  BY <1>2, <1>3, DataStays DEF SInv
<1>7. ShapeOf(w)' /\ FullPass(w)' /\ Story(w)'
  <2>1. clock' \in Nat
    BY <1>6 DEF DataShape
  <2>2. Story(w)'
    BY <1>2, NoStory DEF PassSteps
  <2> QED BY <1>2, <1>5, <2>1, <2>2 DEF ShapeOf, FullPass, AtEndpoint, AtPage, PassSteps
<1>8. ASSUME NEW v \in Workers, v # w PROVE ShapeOf(v)' /\ FullPass(v)' /\ Story(v)'
  <2>1. worker'[v] = worker[v]
    BY <1>5, <1>8
  <2>2. Working(v) => Type(v)' = Type(v)
    BY <1>4, <2>1, HeldTypeStays
  <2> QED BY <1>1, <1>2, <1>3, <1>8, <2>1, <2>2, OthersStory
<1>9. Loneliness'
  <2> SUFFICES ASSUME NEW v \in Workers, Working(v)', run'[v].alone PROVE FALSE
    BY DEF Loneliness
  <2>1. v # w
    BY <1>5
  <2>2. Working(v) /\ run[v].alone
    BY <1>2, <1>5, <2>1 DEF Working, Only
  <2> QED BY <1>1, <2>1, <2>2 DEF SInv, Loneliness, Alone
<1> QED BY <1>4, <1>6, <1>7, <1>8, <1>9 DEF SInv, RunShape, FullPasses

-----------------------------------------------------------------------------
(* The steps of a retry round *)

\* What every step of a run leaves of the queue and the remote system.
RunFrame(w) == Working(w) /\ Only(w) /\ UNCHANGED <<job, worker, remote, clock>>

LEMMA FrameFacts ==
  ASSUME DataShape, NEW w \in Workers, RunFrame(w)
  PROVE  /\ UNCHANGED <<job, worker, clock>> /\ Working(w) /\ Working(w)' /\ Only(w) /\ Type(w)' = Type(w)
         /\ clock \in Nat /\ clock' = clock
BY DEF RunFrame, Working, Type, DataShape

\* A step that leaves no page in hand.
LEMMA BetweenPages ==
  ASSUME JInv, SInv, NEW w \in Workers, RunFrame(w), DataShape',
         run'[w].step \in {"rounds", "retry", "passes"},
         run'[w].alone => run[w].alone \/ Alone(w), run'[w].seen <= clock,
         run'[w].step \in AtEndpoint => run'[w].i <= Len(Endpoints)
  PROVE  SInv'
<1>1. UNCHANGED <<job, worker, clock>> /\ Working(w) /\ Working(w)' /\ Only(w)
  BY FrameFacts DEF SInv
<1>2. Story(w)'
  BY NoStory DEF PassSteps
<1>3. ShapeOf(w)' /\ FullPass(w)'
  BY <1>1 DEF ShapeOf, FullPass, AtPage, PassSteps
<1> QED BY <1>1, <1>2, <1>3, OwnStep

\* One field of an entry of the backlog, or the entry.
LEMMA EntryKept ==
  ASSUME DataShape, NEW e \in Selected, NEW p, NEW entry \in EntryType,
         backlog' = [backlog EXCEPT ![e][p] = entry]
  PROVE  /\ backlog' \in [Selected -> [Pages -> EntryType]]
         /\ \A f \in Selected, q \in Pages : (f # e \/ q # p) => backlog'[f][q] = backlog[f][q]
         /\ p \in Pages => backlog'[e][p] = entry
<1>1. backlog \in [Selected -> [Pages -> EntryType]]
  BY DEF DataShape
<1>2. [backlog[e] EXCEPT ![p] = entry] \in [Pages -> EntryType]
  BY <1>1
<1> QED BY <1>1, <1>2

LEMMA ResolveKept ==
  ASSUME DataShape, NEW e \in Selected, NEW p \in Pages, Resolve(e, p)
  PROVE  /\ backlog' \in [Selected -> [Pages -> EntryType]]
         /\ \A f \in Selected, q \in Pages : (f # e \/ q # p) => backlog'[f][q] = backlog[f][q]
<1> DEFINE entry == [backlog[e][p] EXCEPT !.status = "resolved"]
<1>1. backlog[e][p] \in EntryType
  BY DEF DataShape
<1>2. entry \in EntryType
  BY <1>1 DEF EntryType
<1>3. backlog' = [backlog EXCEPT ![e][p] = entry]
  BY DEF Resolve
<1> HIDE DEF entry
<1> QED BY <1>2, <1>3, EntryKept, ZenonT(30)

LEMMA ReadDueKeeps == ASSUME JInv, SInv, NEW w \in Workers, ReadDue(w) \/ RoundDone(w) PROVE SInv'
<1>1. /\ run' \in [Workers -> RunType] /\ Only(w)
      /\ run'[w].step \in {"rounds", "passes", "retry"}
      /\ run'[w].alone = run[w].alone /\ run'[w].seen <= clock
      /\ run'[w].step \in AtEndpoint => run'[w].i <= Len(Endpoints)
  BY ReadDueSets, RoundDoneSets DEF SInv
<1>2. UNCHANGED jobVars /\ UNCHANGED data /\ Working(w)
  BY DEF ReadDue, RoundDone, At
<1>3. RunFrame(w)
  BY <1>1, <1>2 DEF RunFrame, jobVars, data
<1>4. DataShape'
  BY <1>1, <1>2, DataStays DEF SInv
<1> QED BY <1>1, <1>3, <1>4, BetweenPages

LEMMA RetryFetchedKeeps == ASSUME JInv, SInv, NEW w \in Workers, NEW p \in Pages, RetryFetched(w, p) PROVE SInv'
<1>1. /\ run' \in [Workers -> RunType] /\ Only(w)
      /\ run'[w].step = "retried" /\ run'[w].page = p /\ run'[w].seen = clock
      /\ run'[w].have = Kept(E(w), Page(E(w), 0, p)) /\ run'[w].i = run[w].i
      /\ run'[w].alone = run[w].alone /\ run'[w].due = run[w].due
  BY RetryFetchedSets DEF SInv
<1>2. UNCHANGED jobVars /\ UNCHANGED data /\ Working(w) /\ run[w].step = "retry" /\ p \in DOMAIN run[w].due
  BY DEF RetryFetched, At
<1>3. UNCHANGED <<job, worker, clock, remote>>
  BY <1>2 DEF jobVars, data
<1>4. DataShape'
  BY <1>1, <1>2, DataStays DEF SInv
<1>5. clock \in Nat /\ ShapeOf(w)
  BY DEF SInv, DataShape, RunShape
<1>6. ShapeOf(w)' /\ FullPass(w)'
  BY <1>1, <1>2, <1>3, <1>5 DEF ShapeOf, FullPass, Working, AtEndpoint, AtPage, PassSteps
<1>7. Story(w)'
  <2>1. ASSUME NEW e \in Selected, NEW g \in Pages, Retrying(w, e, g)', e # "projects_v3" PROVE RetryKept(w, e, g)'
    <3>1. e = E(w) /\ g = p
      BY <1>1, <2>1 DEF Retrying, E
    <3>2. Page(e, 0, g) \in SUBSET Rows
      BY DEF Page, Listed
    <3>3. run'[w].have = Copy(e, Page(e, 0, g))
      BY <1>1, <2>1, <3>1 DEF Kept
    <3>4. DOMAIN run'[w].have = Page(e, 0, g) /\ \A r \in Page(e, 0, g) : run'[w].have[r] = remote[e][r]
      BY <3>3 DEF Copy
    <3>5. Listed(e, 0)' = Listed(e, 0)
      BY <1>3 DEF Listed
    <3>6. Page(e, 0, g)' = Page(e, 0, g)
      BY <3>5, SamePages
    <3> QED BY <1>1, <1>3, <3>4, <3>6 DEF RetryKept, HaveFits
  <2> QED BY <1>1, <2>1 DEF Story, Passing, PassSteps
<1> QED BY <1>1, <1>2, <1>3, <1>4, <1>6, <1>7, OwnStep

\* What storing rows leaves of the types.
LEMMA UpsertType ==
  ASSUME DataShape, NEW e \in Selected, NEW h \in HaveType, Upsert(e, h)
  PROVE  store' \in [Selected -> [Rows -> Nat]]
<1>1. \A r \in DOMAIN h : h[r] \in Nat
  BY HaveFacts
<1> DEFINE new == [r \in Rows |-> IF r \in DOMAIN h /\ Known(e, r) THEN h[r] ELSE store[e][r]]
<1>2. new \in [Rows -> Nat]
  BY <1>1 DEF DataShape
<1>3. store' = [store EXCEPT ![e] = new]
  BY DEF Upsert, DataShape
<1> HIDE DEF new
<1> QED BY <1>2, <1>3 DEF DataShape

LEMMA MarkType ==
  ASSUME DataShape, NEW e, NEW h, NEW m \in Int, Mark(e, h, m)
  PROVE  source' \in [Rows -> Int]
BY DEF DataShape, Mark

LEMMA RetryStoredKeeps == ASSUME JInv, SInv, NEW w \in Workers, RetryStored(w) PROVE SInv'
<1>1. /\ run[w].step = "retried" /\ Working(w) /\ Upsert(E(w), run[w].have) /\ Mark(E(w), run[w].have, Unmarked)
      /\ UNCHANGED <<jobVars, remote, clock, endpoint>>
  BY DEF RetryStored, At
<1>2. DataShape /\ RunShape /\ ShapeOf(w) /\ Story(w) /\ run[w].page \in Pages /\ E(w) \in Selected
  BY <1>1, AtOneEndpoint DEF SInv, RunShape, ShapeOf, AtPage, AtEndpoint
<1>3. run[w].have \in HaveType /\ Unmarked \in Int
  BY <1>2, RunFields DEF Unmarked
<1>4. store' \in [Selected -> [Rows -> Nat]] /\ source' \in [Rows -> Int]
  BY <1>1, <1>2, <1>3, UpsertType, MarkType
<1>5. UNCHANGED <<job, worker, clock, remote, endpoint>>
  BY <1>1 DEF jobVars
<1>6. CASE E(w) = "projects_v4"
  <2>1. /\ Resolve(E(w), run[w].page)
        /\ run' = [run EXCEPT ![w].step = "retry", ![w].due = Forget(w, run[w].page), ![w].have = Nothing]
    BY <1>6 DEF RetryStored
  <2>2. /\ run' \in [Workers -> RunType] /\ Only(w)
        /\ run'[w].step = "retry" /\ run'[w].i = run[w].i /\ run'[w].alone = run[w].alone
        /\ run'[w].seen = run[w].seen
    BY <1>2, <2>1, BackToRetry
  <2>3. backlog' \in [Selected -> [Pages -> EntryType]]
    BY <1>2, <2>1, ResolveKept
  <2>4. DataShape'
    BY <1>2, <1>4, <1>5, <2>2, <2>3 DEF DataShape
  <2>5. RunFrame(w)
    BY <1>1, <1>5, <2>2 DEF RunFrame
  <2> QED BY <1>1, <1>2, <2>2, <2>4, <2>5, BetweenPages DEF ShapeOf, AtEndpoint
<1>7. CASE E(w) # "projects_v4"
  <2>1. run' = [run EXCEPT ![w].step = "resolving"] /\ UNCHANGED backlog
    BY <1>7 DEF RetryStored
  <2>2. "resolving" \in RunSteps
    BY DEF RunSteps
  <2>3. /\ run' \in [Workers -> RunType] /\ Only(w)
        /\ run'[w].step = "resolving" /\ run'[w].i = run[w].i /\ run'[w].due = run[w].due
        /\ run'[w].page = run[w].page /\ run'[w].seen = run[w].seen
        /\ run'[w].alone = run[w].alone /\ run'[w].still = run[w].still
    BY <1>2, <2>1, <2>2, StepSets
  <2>4. DataShape'
    BY <1>2, <1>4, <1>5, <2>1, <2>3 DEF DataShape
  <2>5. ShapeOf(w)' /\ FullPass(w)'
    BY <1>1, <1>2, <1>5, <2>3 DEF ShapeOf, FullPass, Working, AtEndpoint, AtPage, PassSteps
  <2>6. Story(w)'
    <3>1. ASSUME NEW e \in Selected, NEW g \in Pages, Retrying(w, e, g)', e # "projects_v3" PROVE RetryKept(w, e, g)'
      <4>1. e = E(w) /\ g = run[w].page /\ Retrying(w, e, g)
        BY <1>1, <2>3, <3>1 DEF Retrying, E, Undisturbed
      <4>2. HaveFits(w, e, g)
        BY <1>1, <1>2, <3>1, <4>1 DEF Story, RetryKept
      <4>3. RowsStand(w, e)
        BY <1>5, <2>3, ListingStays
      <4>4. UpToDate(w, e, g)'
        BY <1>1, <1>2, <4>1, <4>2, <4>3, UpsertKeeps DEF HaveFits
      <4> QED BY <2>3, <4>4 DEF RetryKept
    <3> QED BY <2>3, <3>1 DEF Story, Passing, PassSteps
  <2> QED BY <1>1, <1>5, <2>3, <2>4, <2>5, <2>6, OwnStep DEF SInv
<1> QED BY <1>6, <1>7

LEMMA RetryResolvedKeeps == ASSUME JInv, SInv, NEW w \in Workers, RetryResolved(w) PROVE SInv'
<1>1. /\ run[w].step = "resolving" /\ Working(w) /\ Resolve(E(w), run[w].page)
      /\ run' = [run EXCEPT ![w].step = "retry", ![w].due = Forget(w, run[w].page), ![w].have = Nothing]
      /\ UNCHANGED <<jobVars, remote, clock, store, source, endpoint>>
  BY DEF RetryResolved, At
<1>2. DataShape /\ ShapeOf(w) /\ run[w].page \in Pages /\ E(w) \in Selected
  BY <1>1, AtOneEndpoint DEF SInv, RunShape, ShapeOf, AtPage, AtEndpoint
<1>3. /\ run' \in [Workers -> RunType] /\ Only(w)
      /\ run'[w].step = "retry" /\ run'[w].i = run[w].i /\ run'[w].alone = run[w].alone
      /\ run'[w].seen = run[w].seen
  BY <1>1, <1>2, BackToRetry
<1>4. backlog' \in [Selected -> [Pages -> EntryType]]
  BY <1>1, <1>2, ResolveKept
<1>5. DataShape'
  BY <1>1, <1>2, <1>3, <1>4 DEF DataShape
<1>6. RunFrame(w)
  BY <1>1, <1>3 DEF RunFrame, jobVars
<1> QED BY <1>1, <1>2, <1>3, <1>5, <1>6, BetweenPages DEF ShapeOf, AtEndpoint

LEMMA RetryFailedKeeps ==
  ASSUME JInv, SInv, NEW w \in Workers, NEW p \in Pages, NEW retryable \in BOOLEAN, RetryFailed(w, p, retryable)
  PROVE  SInv'
<1> DEFINE tries == run[w].due[p] + 1
           entry == [status |-> IF ~retryable \/ tries >= MaxTries THEN "failed" ELSE "deferred", tries |-> tries]
<1>1. /\ run[w].step \in {"retry", "retried", "resolving"} /\ Working(w)
      /\ backlog' = [backlog EXCEPT ![E(w)][p] = entry]
      /\ run' = [run EXCEPT ![w].step = "retry", ![w].due = Forget(w, p), ![w].have = Nothing]
      /\ UNCHANGED <<jobVars, remote, clock, store, source, endpoint>>
  BY DEF RetryFailed, At
<1>2. DataShape /\ ShapeOf(w) /\ E(w) \in Selected
  BY <1>1, AtOneEndpoint DEF SInv, RunShape, ShapeOf, AtEndpoint
<1>3. p \in DOMAIN run[w].due
  BY <1>2 DEF RetryFailed, At, ShapeOf
<1>4. tries \in Nat
  BY <1>2, <1>3, RunFields, DueFacts
<1> HIDE DEF tries
<1>5. entry \in EntryType
  BY <1>4 DEF EntryType
<1> HIDE DEF entry
<1>6. /\ run' \in [Workers -> RunType] /\ Only(w)
      /\ run'[w].step = "retry" /\ run'[w].i = run[w].i /\ run'[w].alone = run[w].alone
      /\ run'[w].seen = run[w].seen
  BY <1>1, <1>2, BackToRetry
<1>7. backlog' \in [Selected -> [Pages -> EntryType]]
  BY <1>1, <1>2, <1>5, EntryKept
<1>8. DataShape'
  BY <1>1, <1>2, <1>6, <1>7 DEF DataShape
<1>9. RunFrame(w)
  BY <1>1, <1>6 DEF RunFrame, jobVars
<1> QED BY <1>1, <1>2, <1>6, <1>8, <1>9, BetweenPages DEF ShapeOf, AtEndpoint

-----------------------------------------------------------------------------
(* The steps of a pass *)

\* The first page of a full pass has none behind it.
LEMMA StartPassKeeps == ASSUME JInv, SInv, NEW w \in Workers, StartPass(w) PROVE SInv'
<1>1. /\ run' \in [Workers -> RunType] /\ Only(w)
      /\ run'[w].step = "fetch" /\ run'[w].i = run[w].i /\ run'[w].i <= Len(Endpoints)
      /\ run'[w].page > 0 /\ run'[w].seen = clock
      /\ run'[w].alone = Alone(w)
      /\ run'[w].full = (run'[w].page = 1 /\ run'[w].after = 0)
      /\ Type(w) = "bootstrap" => run'[w].full
  BY StartPassSets DEF SInv
<1>2. UNCHANGED jobVars /\ UNCHANGED data /\ Working(w)
  BY DEF StartPass, At
<1>3. UNCHANGED <<job, worker, clock, remote>> /\ clock \in Nat
  BY <1>2 DEF jobVars, data, SInv, DataShape
<1>4. DataShape'
  BY <1>1, <1>2, DataStays DEF SInv
<1>5. Type(w) \in {"bootstrap", "delta"}
  <2>1. worker[w].job \in Jobs
    BY <1>2 DEF JInv, JobsTypeOK
  <2>2. job[worker[w].job].type \in Types /\ job[worker[w].job].type # "manual"
    BY <2>1 DEF JInv, JobsTypeOK, JobType, SInv, NoManualJobs
  <2> QED BY <2>2 DEF Type, Types
<1>6. ShapeOf(w)'
  BY <1>1, <1>2, <1>3 DEF ShapeOf, Working, AtPage
<1>7. FullPass(w)'
  <2>1. Type(w)' = Type(w)
    BY <1>3 DEF Type
  <2> QED BY <1>1, <1>5, <2>1 DEF FullPass
<1>8. Story(w)'
  <2>1. ASSUME NEW e, NEW g \in Pages, Passing(w, e, g)' PROVE PagesKept(w, e, g)' /\ SourcesKept(w, g)'
    <3>1. g = 1
      BY <1>1, <2>1 DEF Passing
    <3>2. Behind(w, e, 1)' /\ MarkedBehind(w, 1)'
      <4>1. \A p \in Pages : ~(p < 1)
        BY PagesNat
      <4>2. \A r \in Listed("worksheets", 0) : ~(Position("worksheets", 0, r) <= (1 - 1) * PageSize)
        BY PositionsDistinct, SizesAssumption
      <4>3. Listed("worksheets", 0)' = Listed("worksheets", 0)
        BY <1>3 DEF Listed
      <4>4. \A r : Position("worksheets", 0, r)' = Position("worksheets", 0, r)
        BY <4>3, SamePages
      <4> QED BY <4>1, <4>2, <4>3, <4>4 DEF Behind, MarkedBehind
    <3> QED BY <1>1, <3>1, <3>2 DEF PagesKept, SourcesKept
  <2>2. \A e, g : ~Retrying(w, e, g)'
    BY <1>1 DEF Retrying
  <2> QED BY <2>1, <2>2 DEF Story
<1> QED BY <1>1, <1>2, <1>3, <1>4, <1>6, <1>7, <1>8, OwnStep

\* What a pass has behind it stays so when nothing but the run moves on.
LEMMA BehindStays ==
  ASSUME NEW w, NEW e, NEW g, RowsStand(w, e), UNCHANGED <<store, backlog>>, Behind(w, e, g)
  PROVE  Behind(w, e, g)'
<1>1. ASSUME NEW p \in Pages, p < g, Whole(e, p)' PROVE UpToDate(w, e, p)'
  <2>1. UpToDate(w, e, p)
    BY <1>1 DEF Behind, Stored, Whole
  <2> QED BY <2>1, StillUpToDate
<1> QED BY <1>1 DEF Behind, Stored

LEMMA MarkedStays ==
  ASSUME NEW w, NEW g, remote' = remote, UNCHANGED <<source, backlog>>, worker'[w].job = worker[w].job, MarkedBehind(w, g)
  PROVE  MarkedBehind(w, g)'
<1>1. Listed("worksheets", 0)' = Listed("worksheets", 0)
  BY DEF Listed
<1>2. \A r : Position("worksheets", 0, r)' = Position("worksheets", 0, r)
  BY <1>1, SamePages
<1>3. HasHoles' <=> HasHoles
  BY DEF HasHoles, Pending, Failed
<1> QED BY <1>1, <1>2, <1>3 DEF MarkedBehind, Marked

\* A page read without a filter is the page as it is listed.
LEMMA FetchPageKeeps == ASSUME JInv, SInv, NEW w \in Workers, FetchPage(w) PROVE SInv'
<1>1. /\ run' \in [Workers -> RunType] /\ Only(w)
      /\ run'[w].step = "have" /\ run'[w].have = Copy(E(w), Page(E(w), run[w].after, run[w].page))
      /\ run'[w].i = run[w].i /\ run'[w].page = run[w].page /\ run'[w].after = run[w].after
      /\ run'[w].seen = run[w].seen /\ run'[w].full = run[w].full
      /\ run'[w].alone = run[w].alone /\ run'[w].still = run[w].still
  BY FetchPageSets DEF SInv
<1>2. UNCHANGED jobVars /\ UNCHANGED data /\ Working(w) /\ run[w].step = "fetch" /\ run[w].page \in Pages
  BY DEF FetchPage, At
<1>3. UNCHANGED <<job, worker, clock, remote, store, source, backlog>>
  BY <1>2 DEF jobVars, data
<1>4. DataShape'
  BY <1>1, <1>2, DataStays DEF SInv
<1>5. ShapeOf(w) /\ FullPass(w) /\ Story(w)
  BY DEF SInv, RunShape, FullPasses
<1>6. ShapeOf(w)'
  BY <1>1, <1>2, <1>3, <1>5 DEF ShapeOf, Working, AtEndpoint, AtPage, PassSteps
<1>7. Type(w)' = Type(w)
  BY <1>3 DEF Type
<1>8. FullPass(w)'
  BY <1>1, <1>2, <1>5, <1>7 DEF FullPass, PassSteps
<1>9. Story(w)'
  <2>1. \A e, g : Passing(w, e, g)' => Passing(w, e, g)
    BY <1>1, <1>2 DEF Passing, E, Undisturbed, PassSteps
  <2>2. ASSUME NEW e \in Selected, NEW g \in Pages, Passing(w, e, g)' PROVE PagesKept(w, e, g)'
    <3>1. Passing(w, e, g) /\ RowsStand(w, e)
      BY <1>1, <1>3, <2>1, <2>2, ListingStays
    <3>2. Behind(w, e, g)'
      BY <1>3, <1>5, <3>1, BehindStays DEF Story, PagesKept
    <3>3. run[w].after = 0 /\ E(w) = e /\ run[w].page = g
      BY <1>2, <1>5, <3>1 DEF FullPass, Passing
    <3>4. run'[w].have = Copy(e, Page(e, 0, g))
      BY <1>1, <3>3
    <3>5. DOMAIN run'[w].have = Page(e, 0, g) /\ \A r \in Page(e, 0, g) : run'[w].have[r] = remote[e][r]
      BY <3>4 DEF Copy
    <3>6. Page(e, 0, g)' = Page(e, 0, g)
      BY <3>1, SamePages DEF RowsStand
    <3>7. HaveFits(w, e, g)'
      BY <1>3, <3>5, <3>6 DEF HaveFits
    <3> QED BY <1>1, <3>2, <3>7 DEF PagesKept
  <2>3. ASSUME NEW g \in Pages, Passing(w, "worksheets", g)', Type(w)' # "delta" PROVE SourcesKept(w, g)'
    <3>1. MarkedBehind(w, g)
      BY <1>5, <1>7, <2>1, <2>3 DEF Story, SourcesKept
    <3>2. MarkedBehind(w, g)'
      BY <1>3, <3>1, MarkedStays
    <3> QED BY <1>1, <3>2 DEF SourcesKept
  <2>4. \A e, g : ~Retrying(w, e, g)'
    BY <1>1 DEF Retrying
  <2> QED BY <2>2, <2>3, <2>4 DEF Story
<1> QED BY <1>1, <1>2, <1>3, <1>4, <1>6, <1>8, <1>9, OwnStep

\* A row at the end of a page or before is on the page or before it.
LEMMA OnPageOrBefore ==
  ASSUME NEW g \in Nat \ {0}, NEW r \in Listed("worksheets", 0), Position("worksheets", 0, r) <= g * PageSize
  PROVE  Position("worksheets", 0, r) <= (g - 1) * PageSize \/ r \in Page("worksheets", 0, g)
<1>1. Position("worksheets", 0, r) \in Nat
  BY PositionsDistinct
<1>2. (g - 1) * PageSize \in Int /\ g * PageSize \in Int
  BY SizesAssumption
<1> QED BY <1>1, <1>2 DEF Page

\* The page in hand is stored: the pass goes on to the next one, or was at its end.
LEMMA NextPageStory ==
  ASSUME DataShape, RunShape, NEW w \in Workers, NEW e \in Selected, NEW g \in Pages,
         E(w) = e, run[w].page = g, run[w].step \in PassSteps, NextPage(w), UNCHANGED <<remote, job, worker>>,
         Undisturbed(w) /\ run[w].full =>
           DOMAIN run[w].have = Page(e, 0, g) /\ Behind(w, e, g)' /\ UpToDate(w, e, g)',
         Undisturbed(w) /\ run[w].full /\ e = "worksheets" /\ Type(w) # "delta" =>
           MarkedBehind(w, g)' /\ \A r \in Page("worksheets", 0, g) : Marked(w, r)'
  PROVE  Story(w)'
<1>1. /\ \/ /\ Cardinality(DOMAIN run[w].have) < PageSize
            /\ run'[w].step = "ending" /\ run'[w].page = run[w].page
         \/ /\ ~(Cardinality(DOMAIN run[w].have) < PageSize)
            /\ run'[w].step = "fetch" /\ run'[w].page = run[w].page + 1
      /\ run'[w].i = run[w].i /\ run'[w].full = run[w].full
      /\ run'[w].alone = run[w].alone /\ run'[w].still = run[w].still
  BY NextPageSets
<1>2. g \in Nat \ {0}
  BY PagesNat
<1>3. Listed(e, 0)' = Listed(e, 0)
  BY DEF Listed
<1>4. /\ Page(e, 0, g)' = Page(e, 0, g)
      /\ \A r : Position(e, 0, r)' = Position(e, 0, r)
  BY <1>3, SamePages
<1>5. ASSUME NEW f \in Selected, NEW k \in Pages, Passing(w, f, k)' PROVE PagesKept(w, f, k)'
  <2>1. f = e /\ Undisturbed(w) /\ run[w].full /\ k = run'[w].page
    BY <1>1, <1>5 DEF Passing, E, Undisturbed
  <2>2. CASE run'[w].step = "ending"
    <3>1. k = g /\ Cardinality(Page(e, 0, g)) < PageSize
      BY <1>1, <2>1, <2>2
    <3> QED BY <1>4, <2>1, <2>2, <3>1 DEF PagesKept
  <2>3. CASE run'[w].step = "fetch"
    <3>1. k = g + 1
      BY <1>1, <2>1, <2>3
    <3>2. ASSUME NEW p \in Pages, p < g + 1 PROVE Stored(w, e, p)'
      <4>1. p \in Nat
        BY PagesNat
      <4>2. p < g \/ p = g
        BY <1>2, <3>2, <4>1
      <4> QED BY <2>1, <4>2 DEF Behind, Stored
    <3>3. Behind(w, e, k)'
      BY <3>1, <3>2 DEF Behind
    <3> QED BY <2>1, <2>3, <3>3 DEF PagesKept
  <2> QED BY <1>1, <2>2, <2>3
<1>6. ASSUME NEW k \in Pages, Passing(w, "worksheets", k)', Type(w)' # "delta" PROVE SourcesKept(w, k)'
  <2>1. e = "worksheets" /\ Undisturbed(w) /\ run[w].full /\ k = run'[w].page /\ Type(w) # "delta"
    BY <1>1, <1>6 DEF Passing, E, Undisturbed, Type
  <2>2. MarkedBehind(w, g)' /\ \A r \in Page("worksheets", 0, g) : Marked(w, r)'
    BY <2>1
  <2>3. CASE run'[w].step = "ending"
    <3>1. k = g
      BY <1>1, <2>1, <2>3
    <3> QED BY <1>4, <2>1, <2>2, <3>1 DEF SourcesKept
  <2>4. CASE run'[w].step = "fetch"
    <3>1. k = g + 1 /\ (k - 1) * PageSize = g * PageSize
      BY <1>1, <1>2, <2>1, <2>4
    <3>2. ASSUME NEW r \in Listed("worksheets", 0), Position("worksheets", 0, r) <= g * PageSize
          PROVE  Marked(w, r)' \/ HasHoles'
      <4>1. Position("worksheets", 0, r) <= (g - 1) * PageSize \/ r \in Page("worksheets", 0, g)
        BY <1>2, <3>2, OnPageOrBefore
      <4> QED BY <1>3, <1>4, <2>1, <2>2, <4>1 DEF MarkedBehind
    <3>3. MarkedBehind(w, k)'
      BY <1>3, <1>4, <2>1, <3>1, <3>2 DEF MarkedBehind
    <3> QED BY <2>4, <3>3 DEF SourcesKept
  <2> QED BY <1>1, <2>3, <2>4
<1>7. \A f, k : ~Retrying(w, f, k)'
  BY <1>1 DEF Retrying
<1> QED BY <1>5, <1>6, <1>7 DEF Story

\* What every step of a pass with its page in hand has.
LEMMA InHand ==
  ASSUME SInv, NEW w \in Workers, Working(w), run[w].step \in {"have", "stored"}
  PROVE  /\ DataShape /\ RunShape /\ ShapeOf(w) /\ FullPass(w) /\ Story(w)
         /\ run[w].page \in Pages /\ E(w) \in Selected /\ run[w].have \in HaveType
<1>1. DataShape /\ RunShape /\ ShapeOf(w) /\ FullPass(w) /\ Story(w)
  BY DEF SInv, RunShape, FullPasses
<1>2. run[w].page \in Pages
  BY <1>1 DEF ShapeOf, AtPage
<1>3. E(w) \in Selected
  BY <1>1, AtOneEndpoint DEF AtEndpoint
<1> QED BY <1>1, <1>2, <1>3, RunFields

LEMMA LoggedType ==
  ASSUME DataShape, NEW w \in Workers, E(w) \in Selected, endpoint' = Logged(w)
  PROVE  endpoint' \in [Selected -> StateType]
<1> DEFINE state == [endpoint[E(w)] EXCEPT !.page = run[w].page]
<1>1. run[w].page \in Nat
  BY RunFields
<1>2. state \in StateType
  BY <1>1 DEF DataShape, StateType
<1>3. endpoint' = [endpoint EXCEPT ![E(w)] = state]
  BY DEF Logged
<1> HIDE DEF state
<1> QED BY <1>2, <1>3 DEF DataShape

\* A pass that has gone to its next page keeps the shapes.
LEMMA NextPageKeeps ==
  ASSUME JInv, SInv, NEW w \in Workers, Working(w), run[w].step \in {"have", "stored"}, NextPage(w),
         UNCHANGED <<job, worker, clock>>, DataShape', Story(w)'
  PROVE  SInv'
<1>1. ShapeOf(w) /\ FullPass(w) /\ run[w].page \in Pages /\ DataShape /\ RunShape
  BY InHand
<1>2. /\ Only(w)
      /\ \/ run'[w].step = "ending" /\ run'[w].page = run[w].page
         \/ run'[w].step = "fetch" /\ run'[w].page = run[w].page + 1
      /\ run'[w].i = run[w].i /\ run'[w].after = run[w].after
      /\ run'[w].seen = run[w].seen /\ run'[w].full = run[w].full /\ run'[w].alone = run[w].alone
  BY <1>1, NextPageSets
<1>3. run[w].page > 0 /\ run[w].page + 1 > 0
  <2>1. run[w].page \in Nat \ {0}
    BY <1>1, PagesNat
  <2> QED BY <2>1
<1>4. ShapeOf(w)'
  BY <1>1, <1>2, <1>3 DEF ShapeOf, Working, AtEndpoint, AtPage, PassSteps
<1>5. FullPass(w)'
  BY <1>1, <1>2 DEF FullPass, Type, PassSteps
<1> QED BY <1>2, <1>4, <1>5, OwnStep

\* What storing the page in hand does for a run that nothing disturbs.
LEMMA StoreStory ==
  ASSUME JInv, SInv, NEW w \in Workers, Working(w), run[w].step = "have", run'[w].seen = run[w].seen,
         NEW e \in Selected, NEW g \in Pages, E(w) = e, run[w].page = g, run[w].full, Undisturbed(w),
         Upsert(E(w), run[w].have), UNCHANGED <<remote, backlog>>
  PROVE  DOMAIN run[w].have = Page(e, 0, g) /\ Behind(w, e, g)' /\ UpToDate(w, e, g)'
<1>1. DataShape /\ Story(w)
  BY InHand
<1>2. PagesKept(w, e, g)
  BY <1>1 DEF Story, Passing, PassSteps
<1>3. Behind(w, e, g) /\ HaveFits(w, e, g)
  BY <1>2 DEF PagesKept
<1>4. RowsStand(w, e)
  BY ListingStays
<1>5. UpToDate(w, e, g)'
  BY <1>1, <1>3, <1>4, UpsertKeeps DEF HaveFits
<1>6. ASSUME NEW p \in Pages, p < g, Whole(e, p)' PROVE UpToDate(w, e, p)'
  <2>1. UpToDate(w, e, p)
    BY <1>3, <1>6 DEF Behind, Stored, Whole
  <2> QED BY <1>1, <1>3, <1>4, <2>1, UpsertKeeps DEF HaveFits
<1>7. Behind(w, e, g)'
  BY <1>6 DEF Behind, Stored
<1> QED BY <1>3, <1>5, <1>7 DEF HaveFits

LEMMA StoreMarks ==
  ASSUME JInv, SInv, NEW w \in Workers, Working(w), run[w].step = "have",
         NEW g \in Pages, E(w) = "worksheets", "worksheets" \in Selected, run[w].page = g, run[w].full, Undisturbed(w),
         Type(w) # "delta", Mark(E(w), run[w].have, worker[w].job), UNCHANGED <<remote, backlog, worker>>
  PROVE  MarkedBehind(w, g)' /\ \A r \in Page("worksheets", 0, g) : Marked(w, r)'
<1>1. DataShape /\ Story(w)
  BY InHand
<1>2. PagesKept(w, "worksheets", g) /\ SourcesKept(w, g)
  BY <1>1 DEF Story, Passing, PassSteps
<1>3. MarkedBehind(w, g) /\ DOMAIN run[w].have = Page("worksheets", 0, g)
  BY <1>2 DEF PagesKept, SourcesKept, HaveFits
<1>4. \A r \in Rows : source'[r] = IF r \in DOMAIN run[w].have THEN worker[w].job ELSE source[r]
  BY DEF Mark
<1>5. Page("worksheets", 0, g) \subseteq Rows /\ Listed("worksheets", 0) \subseteq Rows
  BY DEF Page, Listed
<1>6. \A r \in Page("worksheets", 0, g) : Marked(w, r)'
  BY <1>3, <1>4, <1>5 DEF Marked
<1>7. \A r \in Rows : Marked(w, r) => Marked(w, r)'
  BY <1>4 DEF Marked
<1>8. Listed("worksheets", 0)' = Listed("worksheets", 0)
  BY DEF Listed
<1>9. \A r : Position("worksheets", 0, r)' = Position("worksheets", 0, r)
  BY <1>8, SamePages
<1>10. HasHoles' <=> HasHoles
  BY DEF HasHoles, Pending, Failed
<1>11. MarkedBehind(w, g)'
  BY <1>3, <1>5, <1>7, <1>8, <1>9, <1>10 DEF MarkedBehind
<1> QED BY <1>6, <1>11

LEMMA StorePageKeeps == ASSUME JInv, SInv, NEW w \in Workers, StorePage(w) PROVE SInv'
<1> DEFINE m == IF Type(w) = "delta" THEN Unmarked ELSE worker[w].job
<1>1. /\ run[w].step = "have" /\ Working(w) /\ Upsert(E(w), run[w].have) /\ Mark(E(w), run[w].have, m)
      /\ UNCHANGED <<jobVars, remote, clock, backlog>>
  BY DEF StorePage, At
<1>2. /\ DataShape /\ RunShape /\ ShapeOf(w) /\ FullPass(w) /\ Story(w)
      /\ run[w].page \in Pages /\ E(w) \in Selected /\ run[w].have \in HaveType
  BY <1>1, InHand
<1>3. UNCHANGED <<job, worker, clock, remote, backlog>>
  BY <1>1 DEF jobVars
<1>4. m \in Int
  <2>1. worker[w].job \in 1..MaxJobs
    BY <1>1 DEF JInv, JobsTypeOK, Jobs
  <2>2. worker[w].job \in Int
    BY <2>1
  <2> QED BY <2>2 DEF Unmarked
<1>5. store' \in [Selected -> [Rows -> Nat]] /\ source' \in [Rows -> Int]
  <2> HIDE DEF m
  <2> QED BY <1>1, <1>2, <1>4, UpsertType, MarkType
<1>6. PICK e \in Selected, g \in Pages : e = E(w) /\ g = run[w].page
  BY <1>2
<1>7. CASE E(w) = "projects_v4"
  <2>1. endpoint' = Logged(w) /\ NextPage(w)
    BY <1>7 DEF StorePage
  <2>2. run' \in [Workers -> RunType] /\ run'[w].seen = run[w].seen
    BY <1>2, <2>1, NextPageSets
  <2>3. endpoint' \in [Selected -> StateType]
    BY <1>2, <2>1, LoggedType
  <2>4. DataShape'
    BY <1>2, <1>3, <1>5, <2>2, <2>3 DEF DataShape
  <2>5. Undisturbed(w) /\ run[w].full =>
          DOMAIN run[w].have = Page(e, 0, g) /\ Behind(w, e, g)' /\ UpToDate(w, e, g)'
    BY <1>1, <1>3, <1>6, <2>2, StoreStory
  <2>6. e # "worksheets" /\ "have" \in PassSteps
    BY <1>6, <1>7 DEF PassSteps
  <2>7. Story(w)'
    BY <1>1, <1>2, <1>3, <1>6, <2>1, <2>5, <2>6, NextPageStory
  <2> QED BY <1>1, <1>3, <2>1, <2>4, <2>7, NextPageKeeps
<1>8. CASE E(w) # "projects_v4"
  <2>1. run' = [run EXCEPT ![w].step = "stored"] /\ UNCHANGED endpoint
    BY <1>8 DEF StorePage
  <2>2. "stored" \in RunSteps
    BY DEF RunSteps
  <2>3. /\ run' \in [Workers -> RunType] /\ Only(w)
        /\ run'[w].step = "stored" /\ run'[w].i = run[w].i
        /\ run'[w].page = run[w].page /\ run'[w].after = run[w].after
        /\ run'[w].have = run[w].have /\ run'[w].seen = run[w].seen /\ run'[w].full = run[w].full
        /\ run'[w].alone = run[w].alone /\ run'[w].still = run[w].still
    BY <1>2, <2>1, <2>2, StepSets
  <2>4. DataShape'
    BY <1>2, <1>3, <1>5, <2>1, <2>3 DEF DataShape
  <2>5. ShapeOf(w)'
    BY <1>1, <1>2, <1>3, <2>3 DEF ShapeOf, Working, AtEndpoint, AtPage, PassSteps
  <2>6. Type(w)' = Type(w)
    BY <1>3 DEF Type
  <2>7. FullPass(w)'
    BY <1>1, <1>2, <2>3, <2>6 DEF FullPass, PassSteps
  <2>8. \A f, k : Passing(w, f, k)' => f = e /\ k = g /\ run[w].full /\ Undisturbed(w)
    BY <1>6, <2>3 DEF Passing, E, Undisturbed
  <2>9. ASSUME NEW f \in Selected, NEW k \in Pages, Passing(w, f, k)' PROVE PagesKept(w, f, k)'
    <3>1. f = e /\ k = g /\ run[w].full /\ Undisturbed(w)
      BY <2>8, <2>9
    <3>2. DOMAIN run[w].have = Page(e, 0, g) /\ Behind(w, e, g)' /\ UpToDate(w, e, g)'
      BY <1>1, <1>3, <1>6, <2>3, <3>1, StoreStory
    <3>3. Listed(e, 0)' = Listed(e, 0)
      BY <1>3 DEF Listed
    <3>4. Page(e, 0, g)' = Page(e, 0, g)
      BY <3>3, SamePages
    <3> QED BY <2>3, <3>1, <3>2, <3>4 DEF PagesKept
  <2>10. ASSUME NEW k \in Pages, Passing(w, "worksheets", k)', Type(w)' # "delta" PROVE SourcesKept(w, k)'
    <3>1. e = "worksheets" /\ k = g /\ run[w].full /\ Undisturbed(w) /\ Type(w) # "delta"
      BY <2>6, <2>8, <2>10
    <3>2. MarkedBehind(w, g)' /\ \A r \in Page("worksheets", 0, g) : Marked(w, r)'
      BY <1>1, <1>3, <1>6, <3>1, StoreMarks
    <3>3. Listed("worksheets", 0)' = Listed("worksheets", 0)
      BY <1>3 DEF Listed
    <3>4. Page("worksheets", 0, g)' = Page("worksheets", 0, g)
      BY <3>3, SamePages
    <3> QED BY <3>1, <3>2, <3>4 DEF SourcesKept
  <2>11. \A f, k : ~Retrying(w, f, k)'
    BY <2>3 DEF Retrying
  <2>12. Story(w)'
    BY <2>9, <2>10, <2>11 DEF Story
  <2> QED BY <1>1, <1>3, <2>3, <2>4, <2>5, <2>7, <2>12, OwnStep
<1> QED BY <1>7, <1>8

LEMMA LogPageKeeps == ASSUME JInv, SInv, NEW w \in Workers, LogPage(w) PROVE SInv'
<1>1. /\ run[w].step = "stored" /\ Working(w) /\ endpoint' = Logged(w) /\ NextPage(w)
      /\ UNCHANGED <<jobVars, remote, clock, store, source, backlog>>
  BY DEF LogPage, At
<1>2. /\ DataShape /\ RunShape /\ Story(w)
      /\ run[w].page \in Pages /\ E(w) \in Selected
  BY <1>1, InHand
<1>3. UNCHANGED <<job, worker, clock, remote, store, source, backlog>>
  BY <1>1 DEF jobVars
<1>4. PICK e \in Selected, g \in Pages : e = E(w) /\ g = run[w].page
  BY <1>2
<1>5. run' \in [Workers -> RunType] /\ run'[w].seen = run[w].seen
  BY <1>1, <1>2, NextPageSets
<1>6. endpoint' \in [Selected -> StateType]
  BY <1>1, <1>2, LoggedType
<1>7. DataShape'
  BY <1>2, <1>3, <1>5, <1>6 DEF DataShape
<1>8. RowsStand(w, e)
  BY <1>3, <1>5, ListingStays
<1>9. ASSUME Undisturbed(w), run[w].full
      PROVE  DOMAIN run[w].have = Page(e, 0, g) /\ Behind(w, e, g)' /\ UpToDate(w, e, g)'
  <2>1. PagesKept(w, e, g)
    BY <1>1, <1>2, <1>4, <1>9 DEF Story, Passing, PassSteps
  <2>2. DOMAIN run[w].have = Page(e, 0, g) /\ Behind(w, e, g) /\ UpToDate(w, e, g)
    BY <1>1, <2>1 DEF PagesKept
  <2> QED BY <1>3, <1>8, <2>2, BehindStays, StillUpToDate
<1>10. ASSUME Undisturbed(w), run[w].full, e = "worksheets", Type(w) # "delta"
       PROVE  MarkedBehind(w, g)' /\ \A r \in Page("worksheets", 0, g) : Marked(w, r)'
  <2>1. SourcesKept(w, g)
    BY <1>1, <1>2, <1>4, <1>10 DEF Story, Passing, PassSteps
  <2>2. MarkedBehind(w, g) /\ \A r \in Page("worksheets", 0, g) : Marked(w, r)
    BY <1>1, <2>1 DEF SourcesKept
  <2> QED BY <1>3, <2>2, MarkedStays DEF Marked
<1>11. run[w].step \in PassSteps
  BY <1>1 DEF PassSteps
<1>12. Story(w)'
  BY <1>1, <1>2, <1>3, <1>4, <1>9, <1>10, <1>11, NextPageStory
<1> QED BY <1>1, <1>3, <1>7, <1>12, NextPageKeeps

LEMMA PageFailedKeeps ==
  ASSUME JInv, SInv, NEW w \in Workers, NEW retryable \in BOOLEAN, PageFailed(w, retryable) PROVE SInv'
<1> DEFINE old == backlog[E(w)][run[w].page].tries
           entry == [status |-> IF retryable THEN "deferred" ELSE "failed", tries |-> IF old > 1 THEN old ELSE 1]
           back == [endpoint EXCEPT ![E(w)].page = run[w].last]
<1>1. /\ run[w].step \in {"fetch", "have", "stored"} /\ Working(w)
      /\ UNCHANGED <<job, worker>>
      /\ backlog' = [backlog EXCEPT ![E(w)][run[w].page] = entry]
      /\ endpoint' \in {endpoint, back}
      /\ UNCHANGED <<remote, clock, store, source>>
  BY DEF PageFailed, Stumble, At
<1>2. DataShape /\ RunShape /\ ShapeOf(w) /\ FullPass(w) /\ Story(w) /\ E(w) \in Selected
  BY <1>1, AtOneEndpoint DEF SInv, RunShape, FullPasses, AtEndpoint
<1>3. /\ run' \in [Workers -> RunType] /\ Only(w)
      /\ run'[w].step = "fetch" /\ run'[w].page = run[w].page + 1
      /\ run'[w].i = run[w].i /\ run'[w].after = run[w].after
      /\ run'[w].seen = run[w].seen /\ run'[w].full = run[w].full
      /\ run'[w].alone = run[w].alone /\ run'[w].still = run[w].still
  BY <1>2, PageFailedSets
<1>4. run[w].page \in Nat \ {0}
  BY <1>1, <1>2, RunFields DEF ShapeOf, PassSteps
<1>5. backlog' \in [Selected -> [Pages -> EntryType]]
  <2>1. CASE run[w].page \in Pages
    <3>1. backlog[E(w)][run[w].page] \in EntryType
      BY <1>2, <2>1 DEF DataShape
    <3>2. entry \in EntryType /\ backlog' = [backlog EXCEPT ![E(w)][run[w].page] = entry]
      BY <1>1, <3>1 DEF EntryType
    <3> HIDE DEF entry
    <3> QED BY <1>2, <3>2, EntryKept
  <2>2. CASE run[w].page \notin Pages
    <3> DEFINE row == [backlog[E(w)] EXCEPT ![run[w].page] = entry]
    <3>1. backlog' = [backlog EXCEPT ![E(w)] = row]
      BY <1>1
    <3> HIDE DEF entry
    <3>2. row = [q \in Pages |-> backlog[E(w)][q]]
      BY <1>2, <2>2 DEF DataShape
    <3> HIDE DEF row
    <3>3. row \in [Pages -> EntryType]
      <4>1. \A q \in Pages : backlog[E(w)][q] \in EntryType
        BY <1>2 DEF DataShape
      <4> QED BY <3>2, <4>1
    <3> QED BY <1>2, <3>1, <3>3 DEF DataShape
  <2> QED BY <2>1, <2>2
<1>6. \A q \in Pages : q # run[w].page => backlog'[E(w)][q] = backlog[E(w)][q]
  BY <1>1, <1>2 DEF DataShape
<1>7. run[w].page \in Pages => backlog'[E(w)][run[w].page].status \in {"deferred", "failed"}
  BY <1>1, <1>2 DEF DataShape
<1>8. endpoint' \in [Selected -> StateType]
  <2> DEFINE state == [endpoint[E(w)] EXCEPT !.page = run[w].last]
  <2>1. run[w].last \in Nat
    BY <1>2, RunFields
  <2>2. state \in StateType
    BY <1>2, <2>1 DEF DataShape, StateType
  <2>3. back = [endpoint EXCEPT ![E(w)] = state]
    OBVIOUS
  <2> HIDE DEF state, back
  <2> QED BY <1>1, <1>2, <2>2, <2>3 DEF DataShape
<1> HIDE DEF entry, back
<1>9. DataShape'
  BY <1>1, <1>2, <1>3, <1>5, <1>8 DEF DataShape
<1>10. ShapeOf(w)'
  BY <1>1, <1>2, <1>3, <1>4 DEF ShapeOf, Working, AtEndpoint, AtPage, PassSteps
<1>11. Type(w)' = Type(w)
  BY <1>1 DEF Type
<1>12. FullPass(w)'
  BY <1>1, <1>2, <1>3, <1>11 DEF FullPass, PassSteps
<1>13. ASSUME NEW f \in Selected, NEW k \in Pages, Passing(w, f, k)'
       PROVE  \E g \in Pages : g \in Nat \ {0} /\ Passing(w, f, g) /\ k = g + 1 /\ RowsStand(w, f)
  <2>1. k = run[w].page + 1 /\ f = E(w)
    BY <1>3, <1>13 DEF Passing, E
  <2>2. run[w].page \in Pages
    BY <1>4, <2>1, PagesNat
  <2>3. Passing(w, f, run[w].page)
    BY <1>1, <1>3, <1>13, <2>1 DEF Passing, Undisturbed, PassSteps
  <2>4. RowsStand(w, f)
    BY <1>1, <1>3, ListingStays
  <2> QED BY <1>4, <2>1, <2>2, <2>3, <2>4
<1>14. ASSUME NEW f \in Selected, NEW k \in Pages, Passing(w, f, k)' PROVE PagesKept(w, f, k)'
  <2>1. PICK g \in Pages : g \in Nat \ {0} /\ Passing(w, f, g) /\ k = g + 1 /\ RowsStand(w, f)
    BY <1>13, <1>14
  <2>2. E(w) = f /\ run[w].page = g
    BY <2>1 DEF Passing
  <2>3. Behind(w, f, g)
    BY <1>2, <2>1 DEF Story, PagesKept
  <2>4. ASSUME NEW p \in Pages, p < g + 1, Whole(f, p)' PROVE UpToDate(w, f, p)'
    <3>1. p \in Nat
      BY PagesNat
    <3>2. p # g
      BY <1>7, <2>2, <2>4 DEF Whole
    <3>3. p < g
      BY <2>1, <2>4, <3>1, <3>2
    <3>4. Whole(f, p)
      BY <1>6, <2>2, <2>4, <3>2 DEF Whole
    <3>5. UpToDate(w, f, p)
      BY <2>3, <3>3, <3>4 DEF Behind, Stored
    <3> QED BY <1>1, <2>1, <3>5, StillUpToDate
  <2>5. Behind(w, f, k)'
    BY <2>1, <2>4 DEF Behind, Stored
  <2> QED BY <1>3, <2>5 DEF PagesKept
<1>15. ASSUME NEW k \in Pages, Passing(w, "worksheets", k)', "worksheets" \in Selected PROVE SourcesKept(w, k)'
  <2>1. PICK g \in Pages : Passing(w, "worksheets", g)
    BY <1>13, <1>15
  <2>2. E(w) = "worksheets" /\ run[w].page = g
    BY <2>1 DEF Passing
  <2>3. HasHoles'
    BY <1>7, <2>2 DEF HasHoles, Pending, Failed
  <2> QED BY <1>3, <2>3 DEF SourcesKept, MarkedBehind
<1>16. \A f, k : ~Retrying(w, f, k)'
  BY <1>3 DEF Retrying
<1>17. \A k : Passing(w, "worksheets", k)' => "worksheets" \in Selected
  BY <1>2, <1>3 DEF Passing, E
<1>18. Story(w)'
  BY <1>14, <1>15, <1>16, <1>17 DEF Story
<1> QED BY <1>1, <1>3, <1>9, <1>10, <1>12, <1>18, OwnStep

\* The end of a pass keeps what is stored, and lets go of the pages.
LEMMA EndPassKeeps == ASSUME JInv, SInv, NEW w \in Workers, EndPass(w) \/ SkipEnrichment(w) PROVE SInv'
<1>1. /\ run' \in [Workers -> RunType] /\ Only(w)
      /\ run'[w].step = "passes" /\ run'[w].alone = run[w].alone /\ run'[w].seen = 0
  BY NextEndpointSets DEF SInv
<1>2. Working(w) /\ UNCHANGED <<job, worker, remote, clock, store, backlog>>
  BY DEF EndPass, SkipEnrichment, Stumble, At, jobVars, data
<1>3. RunFrame(w)
  BY <1>1, <1>2 DEF RunFrame
<1>4. DataShape /\ clock \in Nat
  BY DEF SInv, DataShape
<1>5. source' \in [Rows -> Int] /\ endpoint' \in [Selected -> StateType]
  <2>1. CASE SkipEnrichment(w)
    BY <1>4, <2>1 DEF SkipEnrichment, data, DataShape
  <2>2. CASE EndPass(w)
    <3>1. E(w) \in Selected
      BY <2>2, AtOneEndpoint DEF SInv, EndPass, At, AtEndpoint
    <3>2. source' \in [Rows -> Int]
      BY <1>4, <2>2 DEF EndPass, DataShape, Absent
    <3> DEFINE state == [page |-> IF run[w].last > 0 THEN run[w].last ELSE endpoint[E(w)].page,
                         mark |-> IF SupportsDelta(w) THEN clock ELSE endpoint[E(w)].mark]
    <3>3. run[w].last \in Nat
      BY <1>4, RunFields
    <3>4. state \in StateType
      BY <1>4, <3>1, <3>3 DEF DataShape, StateType
    <3>5. endpoint' = [endpoint EXCEPT ![E(w)] = state]
      BY <1>4, <2>2, <3>1 DEF EndPass, DataShape
    <3> HIDE DEF state
    <3>6. endpoint' \in [Selected -> StateType]
      BY <1>4, <3>4, <3>5 DEF DataShape
    <3> QED BY <3>2, <3>6
  <2> QED BY <2>1, <2>2
<1>6. DataShape'
  BY <1>1, <1>2, <1>4, <1>5 DEF DataShape
<1> QED BY <1>1, <1>3, <1>4, <1>6, BetweenPages DEF AtEndpoint

-----------------------------------------------------------------------------
(* The remote system *)

\* A row changed or taken away: the runs whose listing it enters or leaves are
\* no longer at rest, and for the others their rows stand.
LEMMA RemoteKeeps ==
  ASSUME JInv, SInv, NEW f \in Selected, NEW r \in Rows, NEW t \in Nat,
         clock' = clock + 1, remote' = [remote EXCEPT ![f][r] = t],
         UNCHANGED <<jobVars, store, source, endpoint, backlog>>,
         \/ Moves(f)
         \/ UNCHANGED run /\ remote[f][r] # 0 /\ t = clock + 1
  PROVE  SInv'
<1>1. /\ run' \in [Workers -> RunType]
      /\ \A v \in Workers :
           /\ run'[v].step = run[v].step /\ run'[v].i = run[v].i /\ run'[v].page = run[v].page
           /\ run'[v].after = run[v].after /\ run'[v].full = run[v].full /\ run'[v].have = run[v].have
           /\ run'[v].due = run[v].due /\ run'[v].seen = run[v].seen /\ run'[v].alone = run[v].alone
           /\ run'[v].still => run[v].still
      /\ Moves(f) => \A v \in Workers : Working(v) /\ run[v].step \notin {"rounds", "passes"} /\ E(v) = f
                                         => ~run'[v].still
  BY MovesSets DEF SInv
<1>2. UNCHANGED <<job, worker, store, source, endpoint, backlog>>
  BY DEF jobVars
<1>3. DataShape /\ clock \in Nat
  BY DEF SInv, DataShape
<1>4. remote' \in [Selected -> [Rows -> Nat]]
  <2> DEFINE rows == [remote[f] EXCEPT ![r] = t]
  <2>1. rows \in [Rows -> Nat] /\ remote' = [remote EXCEPT ![f] = rows]
    BY <1>3 DEF DataShape
  <2> HIDE DEF rows
  <2> QED BY <1>3, <2>1 DEF DataShape
<1>5. DataShape'
  BY <1>1, <1>2, <1>3, <1>4 DEF DataShape
<1>6. ASSUME NEW w \in Workers PROVE ShapeOf(w)' /\ FullPass(w)' /\ Story(w)'
  <2>1. ShapeOf(w) /\ FullPass(w) /\ Story(w) /\ run[w].seen \in Nat
    BY <1>3, RunFields DEF SInv, RunShape, FullPasses
  <2>2. ShapeOf(w)'
    BY <1>1, <1>2, <1>3, <2>1 DEF ShapeOf, Working
  <2>3. Type(w)' = Type(w)
    BY <1>2 DEF Type
  <2>4. FullPass(w)'
    BY <1>1, <2>1, <2>3 DEF FullPass
  <2>5. ASSUME Undisturbed(w)', run[w].step \in PassSteps \cup {"retried", "resolving"}, NEW e, E(w) = e
        PROVE  RowsStand(w, e)
    <3>1. e \in Selected
      BY <2>5, AtOneEndpoint DEF SInv, PassSteps, AtEndpoint
    <3>2. Working(w) /\ run[w].step \notin {"rounds", "passes"} /\ run[w].seen <= clock /\ run'[w].seen = run[w].seen
      BY <1>1, <2>1, <2>5 DEF ShapeOf, PassSteps
    <3>3. CASE e # f
      BY <1>3, <3>1, <3>2, <3>3, OthersRowsStand
    <3>4. CASE e = f
      <4>1. remote[f][r] # 0 /\ t = clock + 1
        BY <1>1, <2>5, <3>2, <3>4 DEF Undisturbed
      <4>2. remote' = [remote EXCEPT ![f][r] = clock + 1]
        BY <4>1
      <4> QED BY <1>3, <3>1, <3>2, <4>1, <4>2, ChangedRowsStand
    <3> QED BY <3>3, <3>4
  <2>6. Undisturbed(w)' => Undisturbed(w) /\ run'[w].have = run[w].have
    BY <1>1 DEF Undisturbed
  <2>7. worker'[w].job = worker[w].job
    BY <1>2
  <2>8. Story(w)'
    BY <1>1, <1>2, <2>1, <2>3, <2>5, <2>6, <2>7, FrameStory
  <2> QED BY <2>2, <2>4, <2>8
<1>7. Loneliness' /\ NoManualJobs'
  BY <1>1, <1>2 DEF SInv, Loneliness, NoManualJobs, Alone, Working
<1> QED BY <1>5, <1>6, <1>7 DEF SInv, RunShape, FullPasses

LEMMA ChangeKeeps == ASSUME JInv, SInv, NEW e \in Selected, NEW r \in Rows, Change(e, r) PROVE SInv'
<1>1. clock + 1 \in Nat
  BY DEF SInv, DataShape
<1>2. Moves(e) \/ (UNCHANGED run /\ remote[e][r] # 0)
  BY DEF Change
<1> QED BY <1>1, <1>2, RemoteKeeps DEF Change

LEMMA TakeAwayKeeps == ASSUME JInv, SInv, NEW r \in Rows, TakeAway(r) PROVE SInv'
<1>1. "worksheets" \in Selected /\ Moves("worksheets") /\ 0 \in Nat
  BY DEF TakeAway
<1> QED BY <1>1, RemoteKeeps DEF TakeAway

-----------------------------------------------------------------------------
(* The theorems *)

LEMMA PassesInit == Init => SInv
<1> SUFFICES ASSUME Init PROVE SInv
  OBVIOUS
<1>1. NoRun \in RunType /\ NoRun.step = "none" /\ NoRun.seen = 0
  BY NoRunType DEF NoRun
<1>2. \A w \in Workers : run[w].step = "none" /\ run[w].seen = 0 /\ ~Working(w)
  BY <1>1 DEF Init, JobsInit, Idle, Working
<1>3. DataShape
  <2>1. [status |-> "none", tries |-> 0] \in EntryType /\ [page |-> 0, mark |-> 0] \in StateType
    BY DEF EntryType, StateType
  <2> QED BY <1>1, <2>1 DEF Init, DataShape, Absent
<1>4. RunShape /\ FullPasses
  BY <1>2 DEF RunShape, ShapeOf, FullPasses, FullPass, AtEndpoint, AtPage, PassSteps, Init
<1>5. Loneliness
  BY <1>2 DEF Loneliness
<1>6. NoManualJobs
  <2>1. \A j \in Jobs : job[j] = IF j = 1 THEN [NoJob EXCEPT !.type = "bootstrap", !.status = "queued"] ELSE NoJob
    BY DEF Init, JobsInit
  <2>2. NoJob.type = "delta" /\ [NoJob EXCEPT !.type = "bootstrap", !.status = "queued"].type = "bootstrap"
    BY DEF NoJob
  <2> QED BY <2>1, <2>2 DEF NoManualJobs
<1>7. \A w \in Workers : Story(w)
  BY <1>2 DEF Story, Passing, Retrying, PassSteps
<1> QED BY <1>3, <1>4, <1>5, <1>6, <1>7 DEF SInv

LEMMA PassesStep == JInv /\ SInv /\ [Next]_vars => SInv'
<1> SUFFICES ASSUME JInv, SInv, [Next]_vars PROVE SInv'
  OBVIOUS
<1>1. ASSUME NEW w \in Workers, Step(w) PROVE SInv'
  <2>1. CASE (Poll(w) \/ ScheduleDelta(w) \/ NothingToClaim(w)) /\ UNCHANGED passVars
    BY <2>1, PollKeeps
  <2>2. CASE \E j \in Jobs : Start(w, j)
    BY <2>2, StartKeeps
  <2>3. CASE ReadDue(w) \/ RoundDone(w)
    BY <2>3, ReadDueKeeps
  <2>4. CASE RetryStored(w) \/ RetryResolved(w)
    BY <2>4, RetryStoredKeeps, RetryResolvedKeeps
  <2>5. CASE \E p \in Pages : RetryFetched(w, p)
    BY <2>5, RetryFetchedKeeps
  <2>6. CASE StartPass(w) \/ FetchPage(w)
    BY <2>6, StartPassKeeps, FetchPageKeeps
  <2>7. CASE StorePage(w) \/ LogPage(w)
    BY <2>7, StorePageKeeps, LogPageKeeps
  <2>8. CASE EndPass(w) \/ FinishJob(w)
    BY <2>8, EndPassKeeps, LeaveKeeps
  <2> QED BY <1>1, <2>1, <2>2, <2>3, <2>4, <2>5, <2>6, <2>7, <2>8 DEF Step
<1>2. ASSUME NEW w \in Workers, Trouble(w) PROVE SInv'
  <2>1. CASE \E retryable \in BOOLEAN : PageFailed(w, retryable)
    BY <2>1, PageFailedKeeps
  <2>2. CASE \E retryable \in BOOLEAN, p \in Pages : RetryFailed(w, p, retryable)
    BY <2>2, RetryFailedKeeps
  <2>3. CASE SkipEnrichment(w)
    BY <2>3, EndPassKeeps
  <2>4. CASE FailJob(w) \/ LoseJob(w)
    BY <2>4, LeaveKeeps
  <2> QED BY <1>2, <2>1, <2>2, <2>3, <2>4 DEF Trouble
<1>3. CASE Outside
  <2>1. CASE NextInterval /\ UNCHANGED passVars
    BY <2>1, RowsKeep
  <2>2. CASE Requeue
    BY <2>2, RequeueKeeps
  <2>3. CASE \E e \in Selected, r \in Rows : Change(e, r)
    BY <2>3, ChangeKeeps
  <2>4. CASE \E r \in Rows : TakeAway(r)
    BY <2>4, TakeAwayKeeps
  <2> QED BY <1>3, <2>1, <2>2, <2>3, <2>4 DEF Outside
<1>4. CASE Ripening
  BY <1>4, RowsKeep DEF Ripening
<1>5. CASE UNCHANGED vars
  <2>1. UNCHANGED <<jobVars, passVars>>
    BY <1>5 DEF vars
  <2>2. UNCHANGED <<job, worker, remote, clock, store, source, endpoint, backlog, run>>
    BY <2>1 DEF jobVars, passVars
  <2>3. TypesStay /\ NoManualJobs'
    BY <2>2, QueueTypes DEF SInv
  <2> QED BY <2>2, <2>3, QueueStep DEF SInv, DataShape, Working
<1> QED BY <1>1, <1>2, <1>3, <1>4, <1>5 DEF Next

\* What a run knows of the pages behind it, at any step of the worker.
THEOREM PassesInvariant == Spec => [](JInv /\ SInv)
<1>1. Spec => []JInv
  BY WorkerIsAQueueUser, JobsInvariant, PTL
<1>2. JInv /\ SInv /\ [Next]_vars => SInv'
  BY PassesStep
<1> QED BY <1>1, <1>2, PassesInit, PTL DEF Spec

LEMMA CompleteAtTheEnd == SInv => FullPassIsComplete
<1> SUFFICES ASSUME SInv, NEW w \in Workers, At(w, "ending"), run[w].full, Undisturbed(w), NEW p \in Pages,
                    backlog[E(w)][p].status \in {"none", "resolved"}
             PROVE  UpToDate(w, E(w), p)
  BY DEF FullPassIsComplete, NothingLost
<1>1. run[w].step = "ending" /\ E(w) \in Selected /\ run[w].page \in Pages /\ Story(w)
  BY AtOneEndpoint DEF SInv, RunShape, ShapeOf, At, AtEndpoint, AtPage
<1> DEFINE e == E(w)
           g == run[w].page
<1>2. PagesKept(w, e, g)
  BY <1>1 DEF Story, Passing, PassSteps
<1>3. /\ Behind(w, e, g) /\ UpToDate(w, e, g) /\ Cardinality(Page(e, 0, g)) < PageSize
  BY <1>1, <1>2 DEF PagesKept
<1>4. p \in Nat \ {0} /\ g \in Nat \ {0}
  BY <1>1, PagesNat
<1>5. CASE p < g
  BY <1>3, <1>5 DEF Behind, Stored, Whole
<1>6. CASE p = g
  BY <1>3, <1>6
<1>7. CASE p > g
  <2>1. Page(e, 0, p) = {}
    BY <1>3, <1>4, <1>7, LaterPagesEmpty
  <2> QED BY <2>1 DEF UpToDate
<1>8. p < g \/ p = g \/ p > g
  BY <1>4
<1> QED BY <1>5, <1>6, <1>7, <1>8

\* Whatever failed on the way, at the end of a full pass that ran alone over a
\* listing that stood still, every page is stored as it was when the pass began
\* or is in the backlog (runReadOnlyEndpoint, runProjectsSourceSync).
THEOREM FullPassesComplete == Spec => []FullPassIsComplete
BY PassesInvariant, CompleteAtTheEnd, PTL

\* Nothing but the end of a retry resolves an entry.
LEMMA OnlyRetriesResolve ==
  ASSUME SInv, [Next]_vars, NEW e \in Selected, NEW p \in Pages,
         backlog[e][p].status # "resolved", backlog'[e][p].status = "resolved"
  PROVE  \E w \in Workers : RetryResolved(w) \/ (RetryStored(w) /\ E(w) = "projects_v4")
<1>1. ASSUME NEW w \in Workers, Step(w)
      PROVE  UNCHANGED backlog \/ RetryResolved(w) \/ (RetryStored(w) /\ E(w) = "projects_v4")
  <2>1. CASE (Poll(w) \/ ScheduleDelta(w) \/ NothingToClaim(w)) /\ UNCHANGED passVars
    BY <2>1 DEF passVars
  <2>2. CASE \E j \in Jobs : Start(w, j)
    BY <2>2 DEF Start, data
  <2>3. CASE ReadDue(w) \/ RoundDone(w) \/ (\E q \in Pages : RetryFetched(w, q)) \/ StartPass(w) \/ FetchPage(w)
    BY <2>3 DEF ReadDue, RoundDone, RetryFetched, StartPass, FetchPage, data
  <2>4. CASE RetryStored(w)
    BY <2>4 DEF RetryStored
  <2>5. CASE StorePage(w) \/ LogPage(w) \/ EndPass(w)
    BY <2>5 DEF StorePage, LogPage, EndPass
  <2>6. CASE FinishJob(w)
    BY <2>6 DEF FinishJob, Leave, data
  <2> QED BY <1>1, <2>1, <2>2, <2>3, <2>4, <2>5, <2>6 DEF Step
<1>2. DataShape
  BY DEF SInv
<1>3. ASSUME NEW w \in Workers, NEW q, NEW entry, entry.status # "resolved",
             backlog' = [backlog EXCEPT ![E(w)][q] = entry]
      PROVE  FALSE
  <2>1. backlog'[e][p] = IF e = E(w) /\ p = q THEN entry ELSE backlog[e][p]
    BY <1>2, <1>3 DEF DataShape
  <2> QED BY <1>3, <2>1
<1>4. ASSUME NEW w \in Workers, Trouble(w) PROVE UNCHANGED backlog
  <2>1. ASSUME NEW retryable \in BOOLEAN, PageFailed(w, retryable) PROVE FALSE
    <3> DEFINE old == backlog[E(w)][run[w].page].tries
               entry == [status |-> IF retryable THEN "deferred" ELSE "failed", tries |-> IF old > 1 THEN old ELSE 1]
    <3>1. backlog' = [backlog EXCEPT ![E(w)][run[w].page] = entry]
      BY <2>1 DEF PageFailed
    <3>2. entry.status # "resolved"
      OBVIOUS
    <3> HIDE DEF entry
    <3> QED BY <3>1, <3>2, <1>3
  <2>2. ASSUME NEW retryable \in BOOLEAN, NEW q \in Pages, RetryFailed(w, q, retryable) PROVE FALSE
    <3> DEFINE tries == run[w].due[q] + 1
               entry == [status |-> IF ~retryable \/ tries >= MaxTries THEN "failed" ELSE "deferred", tries |-> tries]
    <3>1. backlog' = [backlog EXCEPT ![E(w)][q] = entry]
      BY <2>2 DEF RetryFailed
    <3>2. entry.status # "resolved"
      OBVIOUS
    <3> HIDE DEF entry
    <3> QED BY <3>1, <3>2, <1>3
  <2>3. CASE SkipEnrichment(w) \/ FailJob(w) \/ LoseJob(w)
    BY <2>3 DEF SkipEnrichment, FailJob, LoseJob, Leave, data
  <2> QED BY <1>4, <2>1, <2>2, <2>3 DEF Trouble
<1>5. Outside \/ Ripening \/ UNCHANGED vars => UNCHANGED backlog
  BY DEF Outside, Requeue, Change, TakeAway, Ripening, vars, passVars
<1> QED BY <1>1, <1>4, <1>5 DEF Next

\* A run that is alone is the only one at work.
LEMMA AloneAtWork ==
  ASSUME SInv, NEW v \in Workers, NEW w \in Workers, Working(v), Working(w), Undisturbed(w) PROVE v = w
BY DEF SInv, Loneliness, Alone, Undisturbed

LEMMA HealsStep == JInv /\ SInv /\ [Next]_vars => \A e \in Selected \ {"projects_v3"} : Healed(e)
<1> SUFFICES ASSUME JInv, SInv, [Next]_vars, NEW e \in Selected \ {"projects_v3"}, NEW w \in Workers, NEW p \in Pages,
                    backlog[e][p].status # "resolved", backlog'[e][p].status = "resolved",
                    At(w, "retried") \/ At(w, "resolving"), E(w) = e, run[w].page = p, Undisturbed(w)
             PROVE  UpToDate(w, e, p)'
  BY DEF Healed
<1>1. PICK v \in Workers : RetryResolved(v) \/ (RetryStored(v) /\ E(v) = "projects_v4")
  BY OnlyRetriesResolve
<1>2. v = w
  BY <1>1, AloneAtWork DEF RetryResolved, RetryStored, At
<1>3. RetryKept(w, e, p)
  BY DEF SInv, Story, Retrying, At
<1>4. DataShape /\ RunShape
  BY DEF SInv
<1>5. CASE RetryResolved(w)
  <2>1. run' = [run EXCEPT ![w].step = "retry", ![w].due = Forget(w, run[w].page), ![w].have = Nothing]
    BY <1>5 DEF RetryResolved
  <2>2. run'[w].seen = run[w].seen /\ UNCHANGED <<remote, store>> /\ run[w].step = "resolving"
    BY <1>4, <1>5, <2>1, BackToRetry DEF RetryResolved, At
  <2>3. RowsStand(w, e) /\ UpToDate(w, e, p)
    BY <1>3, <2>2, ListingStays DEF RetryKept
  <2> QED BY <2>2, <2>3, StillUpToDate
<1>6. CASE RetryStored(w) /\ E(w) = "projects_v4"
  <2>1. /\ run' = [run EXCEPT ![w].step = "retry", ![w].due = Forget(w, run[w].page), ![w].have = Nothing]
        /\ Upsert(e, run[w].have) /\ UNCHANGED remote /\ run[w].step = "retried"
    BY <1>6 DEF RetryStored, At
  <2>2. run'[w].seen = run[w].seen
    BY <1>4, <2>1, BackToRetry
  <2>3. RowsStand(w, e) /\ HaveFits(w, e, p)
    BY <1>3, <2>1, <2>2, ListingStays DEF RetryKept
  <2> QED BY <1>4, <2>1, <2>3, UpsertKeeps DEF HaveFits
<1> QED BY <1>1, <1>2, <1>5, <1>6

\* An entry leaves the backlog of v4 or the worksheets only with its page read
\* and stored, whenever the job fails or its process dies in between
\* (runProjectsBacklogRetryRound, runReadOnlyBacklogRetryRound).
THEOREM ResolvedIsStored == Spec => BacklogHeals
BY PassesInvariant, HealsStep, PTL DEF Spec, BacklogHeals

\* Only a reconciliation takes an access source away.
LEMMA OnlyReconciled ==
  ASSUME JInv, SInv, [Next]_vars, NEW r \in Rows, source[r] # Absent, source'[r] = Absent
  PROVE  \E w \in Workers : EndPass(w) /\ Reconciles(w)
<1>1. ASSUME NEW e, NEW h, NEW m, Mark(e, h, m), m # Absent PROVE FALSE
  BY <1>1 DEF Mark
<1>2. ASSUME NEW w \in Workers, Step(w)
      PROVE  UNCHANGED source \/ (EndPass(w) /\ Reconciles(w))
  <2>1. CASE (Poll(w) \/ ScheduleDelta(w) \/ NothingToClaim(w)) /\ UNCHANGED passVars
    BY <2>1 DEF passVars
  <2>2. CASE \E j \in Jobs : Start(w, j)
    BY <2>2 DEF Start, data
  <2>3. CASE ReadDue(w) \/ RoundDone(w) \/ (\E q \in Pages : RetryFetched(w, q)) \/ StartPass(w) \/ FetchPage(w)
    BY <2>3 DEF ReadDue, RoundDone, RetryFetched, StartPass, FetchPage, data
  <2>4. CASE RetryStored(w)
    <3>1. Mark(E(w), run[w].have, Unmarked) /\ Unmarked # Absent
      BY <2>4 DEF RetryStored, Unmarked, Absent
    <3> QED BY <1>1, <3>1
  <2>5. CASE RetryResolved(w) \/ LogPage(w)
    BY <2>5 DEF RetryResolved, LogPage
  <2>6. CASE StorePage(w)
    <3> DEFINE m == IF Type(w) = "delta" THEN Unmarked ELSE worker[w].job
    <3>1. worker[w].job \in 1..MaxJobs
      BY <2>6 DEF StorePage, At, JInv, JobsTypeOK, Jobs
    <3>2. Mark(E(w), run[w].have, m) /\ m # Absent
      BY <2>6, <3>1 DEF StorePage, Unmarked, Absent
    <3> HIDE DEF m
    <3> QED BY <1>1, <3>2
  <2>7. CASE EndPass(w)
    BY <2>7 DEF EndPass
  <2>8. CASE FinishJob(w)
    BY <2>8 DEF FinishJob, Leave, data
  <2> QED BY <1>2, <2>1, <2>2, <2>3, <2>4, <2>5, <2>6, <2>7, <2>8 DEF Step
<1>3. ASSUME NEW w \in Workers, Trouble(w) PROVE UNCHANGED source
  BY <1>3 DEF Trouble, PageFailed, RetryFailed, SkipEnrichment, FailJob, LoseJob, Leave, data
<1>4. Outside \/ Ripening \/ UNCHANGED vars => UNCHANGED source
  BY DEF Outside, Requeue, Change, TakeAway, Ripening, vars, passVars
<1> QED BY <1>2, <1>3, <1>4 DEF Next

LEMMA AccessStep ==
  JInv /\ SInv /\ [Next]_vars =>
    \A r \in Rows : source[r] # Absent /\ source'[r] = Absent =>
      \E w \in Workers : At(w, "ending") /\ (remote["worksheets"][r] = 0 \/ ~Undisturbed(w))
<1> SUFFICES ASSUME JInv, SInv, [Next]_vars, NEW r \in Rows, source[r] # Absent, source'[r] = Absent
             PROVE  \E w \in Workers : At(w, "ending") /\ (remote["worksheets"][r] = 0 \/ ~Undisturbed(w))
  OBVIOUS
<1>1. PICK w \in Workers : EndPass(w) /\ Reconciles(w)
  BY OnlyReconciled
<1>2. At(w, "ending") /\ E(w) = "worksheets" /\ Type(w) # "delta" /\ ~HasHoles
  BY <1>1 DEF EndPass, Reconciles, HasHoles
<1> SUFFICES ASSUME Undisturbed(w) PROVE remote["worksheets"][r] = 0
  BY <1>2
<1>3. /\ run[w].step = "ending" /\ "worksheets" \in Selected /\ run[w].page \in Pages /\ Story(w)
      /\ FullPass(w) /\ DataShape
  BY <1>2, AtOneEndpoint DEF SInv, RunShape, ShapeOf, At, AtEndpoint, AtPage, FullPasses
<1>4. Passing(w, "worksheets", run[w].page)
  BY <1>2, <1>3 DEF Passing, FullPass, PassSteps
<1>5. PagesKept(w, "worksheets", run[w].page) /\ SourcesKept(w, run[w].page)
  BY <1>2, <1>3, <1>4 DEF Story
<1>6. ASSUME r \in Listed("worksheets", 0) PROVE Marked(w, r)
  <2>1. run[w].page \in Nat \ {0}
    BY <1>3, PagesNat
  <2>2. Cardinality(Page("worksheets", 0, run[w].page)) < PageSize
    BY <1>3, <1>5 DEF PagesKept
  <2>3. Position("worksheets", 0, r) <= run[w].page * PageSize
    BY <1>6, <2>1, <2>2, ShortPageIsLast
  <2>4. \/ Position("worksheets", 0, r) <= (run[w].page - 1) * PageSize
        \/ r \in Page("worksheets", 0, run[w].page)
    BY <1>6, <2>1, <2>3, OnPageOrBefore
  <2> QED BY <1>2, <1>3, <1>5, <1>6, <2>4 DEF SourcesKept, MarkedBehind
<1>7. ~Marked(w, r)
  BY <1>1 DEF EndPass, Marked
<1>8. remote["worksheets"][r] \in Nat
  BY <1>3 DEF DataShape
<1> QED BY <1>6, <1>7, <1>8 DEF Listed

\* An access source goes only with a worksheet that is no longer listed, or
\* with a run that others, or a moving listing, disturbed: a pass with pages in
\* the backlog takes none away (reconcileMissingWorksheetSources).
THEOREM AccessIsKept == Spec => AccessKept
BY PassesInvariant, AccessStep, PTL DEF Spec, AccessKept
=============================================================================
