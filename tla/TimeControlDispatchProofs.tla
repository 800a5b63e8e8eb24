---------------------- MODULE TimeControlDispatchProofs ----------------------
(***************************************************************************)
(* Theorems about TimeControlDispatch, for any number of test runs and     *)
(* catch-ups and any bounds on time and on what others do meanwhile.       *)
(***************************************************************************)
EXTENDS TimeControlDispatch, TLAPS

-----------------------------------------------------------------------------
(* Types.                                                                  *)

LEMMA TypeInit == Init => TypeOK
BY BoundsAssumption, CallersAssumption
DEF Init, TypeOK, Times, Dataset, Runs, Callers, Steps, NoMail

USE DEF Callers, Runs

\* A caller that takes the time gets an instant.
LEMMA TimeTaken ==
  ASSUME TypeOK, NEW c \in Callers, TakesTime(c)
  PROVE  clock' \in Times /\ stamp' \in [Callers -> 0..MaxClock]
BY BoundsAssumption DEF TypeOK, TakesTime, Times

LEMMA StepGoes ==
  ASSUME TypeOK, NEW c \in Callers, NEW s \in Steps, Goes(c, s)
  PROVE  step' \in [Callers -> Steps]
BY DEF TypeOK, Goes

LEMMA LocksFreed ==
  ASSUME TypeOK, NEW c \in Callers, Frees(c)
  PROVE  runLock' \in Runs \cup {None} /\ captureLock' \in Callers \cup {None}
BY DEF TypeOK, Frees

LEMMA Forgotten ==
  ASSUME TypeOK, NEW c \in Callers, Forgets(c)
  PROVE  stamp' \in [Callers -> 0..MaxClock] /\ data' \in [Callers -> Dataset \cup {None}]
BY BoundsAssumption DEF TypeOK, Forgets

LEMMA Ended ==
  ASSUME TypeOK, NEW c \in Callers, Ends(c)
  PROVE  /\ step' \in [Callers -> Steps] /\ stamp' \in [Callers -> 0..MaxClock]
         /\ data' \in [Callers -> Dataset \cup {None}]
         /\ runLock' \in Runs \cup {None} /\ captureLock' \in Callers \cup {None}
         /\ startedAt' \in 0..MaxClock /\ admitted' \in Nat
<1>1. Frees(c) /\ Goes(c, "done") /\ Forgets(c)
  BY DEF Ends
<1>2. startedAt' \in 0..MaxClock /\ admitted' \in Nat
  BY BoundsAssumption DEF Ends, TypeOK
<1> QED BY <1>1, <1>2, StepGoes, LocksFreed, Forgotten DEF Steps

LEMMA Withdrawn ==
  ASSUME NEW begun \in 0..MaxClock, Invalidated(begun)
  PROVE  head' \in Dataset \cup {None} /\ invalidated' \in 0..MaxClock
BY DEF Invalidated

LEMMA PublishedTypes ==
  ASSUME TypeOK, NEW d \in Dataset, Published(d)
  PROVE  /\ head' \in Dataset /\ invalidated' \in 0..MaxClock
         /\ newest' \in 0..MaxClock /\ disproved' \in 0..MaxClock
BY BoundsAssumption DEF TypeOK, Published, Dataset

LEMMA CaptureTypes ==
  ASSUME TypeOK, NEW c \in Callers, Capture(c), step[c] = "storing" => data[c] \in Dataset
  PROVE  TypeOK'
<1>1. CASE BeginCapture(c)
  <2>1. CASE captureLock = None
    BY <1>1, <2>1, TimeTaken, StepGoes
    DEF BeginCapture, TypeOK, Steps, world, day, control
  <2>2. CASE captureLock # None
    <3>1. Goes(c, After(c, "failed"))
      BY <1>1, <2>2 DEF BeginCapture
    <3>2. After(c, "failed") \in Steps
      BY DEF After, Steps
    <3> QED BY <1>1, <2>2, <3>1, <3>2, StepGoes DEF BeginCapture, TypeOK, world, day, control
  <2> QED BY <2>1, <2>2
<1>2. CASE Invalidate(c)
  <2>1. stamp[c] \in 0..MaxClock
    BY DEF TypeOK
  <2> QED BY <1>2, <2>1, TimeTaken, StepGoes, Withdrawn
      DEF Invalidate, TypeOK, Steps, world, control, locks
<1>3. CASE Read(c)
  BY <1>3, StepGoes DEF Read, TypeOK, Dataset, Steps, world, day, control, locks
<1>4. CASE CaptureFails(c)
  BY <1>4, TimeTaken, StepGoes DEF CaptureFails, TypeOK, Steps, world, day, control, locks
<1>5. CASE Store(c)
  <2>1. data[c] \in Dataset /\ Published(data[c])
    BY <1>5 DEF Store
  <2>2. After(c, "captured") \in Steps /\ "aborting" \in Steps
    BY DEF After, Steps
  <2>3. step' \in [Callers -> Steps]
    BY <1>5, <2>2, StepGoes DEF Store
  <2>4. clock' \in Times /\ stamp' \in [Callers -> 0..MaxClock]
    BY <1>5, TimeTaken, BoundsAssumption DEF Store, TypeOK
  <2>5. data' \in [Callers -> Dataset \cup {None}] /\ captureLock' \in Callers \cup {None}
    BY <1>5 DEF Store, TypeOK
  <2> QED BY <1>5, <2>1, <2>3, <2>4, <2>5, PublishedTypes DEF Store, TypeOK, world, control
<1>6. CASE StoreRefused(c)
  BY <1>6, TimeTaken, StepGoes DEF StoreRefused, TypeOK, Steps, world, day, control, locks
<1>7. CASE Abort(c)
  <2>1. After(c, "failed") \in Steps
    BY DEF After, Steps
  <2>2. step' \in [Callers -> Steps]
    BY <1>7, <2>1, StepGoes DEF Abort
  <2>3. stamp[c] \in 0..MaxClock
    BY DEF TypeOK
  <2>4. head' \in Dataset \cup {None} /\ invalidated' \in 0..MaxClock /\ disproved' \in 0..MaxClock
    BY <1>7, <2>3, Withdrawn DEF Abort, TypeOK
  <2> QED BY <1>7, <2>2, <2>4, Forgotten DEF Abort, TypeOK, world, control
<1> QED BY <1>1, <1>2, <1>3, <1>4, <1>5, <1>6, <1>7 DEF Capture

\* A catch-up only captures.
OnlyCaptures(c) == c \in CatchUps => step[c] \notin {"locked", "prepared", "captured", "failed"}

LEMMA ControlTypes ==
  ASSUME TypeOK, NEW c \in Callers, Control(c) \/ Dies(c), OnlyCaptures(c)
  PROVE  TypeOK'
<1>1. CASE Begin(c)
  <2>1. "locked" \in Steps /\ "done" \in Steps
    BY DEF Steps
  <2>2. step' \in [Callers -> Steps]
    BY <1>1, <2>1, StepGoes DEF Begin
  <2> QED BY <1>1, <2>2, BoundsAssumption DEF Begin, TypeOK, Times, world, day, control
<1>2. ASSUME NEW d \in Given(c), Prepare(c, d)
      PROVE  TypeOK'
  <2>1. "prepared" \in Steps /\ "captured" \in Steps
    BY DEF Steps
  <2>2. step' \in [Callers -> Steps]
    BY <1>2, <2>1, StepGoes DEF Prepare
  <2>3. d \in Dataset \cup {None}
    BY DEF Given, TypeOK
  <2>4. data' \in [Callers -> Dataset \cup {None}]
    BY <1>2, <2>3 DEF Prepare, TypeOK
  <2>5. c \in Runs
    BY <1>2 DEF Prepare, OnlyCaptures
  <2>6. run' \in [mode : {"none", "live", "dry_run"}, by : Runs \cup {None},
                  status : {"none", "running", "completed", "blocked"}]
    BY <1>2, <2>5 DEF Prepare
  <2>7. admitted' \in Nat
    BY <1>2 DEF Prepare, TypeOK
  <2> QED BY <1>2, <2>2, <2>4, <2>6, <2>7 DEF Prepare, TypeOK, world, day, locks
<1>3. CASE Evaluate(c)
  <2>1. Ends(c) /\ UNCHANGED <<clock, changes, world, day>>
    BY <1>3 DEF Evaluate
  <2>2. result' \in [status : {"none", "missing_hours", "ok", "data_incomplete"},
                     dataset : Dataset \cup {None}, approval : 0..MaxApprovals]
    BY <1>3, BoundsAssumption DEF Evaluate, TypeOK
  <2>3. run' \in [mode : {"none", "live", "dry_run"}, by : Runs \cup {None},
                  status : {"none", "running", "completed", "blocked"}]
    BY <1>3 DEF Evaluate, TypeOK
  <2>4. mail' \in [state : {"none", "queued", "processing", "calling", "over"},
                   dataset : Dataset \cup {None}, approval : 0..MaxApprovals, epoch : Nat]
    BY <1>3, BoundsAssumption DEF Evaluate, TypeOK
  <2>5. receipts' \subseteq [epoch : Nat, approval : 1..MaxApprovals]
    BY <1>3 DEF Evaluate, TypeOK
  <2> QED BY <2>1, <2>2, <2>3, <2>4, <2>5, Ended DEF TypeOK, world, day
<1>4. CASE EvaluateStale(c) \/ Dies(c)
  <2>1. Ends(c) /\ UNCHANGED <<clock, changes, world, day, control>>
    BY <1>4 DEF EvaluateStale, Dies
  <2> QED BY <2>1, Ended DEF TypeOK, world, day, control
<1>5. CASE Block(c)
  <2>1. Ends(c) /\ UNCHANGED <<clock, changes, world, day, receipts, mail>>
    BY <1>5 DEF Block
  <2>2. result' \in [status : {"none", "missing_hours", "ok", "data_incomplete"},
                     dataset : Dataset \cup {None}, approval : 0..MaxApprovals]
    BY <1>5 DEF Block, TypeOK
  <2>3. run' \in [mode : {"none", "live", "dry_run"}, by : Runs \cup {None},
                  status : {"none", "running", "completed", "blocked"}]
    BY <1>5 DEF Block, TypeOK
  <2> QED BY <2>1, <2>2, <2>3, Ended DEF TypeOK, world, day
<1> QED BY <1>1, <1>2, <1>3, <1>4, <1>5 DEF Control

LEMMA OtherTypes ==
  ASSUME TypeOK, Dispatch \/ Evidence \/ World \/ WindowCloses
  PROVE  TypeOK'
<1>1. CASE Dispatch
  <2>1. Dispatched
    BY <1>1 DEF Dispatch, Claim, Call, Settle
  <2>2. mail' \in [state : {"none", "queued", "processing", "calling", "over"},
                   dataset : Dataset \cup {None}, approval : 0..MaxApprovals, epoch : Nat]
    BY <1>1, BoundsAssumption DEF Dispatch, Claim, Call, Settle, NoMail, TypeOK
  <2> QED BY <2>1, <2>2 DEF Dispatched, TypeOK, world, day, callers, locks
<1>2. ASSUME NEW at \in 0..MaxClock, Import(at) PROVE TypeOK'
  <2>1. [at |-> at, missing |-> missing, server |-> FALSE] \in Dataset
    BY DEF TypeOK, Dataset
  <2>2. changes' \in 0..MaxChanges
    BY <1>2, BoundsAssumption DEF Import, Changes, TypeOK
  <2> QED BY <1>2, <2>1, <2>2, PublishedTypes DEF Import, TypeOK, world, control, callers, locks
<1>3. ASSUME NEW begun \in Times, ImportRefused(begun) PROVE TypeOK'
  <2>1. changes' \in 0..MaxChanges
    BY <1>3, BoundsAssumption DEF ImportRefused, Changes, TypeOK
  <2>2. begun \in 0..MaxClock /\ 0 \in 0..MaxClock
    BY BoundsAssumption DEF Times
  <2> QED BY <1>3, <2>1, <2>2, Withdrawn DEF ImportRefused, TypeOK, world, control, callers, locks
<1>4. CASE World
  <2>1. changes' \in 0..MaxChanges
    BY <1>4, BoundsAssumption DEF World, Changes, TypeOK
  <2>2. op.epoch \in Nat /\ op.epoch + 1 \in Nat /\ op.started \in Times /\ op.cohort \in 1..MaxApprovals
    BY DEF TypeOK
  <2>3. CASE Pause
    <3>1. op' = [op EXCEPT !.active = FALSE]
      BY <2>3 DEF Pause
    <3>2. op' \in [epoch : Nat, active : BOOLEAN, started : Times, cohort : 1..MaxApprovals]
      BY <3>1 DEF TypeOK
    <3> QED BY <1>4, <2>1, <2>3, <3>2 DEF World, Pause, TypeOK, day, control, callers, locks
  <2>4. CASE StartOperation
    BY <1>4, <2>1, <2>2, <2>4, BoundsAssumption
    DEF World, StartOperation, TypeOK, Times, day, control, callers, locks
  <2>5. CASE SetMode \/ Book
    <3>1. live' \in BOOLEAN /\ missing' \in BOOLEAN
      BY <2>5, Zenon DEF SetMode, Book, TypeOK
    <3>2. UNCHANGED <<clock, inTime, approval, op>>
      BY <2>5 DEF SetMode, Book
    <3> QED BY <1>4, <2>1, <3>1, <3>2 DEF World, TypeOK, day, control, callers, locks
  <2>6. CASE Approve
    <3>1. approval' \in 1..MaxApprovals
      BY <2>6, BoundsAssumption DEF Approve, TypeOK
    <3>2. UNCHANGED <<clock, missing, inTime, live, op>>
      BY <2>6 DEF Approve
    <3> QED BY <1>4, <2>1, <3>1, <3>2 DEF World, TypeOK, day, control, callers, locks
  <2> QED BY <1>4, <2>3, <2>4, <2>5, <2>6 DEF World
<1>5. CASE WindowCloses
  <2>1. inTime' \in BOOLEAN
    BY <1>5, Zenon DEF WindowCloses
  <2> QED BY <1>5, <2>1 DEF WindowCloses, TypeOK, day, control, callers, locks
<1> QED BY <1>1, <1>2, <1>3, <1>4, <1>5 DEF Evidence

-----------------------------------------------------------------------------
(* Places: who works holds its locks.                                      *)

Capturing == {"invalidating", "reading", "storing", "aborting"}

Placed(c) ==
  /\ OnlyCaptures(c)
  /\ step[c] \in Capturing => captureLock = c
  /\ c \in Runs /\ step[c] \notin {"idle", "done"} => runLock = c
  /\ c \in Runs /\ step[c] \notin {"idle", "done", "locked"} => run.by = c

Places == TypeOK /\ \A c \in Callers : Placed(c)

LEMMA PlacesInit == Init => Places
BY TypeInit, CallersAssumption DEF Init, Places, Placed, OnlyCaptures, Capturing

\* A caller in a step of its own leaves the steps of the others.
LEMMA Elsewhere ==
  ASSUME TypeOK, NEW c \in Callers, NEW s, Goes(c, s)
  PROVE  step'[c] = s /\ \A d \in Callers \ {c} : step'[d] = step[d]
BY DEF TypeOK, Goes

\* Nobody keeps what he frees, and nobody else loses anything by it.
LEMMA FreedAlone ==
  ASSUME NEW c \in Callers, Frees(c), NEW d \in Callers \ {c}
  PROVE  (captureLock = d => captureLock' = d) /\ (runLock = d => runLock' = d)
BY DEF Frees

LEMMA CapturePlaces ==
  ASSUME Places, NEW c \in Callers, Capture(c), NEW d \in Callers
  PROVE  Placed(d)'
<1> USE DEF Places, Placed, OnlyCaptures, Capturing
<1>0. TypeOK /\ Placed(c) /\ Placed(d) /\ Scheduled \notin CatchUps /\ Tests \cap CatchUps = {}
  BY CallersAssumption
<1>1. CASE BeginCapture(c)
  <2>1. UNCHANGED <<run, runLock>>
    BY <1>1 DEF BeginCapture, control
  <2>2. CASE captureLock = None
    BY <1>0, <1>1, <2>1, <2>2, Elsewhere, CallersAssumption DEF BeginCapture
  <2>3. CASE captureLock # None
    BY <1>0, <1>1, <2>1, <2>3, Elsewhere DEF BeginCapture, After
  <2> QED BY <2>2, <2>3
<1>2. CASE Invalidate(c)
  BY <1>0, <1>2, Elsewhere DEF Invalidate, control, locks
<1>3. CASE Read(c)
  BY <1>0, <1>3, Elsewhere DEF Read, control, locks
<1>4. CASE CaptureFails(c) \/ StoreRefused(c)
  BY <1>0, <1>4, Elsewhere DEF CaptureFails, StoreRefused, control, locks
<1>5. CASE Store(c)
  <2>1. UNCHANGED <<run, runLock>> /\ (captureLock' = captureLock \/ captureLock' = None)
    BY <1>5 DEF Store, control
  <2>2. \/ Goes(c, After(c, "captured")) /\ captureLock' = None
        \/ Goes(c, "aborting") /\ captureLock' = captureLock
    BY <1>5 DEF Store
  <2>3. captureLock = c /\ step[c] = "storing"
    BY <1>0, <1>5 DEF Store
  <2> QED BY <1>0, <2>1, <2>2, <2>3, Elsewhere DEF After
<1>6. CASE Abort(c)
  <2>1. UNCHANGED <<run, runLock>> /\ captureLock' = None /\ Goes(c, After(c, "failed"))
    BY <1>6 DEF Abort, control
  <2>2. captureLock = c /\ step[c] = "aborting"
    BY <1>0, <1>6 DEF Abort
  <2> QED BY <1>0, <2>1, <2>2, Elsewhere DEF After
<1> QED BY <1>1, <1>2, <1>3, <1>4, <1>5, <1>6 DEF Capture

LEMMA ControlPlaces ==
  ASSUME Places, NEW c \in Callers, Control(c) \/ Dies(c), NEW d \in Callers
  PROVE  Placed(d)'
<1> USE DEF Places, Placed, OnlyCaptures, Capturing
<1>0. TypeOK /\ Placed(c) /\ Placed(d) /\ Scheduled \notin CatchUps /\ Tests \cap CatchUps = {}
  BY CallersAssumption
<1>1. CASE Begin(c)
  <2>1. UNCHANGED <<run, captureLock>> /\ c \in Runs /\ step[c] = "idle"
    BY <1>1 DEF Begin, control
  <2>2. \/ runLock = None /\ runLock' = c /\ Goes(c, "locked")
        \/ runLock' = runLock /\ Goes(c, "done")
    BY <1>1 DEF Begin
  <2> QED BY <1>0, <2>1, <2>2, Elsewhere, CallersAssumption
<1>2. ASSUME NEW e \in Given(c), Prepare(c, e)
      PROVE  Placed(d)'
  <2>1. step[c] = "locked" /\ c \in Runs /\ runLock = c
    BY <1>0, <1>2 DEF Prepare
  <2>2. run'.by = c /\ UNCHANGED locks
    BY <1>2 DEF Prepare
  <2>3. Goes(c, "prepared") \/ Goes(c, "captured")
    BY <1>2 DEF Prepare
  <2>4. step'[c] \in {"prepared", "captured"} /\ \A f \in Callers \ {c} : step'[f] = step[f]
    BY <1>0, <2>3, Elsewhere
  <2>5. d # c /\ d \in Runs => step[d] \in {"idle", "done"}
    BY <1>0, <2>1
  <2> QED BY <1>0, <2>1, <2>2, <2>4, <2>5 DEF locks
<1>3. ASSUME Ends(c), run'.by = run.by
      PROVE  Placed(d)'
  <2>1. Frees(c) /\ Goes(c, "done")
    BY <1>3 DEF Ends
  <2>2. CASE d = c
    BY <1>0, <2>1, <2>2, Elsewhere
  <2>3. CASE d # c
    BY <1>0, <1>3, <2>1, <2>3, Elsewhere, FreedAlone
  <2> QED BY <2>2, <2>3
<1>4. CASE Evaluate(c) \/ EvaluateStale(c) \/ Block(c) \/ Dies(c)
  <2>1. Ends(c)
    BY <1>4 DEF Evaluate, EvaluateStale, Block, Dies
  <2>2. run'.by = run.by
    BY <1>4 DEF Evaluate, EvaluateStale, Block, Dies, TypeOK, control
  <2> QED BY <1>3, <2>1, <2>2
<1> QED BY <1>1, <1>2, <1>4 DEF Control

LEMMA OtherPlaces ==
  ASSUME Places, Dispatch \/ Evidence \/ World \/ WindowCloses
  PROVE  Places'
<1>1. UNCHANGED <<run, callers, locks>>
  BY DEF Dispatch, Claim, Call, Settle, Dispatched, Evidence, Import, ImportRefused,
         World, WindowCloses, control
<1>2. \A c \in Callers : Placed(c)'
  BY <1>1 DEF Places, Placed, OnlyCaptures, callers, locks
<1> QED BY <1>2, OtherTypes DEF Places

-----------------------------------------------------------------------------
(* Readings: the head, and what a capture under way may still make of it.  *)

\* A caller that reads began after the last withdrawal, and what has been
\* published since then at a later instant is the head.
Fresh(c) ==
  /\ stamp[c] <= clock
  /\ step[c] \in {"reading", "storing"} =>
       /\ stamp[c] >= disproved
       /\ newest > stamp[c] => head # None /\ head.at = newest
  /\ step[c] = "storing" => data[c] \in Dataset /\ data[c].at = stamp[c]
  /\ step[c] = "captured" => data[c] \in Dataset

Readings ==
  /\ Places
  /\ newest <= clock
  /\ CapturedHeadIsNewest
  /\ \A c \in Callers : Fresh(c)

LEMMA ReadingsInit == Init => Readings
<1> SUFFICES ASSUME Init PROVE Readings
  OBVIOUS
<1>1. newest <= clock /\ CapturedHeadIsNewest /\ \A c \in Callers : Fresh(c)
  BY DEF Init, CapturedHeadIsNewest, Fresh
<1> QED BY <1>1, PlacesInit DEF Readings

LEMMA Numbers ==
  ASSUME Readings
  PROVE  /\ TypeOK /\ clock \in Nat /\ newest \in Nat /\ disproved \in Nat /\ invalidated \in Nat
         /\ \A c \in Callers : stamp[c] \in Nat
         /\ head # None => head \in Dataset /\ head.at \in Nat
BY BoundsAssumption DEF Readings, Places, TypeOK, Times, Dataset

\* While one caller captures, no other one does.
LEMMA OneCaptures ==
  ASSUME Places, NEW c \in Callers, NEW d \in Callers \ {c}, step[c] \in Capturing
  PROVE  step[d] \notin Capturing
BY DEF Places, Placed

LEMMA Timed ==
  ASSUME Readings, NEW c \in Callers, TakesTime(c)
  PROVE  /\ clock' \in Nat /\ clock' >= clock /\ stamp'[c] = clock'
         /\ \A d \in Callers \ {c} : stamp'[d] = stamp[d]
BY Numbers DEF TakesTime, TypeOK

\* Only a newer reading is published, and then it is the newest.
LEMMA PublishedIsNewest ==
  ASSUME Readings, NEW d \in Dataset, Newer(d.at), Published(d),
         newest > d.at => head # None /\ head.at = newest
  PROVE  head' = d /\ newest' = d.at /\ disproved' = disproved
BY Numbers DEF Newer, Published, Dataset

LEMMA CaptureReadings ==
  ASSUME Readings, NEW c \in Callers, Capture(c)
  PROVE  Readings'
<1>0. Places /\ TypeOK /\ Fresh(c) /\ Placed(c)
  BY DEF Readings, Places
<1>p. Places'
  <2>1. TypeOK'
    BY <1>0, CaptureTypes DEF Fresh
  <2> QED BY <1>0, <2>1, CapturePlaces DEF Places
<1>1. CASE BeginCapture(c)
  <2>1. UNCHANGED <<head, newest, disproved, data>>
    BY <1>1 DEF BeginCapture, day
  <2>2. /\ clock' \in Nat /\ clock' >= clock /\ stamp'[c] <= clock'
        /\ \A d \in Callers \ {c} : stamp'[d] = stamp[d]
    BY <1>0, <1>1, Timed, Numbers DEF BeginCapture, Fresh
  <2>3. step'[c] \in {"invalidating", "failed", "done"} /\ \A d \in Callers \ {c} : step'[d] = step[d]
    BY <1>0, <1>1, Elsewhere DEF BeginCapture, After
  <2>4. ASSUME NEW d \in Callers PROVE Fresh(d)'
    BY <2>1, <2>2, <2>3, Numbers DEF Readings, Fresh
  <2> QED BY <1>p, <2>1, <2>2, <2>4, Numbers DEF Readings, CapturedHeadIsNewest
<1>2. CASE Invalidate(c)
  <2>1. head' = None /\ newest' = newest /\ disproved' = stamp[c] /\ data' = data
    BY <1>2 DEF Invalidate, Invalidated
  <2>2. /\ clock' \in Nat /\ clock' >= clock /\ stamp'[c] = clock'
        /\ \A d \in Callers \ {c} : stamp'[d] = stamp[d]
    BY <1>2, Timed DEF Invalidate
  <2>3. step'[c] = "reading" /\ \A d \in Callers \ {c} : step'[d] = step[d]
    BY <1>0, <1>2, Elsewhere DEF Invalidate
  <2>4. \A d \in Callers \ {c} : step[d] \notin {"reading", "storing"}
    BY <1>0, <1>2, OneCaptures DEF Invalidate, Capturing
  <2>5. ASSUME NEW d \in Callers PROVE Fresh(d)'
    BY <2>1, <2>2, <2>3, <2>4, Numbers DEF Readings, Fresh
  <2> QED BY <1>p, <2>1, <2>2, <2>5, Numbers DEF Readings, CapturedHeadIsNewest
<1>3. CASE Read(c)
  <2>1. UNCHANGED <<clock, head, newest, disproved, stamp>>
    BY <1>3 DEF Read, day
  <2>2. step'[c] = "storing" /\ \A d \in Callers \ {c} : step'[d] = step[d]
    BY <1>0, <1>3, Elsewhere DEF Read
  <2>3. data'[c] = [at |-> stamp[c], missing |-> missing, server |-> TRUE]
    BY <1>0, <1>3 DEF Read, TypeOK
  <2>4. \A d \in Callers \ {c} : data'[d] = data[d]
    BY <1>0, <1>3 DEF Read, TypeOK
  <2>5. data'[c] \in Dataset /\ data'[c].at = stamp[c]
    BY <1>0, <2>3 DEF TypeOK, Dataset
  <2>6. step[c] = "reading"
    BY <1>3 DEF Read
  <2>7. ASSUME NEW d \in Callers PROVE Fresh(d)'
    BY <2>1, <2>2, <2>4, <2>5, <2>6 DEF Readings, Fresh
  <2> QED BY <1>p, <2>1, <2>7 DEF Readings, CapturedHeadIsNewest
<1>4. CASE CaptureFails(c) \/ StoreRefused(c)
  <2>1. UNCHANGED <<head, newest, disproved, data>>
    BY <1>4 DEF CaptureFails, StoreRefused, day
  <2>2. /\ clock' \in Nat /\ clock' >= clock /\ stamp'[c] = clock'
        /\ \A d \in Callers \ {c} : stamp'[d] = stamp[d]
    BY <1>4, Timed DEF CaptureFails, StoreRefused
  <2>3. step'[c] = "aborting" /\ \A d \in Callers \ {c} : step'[d] = step[d]
    BY <1>0, <1>4, Elsewhere DEF CaptureFails, StoreRefused
  <2>4. ASSUME NEW d \in Callers PROVE Fresh(d)'
    BY <2>1, <2>2, <2>3, Numbers DEF Readings, Fresh
  <2> QED BY <1>p, <2>1, <2>2, <2>4, Numbers DEF Readings, CapturedHeadIsNewest
<1>5. CASE Store(c)
  <2>1. step[c] = "storing" /\ Newer(stamp[c]) /\ Published(data[c])
    BY <1>5 DEF Store
  <2>2. data[c] \in Dataset /\ data[c].at = stamp[c]
    BY <1>0, <2>1 DEF Fresh
  <2>3. head' = data[c] /\ newest' = stamp[c] /\ disproved' = disproved /\ stamp[c] >= disproved
    BY <1>0, <2>1, <2>2, PublishedIsNewest DEF Fresh
  <2>4. /\ clock' \in Nat /\ clock' >= clock /\ stamp'[c] <= clock'
        /\ \A d \in Callers \ {c} : stamp'[d] = stamp[d]
    <3>1. CASE TakesTime(c)
      BY <3>1, Timed, Numbers
    <3>2. CASE stamp' = [stamp EXCEPT ![c] = 0] /\ clock' = clock
      BY <1>0, <3>2, Numbers DEF TypeOK
    <3> QED BY <1>5, <3>1, <3>2 DEF Store
  <2>5. step'[c] \in {"captured", "done", "aborting"} /\ \A d \in Callers \ {c} : step'[d] = step[d]
    BY <1>0, <1>5, Elsewhere DEF Store, After
  <2>6. /\ step'[c] = "captured" => data'[c] = data[c]
        /\ \A d \in Callers \ {c} : data'[d] = data[d]
    <3>1. c \in CatchUps => step'[c] # "captured"
      BY <1>0, <1>5, Elsewhere DEF Store, After
    <3> QED BY <1>0, <1>5, <3>1 DEF Store, TypeOK
  <2>7. \A d \in Callers \ {c} : step[d] \notin {"reading", "storing"}
    BY <1>0, <2>1, OneCaptures DEF Capturing
  <2>8. ASSUME NEW d \in Callers PROVE Fresh(d)'
    BY <1>0, <2>2, <2>3, <2>4, <2>5, <2>6, <2>7, Numbers DEF Readings, Fresh
  <2>9. newest' <= clock'
    BY <1>0, <2>3, <2>4, Numbers DEF Fresh
  <2>10. CapturedHeadIsNewest'
    BY <2>2, <2>3 DEF CapturedHeadIsNewest
  <2> QED BY <1>p, <2>8, <2>9, <2>10 DEF Readings
<1>6. CASE Abort(c)
  <2>1. \/ head' = None
        \/ UNCHANGED <<head, disproved>>
    BY <1>6 DEF Abort, Invalidated
  <2>2. UNCHANGED <<clock, newest>>
    BY <1>6 DEF Abort
  <2>3. Goes(c, After(c, "failed")) /\ step[c] = "aborting" /\ Forgets(c)
    BY <1>6 DEF Abort
  <2>4. step'[c] \in {"failed", "done"} /\ \A d \in Callers \ {c} : step'[d] = step[d]
    BY <1>0, <2>3, Elsewhere DEF After
  <2>5. stamp'[c] = 0 /\ \A d \in Callers \ {c} : stamp'[d] = stamp[d] /\ data'[d] = data[d]
    BY <1>0, <2>3 DEF Forgets, TypeOK
  <2>6. \A d \in Callers \ {c} : step[d] \notin {"reading", "storing"}
    BY <1>0, <2>3, OneCaptures DEF Capturing
  <2>7. ASSUME NEW d \in Callers PROVE Fresh(d)'
    BY <2>2, <2>4, <2>5, <2>6, Numbers DEF Readings, Fresh
  <2>8. CapturedHeadIsNewest'
    BY <2>1, <2>2 DEF CapturedHeadIsNewest, Readings
  <2> QED BY <1>p, <2>2, <2>7, <2>8 DEF Readings
<1> QED BY <1>1, <1>2, <1>3, <1>4, <1>5, <1>6 DEF Capture

LEMMA ControlReadings ==
  ASSUME Readings, NEW c \in Callers, Control(c) \/ Dies(c)
  PROVE  Readings'
<1>0. Places /\ TypeOK /\ Fresh(c) /\ Placed(c)
  BY DEF Readings, Places
<1>p. Places'
  BY <1>0, ControlTypes, ControlPlaces DEF Places, Placed
<1>d. UNCHANGED day
  BY DEF Control, Begin, Prepare, Evaluate, EvaluateStale, Block, Dies
<1>1. CASE Begin(c)
  <2>1. clock' \in Nat /\ clock' >= clock /\ UNCHANGED <<stamp, data>>
    BY <1>1, Numbers DEF Begin
  <2>2. step'[c] \in {"locked", "done"} /\ \A d \in Callers \ {c} : step'[d] = step[d]
    BY <1>0, <1>1, Elsewhere DEF Begin
  <2>3. ASSUME NEW d \in Callers PROVE Fresh(d)'
    BY <1>d, <2>1, <2>2, Numbers DEF Readings, Fresh, day
  <2> QED BY <1>p, <1>d, <2>1, <2>3, Numbers DEF Readings, CapturedHeadIsNewest, day
<1>2. ASSUME NEW e \in Given(c), Prepare(c, e)
      PROVE  Readings'
  <2>1. UNCHANGED <<clock, stamp>>
    BY <1>2 DEF Prepare
  <2>2. CASE e = None
    <3>1. data' = data /\ step'[c] = "prepared" /\ \A d \in Callers \ {c} : step'[d] = step[d]
      BY <1>0, <1>2, <2>2, Elsewhere DEF Prepare
    <3>2. ASSUME NEW d \in Callers PROVE Fresh(d)'
      BY <1>d, <2>1, <3>1 DEF Readings, Fresh, day
    <3> QED BY <1>p, <1>d, <2>1, <3>2 DEF Readings, CapturedHeadIsNewest, day
  <2>3. CASE e # None
    <3>1. step'[c] = "captured" /\ \A d \in Callers \ {c} : step'[d] = step[d]
      BY <1>0, <1>2, <2>3, Elsewhere DEF Prepare
    <3>2. e \in Dataset
      BY <1>0, <2>3 DEF Given, TypeOK
    <3>3. data'[c] = e /\ \A d \in Callers \ {c} : data'[d] = data[d]
      BY <1>0, <1>2, <2>3 DEF Prepare, TypeOK
    <3>4. ASSUME NEW d \in Callers PROVE Fresh(d)'
      BY <1>d, <2>1, <3>1, <3>2, <3>3 DEF Readings, Fresh, day
    <3> QED BY <1>p, <1>d, <2>1, <3>4 DEF Readings, CapturedHeadIsNewest, day
  <2> QED BY <2>2, <2>3
<1>3. CASE Evaluate(c) \/ EvaluateStale(c) \/ Block(c) \/ Dies(c)
  <2>1. Goes(c, "done") /\ Forgets(c) /\ clock' = clock
    BY <1>3 DEF Evaluate, EvaluateStale, Block, Dies, Ends
  <2>2. step'[c] = "done" /\ \A d \in Callers \ {c} : step'[d] = step[d]
    BY <1>0, <2>1, Elsewhere
  <2>3. stamp'[c] = 0 /\ \A d \in Callers \ {c} : stamp'[d] = stamp[d] /\ data'[d] = data[d]
    BY <1>0, <2>1 DEF Forgets, TypeOK
  <2>4. ASSUME NEW d \in Callers PROVE Fresh(d)'
    BY <1>d, <2>1, <2>2, <2>3, Numbers DEF Readings, Fresh, day
  <2> QED BY <1>p, <1>d, <2>1, <2>4 DEF Readings, CapturedHeadIsNewest, day
<1> QED BY <1>1, <1>2, <1>3 DEF Control

LEMMA OtherReadings ==
  ASSUME Readings, Dispatch \/ Evidence \/ World \/ WindowCloses
  PROVE  Readings'
<1>0. Places /\ TypeOK
  BY DEF Readings, Places
<1>p. Places' /\ UNCHANGED callers
  <2>1. UNCHANGED callers
    BY DEF Dispatch, Claim, Call, Settle, Dispatched, Evidence, Import, ImportRefused, World, WindowCloses
  <2> QED BY <1>0, <2>1, OtherPlaces
<1>1. ASSUME NEW at \in 0..MaxClock, Import(at)
      PROVE  Readings'
  <2> DEFINE e == [at |-> at, missing |-> missing, server |-> FALSE]
  <2>1. e \in Dataset /\ e.at = at /\ ~e.server
    BY <1>0 DEF TypeOK, Dataset
  <2>2. head' = e /\ disproved' = disproved /\ newest' = IF at > newest THEN at ELSE newest
    BY <1>1 DEF Import, Published
  <2>3. clock' = clock /\ at <= clock /\ Newer(at)
    BY <1>1 DEF Import
  <2>4. e # None
    BY <2>1, NoneAssumption
  <2> HIDE DEF e
  <2>5. ASSUME NEW d \in Callers, Fresh(d) PROVE Fresh(d)'
    <3>1. newest > stamp[d] /\ step[d] \in {"reading", "storing"} => at > newest
      BY <2>3, <2>5 DEF Fresh, Newer
    <3>2. step'[d] \in {"reading", "storing"} =>
            (newest' > stamp'[d] => head' # None /\ head'.at = newest')
      BY <1>p, <2>1, <2>2, <2>4, <3>1, Numbers, BoundsAssumption DEF callers
    <3> QED BY <1>p, <2>2, <2>3, <2>5, <3>2 DEF Fresh, callers
  <2>6. newest' <= clock' /\ CapturedHeadIsNewest'
    BY <2>1, <2>2, <2>3, Numbers, BoundsAssumption DEF Readings, CapturedHeadIsNewest
  <2> QED BY <1>p, <2>5, <2>6 DEF Readings
<1>2. ASSUME NEW begun \in Times, ImportRefused(begun)
      PROVE  Readings'
  <2>1. head' = None /\ newest' = 0 /\ UNCHANGED <<clock, disproved>>
    BY <1>2 DEF ImportRefused, Invalidated
  <2>2. ASSUME NEW d \in Callers PROVE Fresh(d)'
    BY <1>p, <2>1, Numbers DEF Readings, Fresh, callers
  <2> QED BY <1>p, <2>1, <2>2, Numbers DEF Readings, CapturedHeadIsNewest
<1>3. CASE Dispatch \/ World \/ WindowCloses
  <2>1. UNCHANGED day /\ clock' \in Nat /\ clock' >= clock
    BY <1>3, Numbers DEF Dispatch, Claim, Call, Settle, Dispatched, World, Pause, StartOperation,
       SetMode, Approve, Book, WindowCloses
  <2>2. ASSUME NEW d \in Callers PROVE Fresh(d)'
    BY <1>p, <2>1, Numbers DEF Readings, Fresh, day, callers
  <2> QED BY <1>p, <2>1, <2>2, Numbers DEF Readings, CapturedHeadIsNewest, day
<1> QED BY <1>1, <1>2, <1>3 DEF Evidence

-----------------------------------------------------------------------------
(* Facts: what a mail rests on.                                            *)

Open == {"queued", "processing", "calling"}

\* Only the scheduled run is live; missing hours were missing in the reading; the
\* mail and the receipts come from the one evaluation of the scheduled run, and so
\* from one start of the operation.
Facts ==
  /\ Readings
  /\ run.mode = "live" => run.by = Scheduled
  /\ result.status = "missing_hours" => result.dataset \in Dataset /\ result.dataset.missing
  /\ mail.state # "none" \/ receipts # {} => step[Scheduled] = "done"
  /\ mail.state \in Open => \A r \in receipts : r.epoch = mail.epoch
  /\ MailedOnCurrentFacts

LEMMA FactsInit == Init => Facts
<1> SUFFICES ASSUME Init PROVE Facts
  OBVIOUS
<1>1. run.mode = "none" /\ result.status = "none" /\ receipts = {} /\ mail.state = "none"
  BY DEF Init, NoMail
<1> QED BY <1>1, ReadingsInit DEF Facts, Open, MailedOnCurrentFacts

\* A mail under way to the provider is left alone by all that leaves these alone.
LEMMA FactsStay ==
  ASSUME Facts, Readings', UNCHANGED <<head, live, approval, op, control>>,
         step[Scheduled] = "done" => step'[Scheduled] = "done"
  PROVE  Facts'
BY DEF Facts, MailedOnCurrentFacts, control

\* As long as no mail is with the provider, the last part holds of itself.
LEMMA FactsUnshared ==
  ASSUME Facts, Readings', UNCHANGED control, ~Sharing,
         step[Scheduled] = "done" => step'[Scheduled] = "done"
  PROVE  Facts'
BY DEF Facts, MailedOnCurrentFacts, Sharing, control

LEMMA CaptureFacts ==
  ASSUME Facts, NEW c \in Callers, Capture(c)
  PROVE  Facts'
<1>0. TypeOK /\ Placed(c) /\ Readings'
  BY CaptureReadings DEF Facts, Readings, Places
<1>1. step[c] # "done" /\ UNCHANGED <<world, control>>
  BY DEF Capture, BeginCapture, Invalidate, Read, CaptureFails, Store, StoreRefused, Abort
<1>2. \E s : Goes(c, s)
  BY DEF Capture, BeginCapture, Invalidate, Read, CaptureFails, Store, StoreRefused, Abort
<1>3. step[Scheduled] = "done" => step'[Scheduled] = "done"
  BY <1>0, <1>1, <1>2, Elsewhere
<1>4. head' = head \/ ~Sharing
  BY DEF Capture, BeginCapture, Invalidate, Read, CaptureFails, Store, StoreRefused, Abort, day
<1> QED BY <1>0, <1>1, <1>3, <1>4, FactsStay, FactsUnshared DEF world

LEMMA ControlFacts ==
  ASSUME Facts, NEW c \in Callers, Control(c) \/ Dies(c)
  PROVE  Facts'
<1>0. TypeOK /\ Placed(c) /\ Fresh(c) /\ Readings'
  BY ControlReadings DEF Facts, Readings, Places
<1>1. step[c] # "done" /\ UNCHANGED <<world, day>>
  BY DEF Control, Begin, Prepare, Evaluate, EvaluateStale, Block, Dies
<1>2. \E s : Goes(c, s)
  <2>1. ASSUME NEW e, Prepare(c, e) PROVE \E s : Goes(c, s)
    BY <2>1 DEF Prepare
  <2> QED BY <2>1 DEF Control, Begin, Evaluate, EvaluateStale, Block, Dies, Ends
<1>3. step[Scheduled] = "done" => step'[Scheduled] = "done"
  BY <1>0, <1>1, <1>2, Elsewhere
<1>4. CASE Begin(c) \/ EvaluateStale(c) \/ Dies(c)
  <2>1. UNCHANGED control
    BY <1>4 DEF Begin, EvaluateStale, Dies
  <2> QED BY <1>0, <1>1, <1>3, <2>1, FactsStay DEF world, day
<1>5. ASSUME NEW e \in Given(c), Prepare(c, e)
      PROVE  Facts'
  <2>1. run'.mode = "live" => run'.by = Scheduled
    BY <1>5 DEF Prepare
  <2>2. UNCHANGED <<result, receipts, mail>> /\ ~Sharing
    BY <1>5 DEF Prepare
  <2> QED BY <1>0, <1>3, <2>1, <2>2 DEF Facts, MailedOnCurrentFacts, Sharing
<1>6. CASE Evaluate(c)
  <2>1. c \in Runs /\ step[c] = "captured" /\ ~Sharing
    BY <1>6 DEF Evaluate
  <2>2. data[c] \in Dataset /\ run.by = c
    BY <1>0, <2>1 DEF Fresh, Placed
  <2>3. step'[c] = "done"
    BY <1>0, <1>6, Elsewhere DEF Evaluate, Ends
  <2>4. run'.mode = run.mode /\ run'.by = run.by
    BY <1>0, <1>6 DEF Evaluate, TypeOK
  <2>5. result'.status = "missing_hours" => result'.dataset \in Dataset /\ result'.dataset.missing
    BY <1>6, <2>2 DEF Evaluate
  <2>6. CASE c = Scheduled
    <3>1. mail.state = "none" /\ receipts = {}
      BY <2>1, <2>6 DEF Facts
    <3>2. \A r \in receipts' : Eligible /\ r.epoch = op.epoch
      BY <1>6, <3>1, <2>2 DEF Evaluate
    <3>3. mail'.state \in Open => mail'.state = "queued" /\ mail'.epoch = admitted
      BY <1>6, <3>1 DEF Evaluate, Open
    <3>4. mail'.state \in Open => \A r \in receipts' : r.epoch = mail'.epoch
      BY <3>2, <3>3 DEF Eligible
    <3>5. MailedOnCurrentFacts'
      BY <3>3 DEF MailedOnCurrentFacts, Open
    <3>6. run'.mode = "live" => run'.by = Scheduled
      BY <2>2, <2>4, <2>6
    <3> QED BY <1>0, <2>3, <2>5, <2>6, <3>4, <3>5, <3>6 DEF Facts
  <2>7. CASE c # Scheduled
    <3>1. run.mode # "live"
      BY <2>2, <2>7 DEF Facts
    <3>2. UNCHANGED <<mail, receipts>>
      BY <1>6, <3>1 DEF Evaluate
    <3>3. MailedOnCurrentFacts'
      BY <2>1, <3>2 DEF MailedOnCurrentFacts, Sharing
    <3>4. run'.mode # "live"
      BY <2>4, <3>1
    <3> QED BY <1>0, <1>3, <2>5, <3>2, <3>3, <3>4 DEF Facts
  <2> QED BY <2>6, <2>7
<1>7. CASE Block(c)
  <2>1. run'.mode = run.mode /\ run'.by = run.by /\ UNCHANGED <<receipts, mail>> /\ ~Sharing
    BY <1>0, <1>7 DEF Block, TypeOK
  <2>2. result'.status # "missing_hours"
    BY <1>0, <1>7 DEF Block, TypeOK
  <2> QED BY <1>0, <1>3, <2>1, <2>2 DEF Facts, MailedOnCurrentFacts, Sharing
<1> QED BY <1>4, <1>5, <1>6, <1>7 DEF Control

\* The checks before the call, with what the invariant knows.
LEMMA CallFacts ==
  ASSUME Facts, Call
  PROVE  Facts'
<1>0. TypeOK /\ Readings'
  BY OtherReadings DEF Facts, Readings, Places, Dispatch
<1>1. /\ mail.state = "processing" /\ Sendable /\ UNCHANGED <<world, day, run, result, receipts, callers>>
      /\ mail' = [mail EXCEPT !.state = "calling"]
  BY DEF Call, Dispatched
<1>2. mail'.dataset = mail.dataset /\ mail'.approval = mail.approval /\ mail'.epoch = mail.epoch
  BY <1>0, <1>1 DEF TypeOK
<1>3. op.epoch = mail.epoch
  <2>1. [epoch |-> op.epoch, approval |-> mail.approval] \in receipts
    BY <1>1 DEF Sendable
  <2> QED BY <1>1, <2>1 DEF Facts, Open
<1>4. result.status = "missing_hours" /\ result.dataset = mail.dataset /\ head = mail.dataset
  BY <1>1 DEF Sendable
<1>5. head.missing
  BY <1>4 DEF Facts
<1>6. run.by = Scheduled /\ run.status = "completed" /\ live /\ op.active /\ approval = mail.approval /\ head.server
  BY <1>1 DEF Sendable
<1>7. MailedOnCurrentFacts'
  BY <1>1, <1>2, <1>3, <1>4, <1>5, <1>6 DEF MailedOnCurrentFacts, world, day
<1>8. mail.state # "none" /\ mail'.state # "none" /\ mail.state \in Open
  BY <1>0, <1>1 DEF TypeOK, Open
<1> QED BY <1>0, <1>1, <1>2, <1>7, <1>8 DEF Facts, callers

LEMMA OtherFacts ==
  ASSUME Facts, Dispatch \/ Evidence \/ World \/ WindowCloses
  PROVE  Facts'
<1>0. TypeOK /\ Readings'
  BY OtherReadings DEF Facts, Readings, Places
<1>1. CASE Claim \/ Settle
  <2>1. UNCHANGED <<world, day, run, result, receipts, callers>>
    BY <1>1 DEF Claim, Settle, Dispatched
  <2>2. mail'.state \in {"processing", "over"} /\ mail.state # "none"
    BY <1>0, <1>1 DEF Claim, Settle, NoMail, TypeOK
  <2>3. mail'.state = "processing" => mail'.epoch = mail.epoch /\ mail.state \in Open
    BY <1>0, <1>1 DEF Claim, Settle, NoMail, TypeOK, Open
  <2> QED BY <1>0, <2>1, <2>2, <2>3 DEF Facts, MailedOnCurrentFacts, Open, callers
<1>2. CASE Evidence
  <2>1. UNCHANGED <<control, callers>> /\ ~Sharing
    BY <1>2 DEF Evidence, Import, ImportRefused
  <2> QED BY <1>0, <2>1, FactsUnshared DEF callers
<1>3. CASE World
  <2>1. UNCHANGED <<day, control, callers>>
    BY <1>3 DEF World
  <2>2. UNCHANGED <<live, approval, op>> \/ ~Sharing
    BY <1>3, <1>0 DEF World, Pause, StartOperation, SetMode, Approve, Book
  <2> QED BY <1>0, <2>1, <2>2, FactsStay, FactsUnshared DEF callers, day
<1>4. CASE WindowCloses
  <2>1. UNCHANGED <<live, approval, op, day, control, callers>>
    BY <1>4 DEF WindowCloses
  <2> QED BY <1>0, <2>1, FactsStay DEF callers, day
<1> QED BY <1>1, <1>2, <1>3, <1>4, CallFacts DEF Dispatch

-----------------------------------------------------------------------------
(* The theorems.                                                           *)

\* Facts is inductive.
THEOREM FactsHold == Spec => []Facts
<1>1. Facts /\ [Next]_vars => Facts'
  <2> SUFFICES ASSUME Facts, [Next]_vars PROVE Facts'
    OBVIOUS
  <2>1. CASE UNCHANGED vars
    <3>1. TypeOK' /\ \A c \in Callers : Placed(c)' /\ Fresh(c)'
      BY <2>1 DEF vars, world, day, control, callers, locks, Facts, Readings, Places, TypeOK,
         Placed, OnlyCaptures, Fresh
    <3> QED BY <2>1, <3>1 DEF vars, world, day, control, callers, locks, Facts, Readings, Places,
         CapturedHeadIsNewest, MailedOnCurrentFacts
  <2>2. CASE Next
    BY <2>2, CaptureFacts, ControlFacts, OtherFacts DEF Next
  <2> QED BY <2>1, <2>2
<1> QED BY <1>1, FactsInit, PTL DEF Spec

\* Every variable has its type: in particular no instant passes the clock's bound
\* and no lock is held by somebody who does not exist.
THEOREM DispatchTypes == Spec => []TypeOK
<1>1. Facts => TypeOK
  BY DEF Facts, Readings, Places
<1> QED BY <1>1, FactsHold, PTL

\* A head that mails may be sent from is never an older reading than one already
\* published, and never one from before the last withdrawal: captureAndPublish and
\* storeHoursDataset keep this whatever fails, dies or overlaps.
THEOREM HeadIsNewest == Spec => []CapturedHeadIsNewest
<1>1. Facts => CapturedHeadIsNewest
  BY DEF Facts, Readings
<1> QED BY <1>1, FactsHold, PTL

\* While the provider is called, all the mail says and rests on still holds: what
\* validateAutomatic and validateDaily check, and the rows they keep shared.
THEOREM MailStandsOnFacts == Spec => []MailedOnCurrentFacts
<1>1. Facts => MailedOnCurrentFacts
  BY DEF Facts
<1> QED BY <1>1, FactsHold, PTL

\* One caller at most captures the day, and one run at most is under way: the two
\* session locks are held exactly by those who work under them.
OneAtWork ==
  \A c, d \in Callers : c # d =>
    /\ ~(step[c] \in Capturing /\ step[d] \in Capturing)
    /\ c \in Runs /\ d \in Runs => step[c] \in {"idle", "done"} \/ step[d] \in {"idle", "done"}

\* runTimeControlWithPool and captureAndPublish exclude each other's runs of a day.
THEOREM OneAtWorkHolds == Spec => []OneAtWork
<1>1. Facts => OneAtWork
  BY DEF Facts, Readings, Places, Placed, OneAtWork
<1> QED BY <1>1, FactsHold, PTL
==============================================================================
