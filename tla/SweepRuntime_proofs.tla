-------------------------- MODULE SweepRuntime_proofs --------------------------
(***************************************************************************)
(* Theorems about SweepRuntime, for every set of clients and setups and    *)
(* every value of the bounds: its type invariant, and that every Operation *)
(* the runtime refers to is in the state the next call on it needs, while  *)
(* no two parties refer to the same one.                                   *)
(*                                                                         *)
(* HeldOperations alone is not inductive: an Operation the worker is       *)
(* completing must not be handed out again, a cycle must not begin with    *)
(* the Operation of the last one, and the Operation that stop asks to      *)
(* cancel must not be a queued one (HeldInv).                              *)
(***************************************************************************)
EXTENDS SweepRuntime, TLAPS

-------------------------------------------------------------------------------
(* Views and the exchange.                                                  *)

\* The views the runtime builds have the type of a view.
LEMMA ViewIsView ==
    ASSUME NEW phase \in Phases, NEW id \in Nat, NEW done \in Nat,
           NEW first \in BOOLEAN
    PROVE  View(phase, id, done, first) \in Views
BY DEF View, Views

LEMMA BoundaryViewIsView ==
    ASSUME NEW hold \in BOOLEAN, NEW first \in BOOLEAN
    PROVE  /\ HoldView(first) \in Views
           /\ PreparingView(first) \in Views
           /\ BoundaryView(hold, first) \in Views
<1>1. HoldView(first) \in Views /\ PreparingView(first) \in Views
    BY BoundsAssumption, ViewIsView DEF HoldView, PreparingView, Phases, NoSweep
<1> QED
    BY <1>1 DEF BoundaryView

LEMMA StatusIsStatus ==
    ASSUME NEW p \in Plans, NEW v \in Views
    PROVE  StatusOf(p, v) \in Statuses
BY DEF StatusOf, Statuses, Plans

\* Neither refresh changes the shape of the exchange.
LEMMA UpdatedIsExchange ==
    ASSUME ViewsTypeOK, NEW status \in Statuses
    PROVE  Updated(status) \in Exchanges
BY DEF ViewsTypeOK, Updated, Exchanges

LEMMA InvalidatedIsExchange ==
    ASSUME ViewsTypeOK, NEW status \in Statuses, NEW ident
    PROVE  Invalidated(ident, status) \in Exchanges
BY DEF ViewsTypeOK, Invalidated, Exchanges, Identities, NoIdentity

LEMMA ShowUpdateType ==
    ASSUME TypeOK, NEW v \in Views, ShowUpdate(v)
    PROVE  ViewsTypeOK'
<1>1. StatusOf(plan, v) \in Statuses
    BY StatusIsStatus DEF TypeOK, PlansTypeOK
<1>2. Updated(StatusOf(plan, v)) \in Exchanges
    BY <1>1, UpdatedIsExchange DEF TypeOK
<1> QED
    BY <1>2 DEF ShowUpdate, ViewsTypeOK

LEMMA ShowInvalidateType ==
    ASSUME TypeOK, NEW v \in Views, NEW ident, ShowInvalidate(v, ident)
    PROVE  ViewsTypeOK'
<1>1. StatusOf(plan, v) \in Statuses
    BY StatusIsStatus DEF TypeOK, PlansTypeOK
<1>2. Invalidated(ident, StatusOf(plan, v)) \in Exchanges
    BY <1>1, InvalidatedIsExchange DEF TypeOK
<1> QED
    BY <1>2 DEF ShowInvalidate, ViewsTypeOK

LEMMA GoType ==
    ASSUME ThreadsTypeOK, NEW t \in Threads, NEW step \in Steps, Go(t, step)
    PROVE  pc' \in [Threads -> Steps]
BY DEF ThreadsTypeOK, Go

\* Applying a prepared plan.
LEMMA ApplyType ==
    ASSUME TypeOK, NEW p \in [base : Seqs, plan : Plans], Apply(p),
           configured' \in Nat
    PROVE  PlansTypeOK' /\ ViewsTypeOK'
<1> DEFINE view == InitialView(p.plan, FirstAfter(p.plan))
<1>1. p.plan \in Plans /\ p.plan.gen \in Seqs
    BY DEF Plans
<1>2. FirstAfter(p.plan) \in BOOLEAN
    BY DEF FirstAfter, TypeOK, ViewsTypeOK, Views
<1>3. view \in Views
    BY <1>2, BoundaryViewIsView DEF InitialView
<1>4. StatusOf(p.plan, view) \in Statuses
    BY <1>1, <1>3, StatusIsStatus
<1>5. AdvancedPreviews(p.plan, StatusOf(p.plan, view)) \in Exchanges
  <2>1. Updated(StatusOf(p.plan, view)) \in Exchanges
      BY <1>4, UpdatedIsExchange DEF TypeOK
  <2> QED
      BY <1>1, <1>4, <2>1
      DEF AdvancedPreviews, TypeOK, ViewsTypeOK, Exchanges, Identities, NoIdentity
<1>6. AdvancedRepository(p.plan) \in Repositories
    BY <1>1 DEF AdvancedRepository, TypeOK, PlansTypeOK, Repositories, NoFrame
<1>7. catalog' \in [plan : Seqs, gen : Seqs]
    BY <1>1 DEF Apply, TypeOK, PlansTypeOK, Seqs
<1>8. PlansTypeOK'
    BY <1>1, <1>6, <1>7 DEF Apply, PlansTypeOK
<1>9. ViewsTypeOK'
    BY <1>3, <1>5 DEF Apply, ViewsTypeOK
<1> QED
    BY <1>8, <1>9

-------------------------------------------------------------------------------
(* Type correctness.                                                        *)

LEMMA InitType == Init => TypeOK
<1> SUFFICES ASSUME Init PROVE TypeOK
    OBVIOUS
<1>1. plan \in Plans
    BY BoundsAssumption DEF Init, PlanOf, Plans, Settings, Seqs
<1>2. display \in Views
    BY BoundaryViewIsView DEF Init, InitialView
<1>3. StatusOf(plan, display) \in Statuses
    BY <1>1, <1>2, StatusIsStatus
<1>4. RequestsTypeOK
    BY DEF Init, RequestsTypeOK, OperationStates
<1>5. PlansTypeOK
    BY <1>1 DEF Init, PlansTypeOK, Repositories, Seqs, NoFrame
<1>6. FlagsTypeOK
    BY DEF Init, FlagsTypeOK, Identities, NoIdentity, NoStop
<1>7. ViewsTypeOK
  <2>1. previews = [gen |-> 1, status |-> StatusOf(plan, display),
                    ident |-> NoIdentity, last |-> NoSweep]
      BY DEF Init
  <2>2. NoIdentity \in Identities /\ NoSweep \in Nat /\ 1 \in Seqs
      BY DEF NoIdentity, Identities, NoSweep, Seqs
  <2>3. previews \in Exchanges
      BY <1>3, <2>1, <2>2 DEF Exchanges
  <2> QED
      BY <1>2, <2>3 DEF Init, ViewsTypeOK
<1>8. ThreadsTypeOK
    BY DEF Init, ThreadsTypeOK, Steps, Locals, Sweeps, NoLocal, Seqs, Identities,
           NoIdentity, Terminal, NoOp, NoStop
<1>9. HistoryTypeOK
    BY DEF Init, HistoryInit, HistoryTypeOK
<1> QED
    BY <1>4, <1>5, <1>6, <1>7, <1>8, <1>9 DEF TypeOK

\* The tuples only abbreviate UNCHANGED clauses.
USE DEF requestVars, cycleVars, lifeVars, planVars, publicationVars, viewVars,
        stopVars, threadVars, history, sharedVars

\* Names of the Operations the runtime refers to.
LEMMA RequestNames ==
    ASSUME RequestsTypeOK
    PROVE  /\ activeRequest.op \in OpIds \cup {NoOp}
           /\ CanceledInFlight \in OpIds \cup {NoOp}
           /\ Detached \subseteq OpIds
           /\ {pendingOp, activeRequest.op} \ {NoOp} \subseteq OpIds
<1>1. activeRequest.op \in OpIds \cup {NoOp}
    BY DEF RequestsTypeOK, Requests, NoRequest
<1> QED
    BY <1>1 DEF RequestsTypeOK, CanceledInFlight, Detached

\* The part of the view an action carries over.
LEMMA DisplayType ==
    ASSUME ViewsTypeOK
    PROVE  /\ display.sweep \in Nat /\ display.done \in Nat
           /\ display.first \in BOOLEAN
BY DEF ViewsTypeOK, Views

LEMMA SweepType ==
    ASSUME ThreadsTypeOK
    PROVE  /\ sweep.seq \in Seqs /\ sweep.seq \in Nat
           /\ sweep.ident \in Identities /\ sweep.emitted \in Nat
           /\ sweep.op \in OpIds \cup {NoOp} /\ sweep.outcome \in Terminal
BY DEF ThreadsTypeOK, Sweeps, Seqs

LEMMA ThreadNames == Worker \in Threads /\ Stopper \in Threads
BY DEF Threads

LEMMA NoIdentityType == NoIdentity \in Identities /\ NoStop \in Nat
BY DEF NoIdentity, Identities, NoStop

LEMMA LeaveCycleType ==
    ASSUME ThreadsTypeOK, NEW o \in OpIds \cup {NoOp}, NEW outcome \in Terminal,
           LeaveCycle(o, outcome)
    PROVE  /\ activeStop' \in Nat /\ activeIdentity' \in Identities
           /\ finalizing' \in BOOLEAN /\ cycleCancel' \in BOOLEAN
           /\ sweep' \in Sweeps
BY NoIdentityType DEF LeaveCycle, ThreadsTypeOK, Sweeps

LEMMA RoundsOfType ==
    ASSUME NEW p \in Plans
    PROVE  RoundsOf(p) \in Seqs
<1>1. p.count \in Seqs
    BY BoundsAssumption DEF Plans, Seqs
<1>2. 1 \in Seqs
    BY DEF Seqs
<1> QED
    BY <1>1, <1>2 DEF RoundsOf

LEMMA EnterCycleType ==
    ASSUME TypeOK, NEW p \in Plans, EnterCycle(p), UNCHANGED <<todo, rounds, discarded>>
    PROVE  /\ RequestsTypeOK' /\ HistoryTypeOK'
           /\ activeStop' \in Nat
           /\ pc' \in [Threads -> Steps]
<1> USE DEF TypeOK
<1>1. CASE workerStop
  <2>1. Go(Worker, "finish")
      BY <1>1 DEF EnterCycle
  <2>2. pc' \in [Threads -> Steps]
      BY <2>1, GoType, ThreadNames DEF Steps
  <2> QED
      BY <1>1, <2>2
      DEF EnterCycle, RequestsTypeOK, HistoryTypeOK, FlagsTypeOK
<1>2. CASE ~workerStop /\ pendingOp # NoOp /\ ~CanMarkRunning(ops[pendingOp])
  <2>1. Go(Worker, "throw")
      BY <1>2 DEF EnterCycle
  <2>2. pc' \in [Threads -> Steps]
      BY <2>1, GoType, ThreadNames DEF Steps
  <2> QED
      BY <1>2, <2>2
      DEF EnterCycle, RequestsTypeOK, HistoryTypeOK, FlagsTypeOK
<1>3. CASE /\ ~workerStop
           /\ ~(pendingOp # NoOp /\ ~CanMarkRunning(ops[pendingOp]))
  <2>1. Go(Worker, "start") /\ activeStop' = sweep.seq /\ pendingOp' = NoOp
      BY <1>3 DEF EnterCycle
  <2>2. pc' \in [Threads -> Steps]
      BY <2>1, GoType, ThreadNames DEF Steps
  <2>3. CASE pendingOp = NoOp
      BY <1>3, <2>1, <2>2, <2>3, SweepType
      DEF EnterCycle, RequestsTypeOK, HistoryTypeOK
  <2>4. CASE pendingOp # NoOp
    <3>1. pendingOp \in OpIds
        BY <2>4 DEF RequestsTypeOK
    <3>2. /\ ops' = [ops EXCEPT ![pendingOp] = "Running"]
          /\ activeRequest' = [op |-> pendingOp, left |-> RoundsOf(p)]
          /\ goal' = [goal EXCEPT ![pendingOp] =
                          IF p.mode = "Single" THEN p.count ELSE 1]
        BY <1>3, <2>4 DEF EnterCycle
    <3>3. activeRequest' \in Requests
        BY <3>1, <3>2, RoundsOfType DEF Requests
    <3>4. ops' \in [OpIds -> OperationStates]
        BY <3>1, <3>2 DEF RequestsTypeOK, OperationStates, Live
    <3>5. (IF p.mode = "Single" THEN p.count ELSE 1) \in Nat
        BY BoundsAssumption DEF Plans
    <3>6. goal' \in [OpIds -> Nat]
        BY <3>1, <3>2, <3>5 DEF HistoryTypeOK
    <3> QED
        BY <2>1, <2>2, <3>3, <3>4, <3>6, SweepType
        DEF RequestsTypeOK, HistoryTypeOK
  <2> QED
      BY <2>3, <2>4
<1> QED
    BY <1>1, <1>2, <1>3

-------------------------------------------------------------------------------
(* Each action preserves TypeOK: its disturbed parts first.                 *)

LEMMA CheckStopType ==
    ASSUME TypeOK, CheckStop
    PROVE  TypeOK'
<1> USE DEF TypeOK
<1>1. ThreadsTypeOK'
  <2>1. Go(Worker, "finish") \/ Go(Worker, "prepare")
      BY DEF CheckStop
  <2>2. pc' \in [Threads -> Steps]
      BY <2>1, GoType, ThreadNames DEF Steps
  <2> QED
      BY <2>2 DEF CheckStop, ThreadsTypeOK
<1>2. /\ RequestsTypeOK' /\ PlansTypeOK' /\ FlagsTypeOK'
      /\ ViewsTypeOK' /\ HistoryTypeOK'
    BY DEF CheckStop, RequestsTypeOK, PlansTypeOK, FlagsTypeOK, ViewsTypeOK,
           HistoryTypeOK
<1> QED
    BY <1>1, <1>2

LEMMA PrepareCycleType ==
    ASSUME TypeOK, PrepareCycle
    PROVE  TypeOK'
<1> USE DEF TypeOK
<1>1. BoundaryPlan \in Plans
    BY DEF BoundaryPlan, HasPending, PlansTypeOK
<1>2. Worker \in {Worker, Stopper}
    OBVIOUS
<1>3. CASE HasPending /\ ~CommitAccepted(pending)
  <2>1. Go(Worker, "throw")
      BY <1>3 DEF PrepareCycle
  <2>2. pc' \in [Threads -> Steps]
      BY <2>1, GoType, ThreadNames DEF Steps
  <2> QED
      BY <1>3, <2>2 DEF PrepareCycle, RequestsTypeOK, PlansTypeOK, FlagsTypeOK,
                        ViewsTypeOK, ThreadsTypeOK, HistoryTypeOK
<1>4. CASE ~(HasPending /\ ~CommitAccepted(pending))
  <2>1. AtBoundary /\ configured' = configured
      BY <1>4 DEF PrepareCycle
  <2>2. PlansTypeOK' /\ ViewsTypeOK'
    <3>1. CASE HasPending
      <4>1. pending \in [base : Seqs, plan : Plans] /\ Apply(pending)
          BY <2>1, <3>1 DEF AtBoundary, HasPending, PlansTypeOK
      <4>2. configured' \in Nat
          BY <2>1 DEF PlansTypeOK
      <4> QED
          BY <4>1, <4>2, ApplyType
    <3>2. CASE ~HasPending
      <4>1. PlansTypeOK'
          BY <2>1, <3>2 DEF AtBoundary, PlansTypeOK
      <4>2. HoldView(display.first) \in Views
          BY BoundaryViewIsView, DisplayType
      <4>3. ShowUpdate(HoldView(display.first)) => ViewsTypeOK'
          BY <4>2, ShowUpdateType
      <4>4. UNCHANGED viewVars => ViewsTypeOK'
          BY DEF ViewsTypeOK
      <4> QED
          BY <2>1, <3>2, <4>1, <4>3, <4>4 DEF AtBoundary
    <3> QED
        BY <3>1, <3>2
  <2>3. CASE Resting /\ ~MayLeaveHold(BoundaryPlan)
    <3>1. Go(Worker, "held") /\ asleep' = asleep \cup {Worker}
        BY <1>4, <2>3 DEF PrepareCycle
    <3>2. pc' \in [Threads -> Steps]
        BY <3>1, GoType, ThreadNames DEF Steps
    <3> QED
        BY <1>4, <2>2, <2>3, <3>1, <3>2
        DEF PrepareCycle, RequestsTypeOK, FlagsTypeOK, ThreadsTypeOK,
            HistoryTypeOK
  <2>4. CASE ~(Resting /\ ~MayLeaveHold(BoundaryPlan))
    <3>1. EnterCycle(BoundaryPlan) /\ UNCHANGED <<todo, rounds, discarded>>
        BY <1>4, <2>4 DEF PrepareCycle
    <3>2. /\ RequestsTypeOK' /\ HistoryTypeOK'
          /\ activeStop' \in Nat
          /\ pc' \in [Threads -> Steps]
        BY <1>1, <3>1, EnterCycleType
    <3> QED
        BY <1>4, <2>2, <2>4, <3>2 DEF PrepareCycle, FlagsTypeOK, ThreadsTypeOK
  <2> QED
      BY <2>3, <2>4
<1> QED
    BY <1>3, <1>4

LEMMA WakeHeldType ==
    ASSUME TypeOK, WakeHeld
    PROVE  TypeOK'
<1> USE DEF TypeOK
<1>1. PlansTypeOK' /\ ViewsTypeOK'
    BY DEF WakeHeld, PlansTypeOK, ViewsTypeOK
<1>2. CASE MayLeaveHold(plan)
  <2>1. EnterCycle(plan) /\ UNCHANGED <<todo, rounds, discarded>>
      BY <1>2 DEF WakeHeld
  <2>2. /\ RequestsTypeOK' /\ HistoryTypeOK'
        /\ activeStop' \in Nat
        /\ pc' \in [Threads -> Steps]
      BY <2>1, EnterCycleType DEF PlansTypeOK
  <2> QED
      BY <1>1, <1>2, <2>2 DEF WakeHeld, FlagsTypeOK, ThreadsTypeOK
<1>3. CASE ~MayLeaveHold(plan)
    BY <1>1, <1>3 DEF WakeHeld, RequestsTypeOK, FlagsTypeOK, ThreadsTypeOK,
                      HistoryTypeOK
<1> QED
    BY <1>2, <1>3

LEMMA BeginCaptureType ==
    ASSUME TypeOK, BeginCapture
    PROVE  TypeOK'
<1> USE DEF TypeOK
<1>1. [gen |-> plan.gen, seq |-> sweep.seq] \in Identities
    BY SweepType DEF PlansTypeOK, Plans, Seqs, Identities
<1>2. FlagsTypeOK'
    BY <1>1 DEF BeginCapture, FlagsTypeOK
<1>3. ViewsTypeOK'
  <2>1. CaptureView \in Views
      BY ViewIsView, DisplayType, SweepType DEF CaptureView, Phases
  <2> QED
      BY <2>1, ShowUpdateType DEF BeginCapture
<1>4. ThreadsTypeOK'
  <2>1. pc' \in [Threads -> Steps]
      BY GoType, ThreadNames DEF BeginCapture, Steps
  <2>2. sweep' \in Sweeps
      BY <1>1 DEF BeginCapture, ThreadsTypeOK, Sweeps
  <2> QED
      BY <2>1, <2>2 DEF BeginCapture, ThreadsTypeOK
<1>5. RequestsTypeOK' /\ PlansTypeOK' /\ HistoryTypeOK'
    BY DEF BeginCapture, RequestsTypeOK, PlansTypeOK, HistoryTypeOK
<1> QED
    BY <1>2, <1>3, <1>4, <1>5

LEMMA ObserveRangeType ==
    ASSUME TypeOK, ObserveRange
    PROVE  TypeOK'
<1> USE DEF TypeOK
<1> DEFINE view == View("Sweeping", sweep.seq, display.done + 1, display.first)
<1>1. view \in Views
  <2>1. display.done + 1 \in Nat
      BY DisplayType
  <2> QED
      BY <2>1, ViewIsView, DisplayType, SweepType DEF Phases
<1>2. [sweep EXCEPT !.emitted = @ + 1] \in Sweeps
  <2>1. sweep.emitted + 1 \in Nat
      BY SweepType
  <2> QED
      BY <2>1 DEF ThreadsTypeOK, Sweeps
<1>3. [sweep EXCEPT !.emitted = @ + 1, !.rejected = TRUE] \in Sweeps
  <2>1. sweep.emitted + 1 \in Nat /\ TRUE \in BOOLEAN
      BY SweepType
  <2> QED
      BY <2>1 DEF ThreadsTypeOK, Sweeps
<1>4. \/ UNCHANGED viewVars
      \/ ShowUpdate(view)
      \/ /\ display' = view /\ crashed' = FALSE
         /\ previews' = [previews EXCEPT !.ident = sweep.ident,
                            !.last = sweep.seq, !.status = StatusOf(plan, view)]
      \/ ShowInvalidate(view, sweep.ident)
    BY DEF ObserveRange
<1>5. ViewsTypeOK'
  <2>1. UNCHANGED viewVars => ViewsTypeOK'
      BY DEF ViewsTypeOK
  <2>2. ShowUpdate(view) => ViewsTypeOK'
      BY <1>1, ShowUpdateType
  <2>3. ShowInvalidate(view, sweep.ident) => ViewsTypeOK'
      BY <1>1, ShowInvalidateType
  <2>4. StatusOf(plan, view) \in Statuses
      BY <1>1, StatusIsStatus DEF PlansTypeOK
  <2>5. [previews EXCEPT !.ident = sweep.ident, !.last = sweep.seq,
                         !.status = StatusOf(plan, view)] \in Exchanges
      BY <2>4, SweepType DEF ViewsTypeOK, Exchanges
  <2> QED
      BY <1>1, <1>4, <2>1, <2>2, <2>3, <2>5 DEF ViewsTypeOK
<1>6. ThreadsTypeOK'
    BY <1>2, <1>3 DEF ObserveRange, ThreadsTypeOK
<1>7. RequestsTypeOK' /\ PlansTypeOK' /\ FlagsTypeOK' /\ HistoryTypeOK'
    BY DEF ObserveRange, RequestsTypeOK, PlansTypeOK, FlagsTypeOK,
           HistoryTypeOK
<1> QED
    BY <1>5, <1>6, <1>7

LEMMA SourceReturnsType ==
    ASSUME TypeOK, SourceReturns
    PROVE  TypeOK'
<1> USE DEF TypeOK
<1>1. ViewsTypeOK'
  <2>1. View("Calculation", sweep.seq, Points, display.first) \in Views
      BY BoundsAssumption, ViewIsView, DisplayType, SweepType DEF Phases
  <2>2. \/ UNCHANGED viewVars
        \/ ShowUpdate(View("Calculation", sweep.seq, Points, display.first))
      BY DEF SourceReturns
  <2> QED
      BY <2>1, <2>2, ShowUpdateType DEF ViewsTypeOK
<1>2. ThreadsTypeOK'
  <2>1. Go(Worker, "cancel") \/ Go(Worker, "claim") \/ Go(Worker, "reject")
      BY DEF SourceReturns
  <2>2. pc' \in [Threads -> Steps]
      BY <2>1, GoType, ThreadNames DEF Steps
  <2> QED
      BY <2>2 DEF SourceReturns, ThreadsTypeOK
<1>3. RequestsTypeOK' /\ PlansTypeOK' /\ FlagsTypeOK' /\ HistoryTypeOK'
    BY DEF SourceReturns, RequestsTypeOK, PlansTypeOK, FlagsTypeOK,
           HistoryTypeOK
<1> QED
    BY <1>1, <1>2, <1>3

LEMMA SourceThrowsType ==
    ASSUME TypeOK, SourceThrows
    PROVE  TypeOK'
<1> USE DEF TypeOK
<1>1. ThreadsTypeOK'
  <2>1. pc' \in [Threads -> Steps]
      BY GoType, ThreadNames DEF SourceThrows, Steps
  <2> QED
      BY <2>1 DEF SourceThrows, ThreadsTypeOK
<1>2. /\ RequestsTypeOK' /\ PlansTypeOK' /\ FlagsTypeOK'
      /\ ViewsTypeOK' /\ HistoryTypeOK'
    BY DEF SourceThrows, RequestsTypeOK, PlansTypeOK, FlagsTypeOK,
           ViewsTypeOK, HistoryTypeOK
<1> QED
    BY <1>1, <1>2

LEMMA BuildFailsType ==
    ASSUME TypeOK, BuildFails
    PROVE  TypeOK'
<1> USE DEF TypeOK
<1>1. ThreadsTypeOK'
  <2>1. pc' \in [Threads -> Steps]
      BY GoType, ThreadNames DEF BuildFails, Steps
  <2> QED
      BY <2>1 DEF BuildFails, ThreadsTypeOK
<1>2. /\ RequestsTypeOK' /\ PlansTypeOK' /\ FlagsTypeOK'
      /\ ViewsTypeOK' /\ HistoryTypeOK'
    BY DEF BuildFails, RequestsTypeOK, PlansTypeOK, FlagsTypeOK, ViewsTypeOK,
           HistoryTypeOK
<1> QED
    BY <1>1, <1>2

LEMMA ClaimPublicationType ==
    ASSUME TypeOK, ClaimPublication
    PROVE  TypeOK'
<1> USE DEF TypeOK
<1>1. FlagsTypeOK'
    BY DEF ClaimPublication, MayPublish, FlagsTypeOK
<1>2. ThreadsTypeOK'
  <2>1. Go(Worker, "publish") \/ Go(Worker, "cancel")
      BY DEF ClaimPublication
  <2>2. pc' \in [Threads -> Steps]
      BY <2>1, GoType, ThreadNames DEF Steps
  <2> QED
      BY <2>2 DEF ClaimPublication, ThreadsTypeOK
<1>3. RequestsTypeOK' /\ PlansTypeOK' /\ ViewsTypeOK' /\ HistoryTypeOK'
    BY DEF ClaimPublication, RequestsTypeOK, PlansTypeOK, ViewsTypeOK,
           HistoryTypeOK
<1> QED
    BY <1>1, <1>2, <1>3

LEMMA PublishType ==
    ASSUME TypeOK, Publish
    PROVE  TypeOK'
<1> USE DEF TypeOK
<1>1. PlansTypeOK'
  <2>1. [gen |-> plan.gen, rev |-> plan.rev, seq |-> sweep.seq]
            \in [gen : Nat, rev : Nat, seq : Nat]
      BY SweepType DEF PlansTypeOK, Plans, Seqs
  <2>2. repository' \in Repositories
      BY <2>1 DEF Publish, PlansTypeOK, Repositories
  <2> QED
      BY <2>2 DEF Publish, PlansTypeOK
<1>2. ThreadsTypeOK'
  <2>1. Go(Worker, "retire") \/ Go(Worker, "reject") \/ Go(Worker, "complete")
      BY DEF Publish
  <2>2. pc' \in [Threads -> Steps]
      BY <2>1, GoType, ThreadNames DEF Steps
  <2> QED
      BY <2>2 DEF Publish, ThreadsTypeOK
<1>3. HistoryTypeOK'
    BY DEF Publish, HistoryTypeOK
<1>4. RequestsTypeOK' /\ FlagsTypeOK' /\ ViewsTypeOK'
    BY DEF Publish, RequestsTypeOK, FlagsTypeOK, ViewsTypeOK
<1> QED
    BY <1>1, <1>2, <1>3, <1>4

LEMMA CompleteRoundType ==
    ASSUME TypeOK, CompleteRound
    PROVE  TypeOK'
<1> USE DEF TypeOK
<1> DEFINE left == activeRequest.left - 1
           rest == IF activeRequest = NoRequest \/ left = 0 THEN NoRequest
                   ELSE [activeRequest EXCEPT !.left = left]
           o == IF rest = NoRequest THEN activeRequest.op ELSE NoOp
<1>1. rest \in Requests \cup {NoRequest}
    BY DEF RequestsTypeOK, Requests, Seqs
<1>2. /\ activeStop' \in Nat /\ activeIdentity' \in Identities
      /\ finalizing' \in BOOLEAN /\ cycleCancel' \in BOOLEAN
      /\ sweep' \in Sweeps
  <2>1. o \in OpIds \cup {NoOp} /\ "Succeeded" \in Terminal
      BY RequestNames DEF Terminal
  <2>2. LeaveCycle(o, "Succeeded")
      BY DEF CompleteRound
  <2> HIDE DEF o
  <2> QED
      BY <2>1, <2>2, LeaveCycleType
<1>3. RequestsTypeOK'
    BY <1>1 DEF CompleteRound, RequestsTypeOK
<1>4. FlagsTypeOK'
    BY <1>2 DEF CompleteRound, FlagsTypeOK
<1>5. ViewsTypeOK'
  <2> DEFINE hold == plan.mode = "Single" /\ rest = NoRequest
  <2>1. BoundaryView(hold, FALSE) \in Views
    <3>1. hold \in BOOLEAN
        OBVIOUS
    <3> HIDE DEF hold
    <3> QED
        BY <3>1, BoundaryViewIsView
  <2>2. ShowInvalidate(BoundaryView(hold, FALSE), sweep.ident)
      BY DEF CompleteRound
  <2> HIDE DEF hold
  <2> QED
      BY <2>1, <2>2, ShowInvalidateType
<1>6. ThreadsTypeOK'
  <2>1. pc' \in [Threads -> Steps]
      BY GoType, ThreadNames DEF CompleteRound, Steps
  <2> QED
      BY <1>2, <2>1 DEF CompleteRound, ThreadsTypeOK
<1>7. PlansTypeOK' /\ HistoryTypeOK'
    BY DEF CompleteRound, PlansTypeOK, HistoryTypeOK
<1> QED
    BY <1>3, <1>4, <1>5, <1>6, <1>7

LEMMA CancelAfterSourceType ==
    ASSUME TypeOK, CancelAfterSource
    PROVE  TypeOK'
<1> USE DEF TypeOK
<1>1. /\ activeStop' \in Nat /\ activeIdentity' \in Identities
      /\ finalizing' \in BOOLEAN /\ cycleCancel' \in BOOLEAN
      /\ sweep' \in Sweeps
    BY RequestNames, LeaveCycleType DEF CancelAfterSource, Terminal
<1>2. RequestsTypeOK'
    BY DEF CancelAfterSource, RequestsTypeOK
<1>3. FlagsTypeOK'
    BY <1>1 DEF CancelAfterSource, FlagsTypeOK
<1>4. ViewsTypeOK'
  <2> DEFINE hold == plan.mode = "Single" /\ pendingOp = NoOp
  <2>1. hold \in BOOLEAN /\ display.first \in BOOLEAN
      BY DisplayType
  <2>2. ShowInvalidate(BoundaryView(hold, display.first), sweep.ident)
      BY DEF CancelAfterSource
  <2> HIDE DEF hold
  <2> QED
      BY <2>1, <2>2, BoundaryViewIsView, ShowInvalidateType
<1>5. ThreadsTypeOK'
  <2>1. pc' \in [Threads -> Steps]
      BY GoType, ThreadNames DEF CancelAfterSource, Steps
  <2> QED
      BY <1>1, <2>1 DEF CancelAfterSource, ThreadsTypeOK
<1>6. PlansTypeOK' /\ HistoryTypeOK'
    BY DEF CancelAfterSource, PlansTypeOK, HistoryTypeOK
<1> QED
    BY <1>2, <1>3, <1>4, <1>5, <1>6

LEMMA RejectType ==
    ASSUME TypeOK, Reject
    PROVE  TypeOK'
<1> USE DEF TypeOK
<1>1. ViewsTypeOK'
  <2>1. View("Failed", sweep.seq, display.done, display.first) \in Views
      BY ViewIsView, DisplayType, SweepType DEF Phases
  <2> QED
      BY <2>1, ShowInvalidateType DEF Reject
<1>2. ThreadsTypeOK'
  <2>1. pc' \in [Threads -> Steps]
      BY GoType, ThreadNames DEF Reject, Steps
  <2> QED
      BY <2>1 DEF Reject, ThreadsTypeOK
<1>3. RequestsTypeOK' /\ PlansTypeOK' /\ FlagsTypeOK' /\ HistoryTypeOK'
    BY DEF Reject, RequestsTypeOK, PlansTypeOK, FlagsTypeOK, HistoryTypeOK
<1> QED
    BY <1>1, <1>2, <1>3

LEMMA FailRequestType ==
    ASSUME TypeOK, FailRequest
    PROVE  TypeOK'
<1> USE DEF TypeOK
<1>1. /\ activeStop' \in Nat /\ activeIdentity' \in Identities
      /\ finalizing' \in BOOLEAN /\ cycleCancel' \in BOOLEAN
      /\ sweep' \in Sweeps
  <2>1. (IF cycleCancel THEN "Canceled" ELSE "Failed") \in Terminal
      BY DEF Terminal
  <2> QED
      BY <2>1, RequestNames, LeaveCycleType DEF FailRequest
<1>2. RequestsTypeOK'
    BY DEF FailRequest, RequestsTypeOK
<1>3. FlagsTypeOK'
    BY <1>1 DEF FailRequest, FlagsTypeOK
<1>4. ThreadsTypeOK'
  <2>1. pc' \in [Threads -> Steps]
      BY GoType, ThreadNames DEF FailRequest, Steps
  <2> QED
      BY <1>1, <2>1 DEF FailRequest, ThreadsTypeOK
<1>5. PlansTypeOK' /\ ViewsTypeOK' /\ HistoryTypeOK'
    BY DEF FailRequest, PlansTypeOK, ViewsTypeOK, HistoryTypeOK
<1> QED
    BY <1>2, <1>3, <1>4, <1>5

LEMMA SettleOperationType ==
    ASSUME TypeOK, SettleOperation
    PROVE  TypeOK'
<1> USE DEF TypeOK
<1>1. RequestsTypeOK'
    BY SweepType DEF SettleOperation, RequestsTypeOK, OperationStates
<1>2. ThreadsTypeOK'
  <2>1. Go(Worker, "next") \/ Go(Worker, "throw")
      BY DEF SettleOperation
  <2>2. pc' \in [Threads -> Steps]
      BY <2>1, GoType, ThreadNames DEF Steps
  <2> QED
      BY <2>2 DEF SettleOperation, ThreadsTypeOK
<1>3. PlansTypeOK' /\ FlagsTypeOK' /\ ViewsTypeOK' /\ HistoryTypeOK'
    BY DEF SettleOperation, PlansTypeOK, FlagsTypeOK, ViewsTypeOK,
           HistoryTypeOK
<1> QED
    BY <1>1, <1>2, <1>3

LEMMA NextSweepType ==
    ASSUME TypeOK, NextSweep
    PROVE  TypeOK'
<1> USE DEF TypeOK
<1>1. FlagsTypeOK'
    BY DEF NextSweep, FlagsTypeOK
<1>2. ThreadsTypeOK'
  <2>1. Go(Worker, "finish") \/ Go(Worker, "loop")
      BY DEF NextSweep
  <2>2. pc' \in [Threads -> Steps]
      BY <2>1, GoType, ThreadNames DEF Steps
  <2>3. [sweep EXCEPT !.seq = @ + 1, !.op = NoOp] \in Sweeps
    <3>1. sweep.seq + 1 \in Seqs
        BY SweepType DEF Seqs
    <3> QED
        BY <3>1 DEF ThreadsTypeOK, Sweeps
  <2> QED
      BY <2>2, <2>3 DEF NextSweep, ThreadsTypeOK
<1>3. RequestsTypeOK' /\ PlansTypeOK' /\ ViewsTypeOK' /\ HistoryTypeOK'
    BY DEF NextSweep, RequestsTypeOK, PlansTypeOK, ViewsTypeOK, HistoryTypeOK
<1> QED
    BY <1>1, <1>2, <1>3

LEMMA RetireType ==
    ASSUME TypeOK, Retire
    PROVE  TypeOK'
<1> USE DEF TypeOK
<1>1. /\ activeStop' \in Nat /\ activeIdentity' \in Identities
      /\ finalizing' \in BOOLEAN /\ cycleCancel' \in BOOLEAN
      /\ sweep' \in Sweeps
    BY LeaveCycleType DEF Retire, Terminal
<1>2. RequestsTypeOK'
    BY RequestNames, ThreadNames DEF Retire, RequestsTypeOK
<1>3. FlagsTypeOK'
    BY <1>1 DEF Retire, FlagsTypeOK
<1>4. ViewsTypeOK'
  <2>1. HoldView(display.first) \in Views
      BY BoundaryViewIsView, DisplayType
  <2> QED
      BY <2>1, ShowInvalidateType DEF Retire
<1>5. ThreadsTypeOK'
  <2>1. pc' \in [Threads -> Steps]
      BY GoType, ThreadNames DEF Retire, Steps
  <2> QED
      BY <1>1, <2>1 DEF Retire, ThreadsTypeOK
<1>6. PlansTypeOK' /\ HistoryTypeOK'
    BY DEF Retire, PlansTypeOK, HistoryTypeOK
<1> QED
    BY <1>2, <1>3, <1>4, <1>5, <1>6

LEMMA FinishType ==
    ASSUME TypeOK, Finish
    PROVE  TypeOK'
<1> USE DEF TypeOK
<1>1. FlagsTypeOK'
    BY DEF Finish, FlagsTypeOK
<1>2. ViewsTypeOK'
  <2>1. HoldView(display.first) \in Views
      BY BoundaryViewIsView, DisplayType
  <2>2. ShowUpdate(HoldView(display.first)) \/ UNCHANGED viewVars
      BY DEF Finish
  <2> QED
      BY <2>1, <2>2, ShowUpdateType DEF ViewsTypeOK
<1>3. ThreadsTypeOK'
  <2>1. pc' \in [Threads -> Steps]
      BY GoType, ThreadNames DEF Finish, Steps
  <2> QED
      BY <2>1 DEF Finish, ThreadsTypeOK
<1>4. RequestsTypeOK' /\ PlansTypeOK' /\ HistoryTypeOK'
    BY DEF Finish, RequestsTypeOK, PlansTypeOK, HistoryTypeOK
<1> QED
    BY <1>1, <1>2, <1>3, <1>4

LEMMA CancelDetachedType ==
    ASSUME TypeOK, NEW t \in Threads, CancelDetached(t)
    PROVE  TypeOK'
<1> USE DEF TypeOK
<1>1. RequestsTypeOK'
  <2>1. \A o \in OpIds : (IF o \in todo[t] THEN CancelDetachedState(ops[o])
                          ELSE ops[o]) \in OperationStates
      BY DEF RequestsTypeOK, CancelDetachedState, OperationStates, Terminal
  <2> QED
      BY <2>1 DEF CancelDetached, RequestsTypeOK
<1>2. ThreadsTypeOK'
  <2>1. AfterDetach(t) \in Steps
      BY DEF AfterDetach, Steps
  <2>2. pc' \in [Threads -> Steps]
      BY <2>1, GoType DEF CancelDetached
  <2> QED
      BY <2>2 DEF CancelDetached, ThreadsTypeOK
<1>3. PlansTypeOK' /\ FlagsTypeOK' /\ ViewsTypeOK' /\ HistoryTypeOK'
    BY DEF CancelDetached, PlansTypeOK, FlagsTypeOK, ViewsTypeOK,
           HistoryTypeOK
<1> QED
    BY <1>1, <1>2, <1>3

LEMMA FailTerminalType ==
    ASSUME TypeOK, NEW t \in Threads, FailTerminal(t)
    PROVE  TypeOK'
<1> USE DEF TypeOK
<1>1. RequestsTypeOK'
    BY RequestNames DEF FailTerminal, RequestsTypeOK
<1>2. FlagsTypeOK'
    BY NoIdentityType DEF FailTerminal, FlagsTypeOK
<1>3. ViewsTypeOK'
  <2> DEFINE id == IF activeIdentity = NoIdentity THEN display.sweep
                   ELSE activeIdentity.seq
             view == View("Failed", id, display.done, display.first)
  <2>1. id \in Nat
      BY DisplayType DEF FlagsTypeOK, Identities
  <2>2. view \in Views
    <3> HIDE DEF id
    <3> QED
        BY <2>1, ViewIsView, DisplayType DEF Phases
  <2>3. ShowUpdate(view) \/ ShowInvalidate(view, activeIdentity)
      BY DEF FailTerminal
  <2> HIDE DEF view
  <2> QED
      BY <2>2, <2>3, ShowUpdateType, ShowInvalidateType
<1>4. ThreadsTypeOK'
  <2>1. pc' \in [Threads -> Steps]
      BY GoType DEF FailTerminal, Steps
  <2> QED
      BY <2>1 DEF FailTerminal, ThreadsTypeOK
<1>5. PlansTypeOK' /\ HistoryTypeOK'
    BY DEF FailTerminal, PlansTypeOK, HistoryTypeOK
<1> QED
    BY <1>1, <1>2, <1>3, <1>4, <1>5

LEMMA FailSettleType ==
    ASSUME TypeOK, NEW t \in Threads, FailSettle(t)
    PROVE  TypeOK'
<1> USE DEF TypeOK
<1>1. RequestsTypeOK'
  <2>1. \A o \in OpIds : (IF o \in todo[t] THEN FailureState(ops[o])
                          ELSE ops[o]) \in OperationStates
      BY DEF RequestsTypeOK, FailureState, OperationStates, Terminal
  <2> QED
      BY <2>1 DEF FailSettle, RequestsTypeOK
<1>2. FlagsTypeOK'
    BY DEF FailSettle, FlagsTypeOK
<1>3. ThreadsTypeOK'
  <2>1. pc' \in [Threads -> Steps]
      BY GoType DEF FailSettle, Steps
  <2> QED
      BY <2>1 DEF FailSettle, ThreadsTypeOK
<1>4. PlansTypeOK' /\ ViewsTypeOK' /\ HistoryTypeOK'
    BY DEF FailSettle, PlansTypeOK, ViewsTypeOK, HistoryTypeOK
<1> QED
    BY <1>1, <1>2, <1>3, <1>4

LEMMA PrepareRestartType ==
    ASSUME TypeOK, NEW c \in Clients, PrepareRestart(c)
    PROVE  TypeOK'
<1> USE DEF TypeOK
<1>1. c \in Threads
    BY DEF Threads
<1>2. RequestsTypeOK'
  <2>1. PICK o \in OpIds :
          /\ pendingOp' = o
          /\ ops' = [p \in OpIds |->
                        IF p = o THEN "Queued"
                        ELSE IF p = CanceledInFlight THEN "CancelRequested"
                        ELSE ops[p]]
      BY DEF PrepareRestart
  <2>2. ops' \in [OpIds -> OperationStates]
      BY <2>1 DEF RequestsTypeOK, OperationStates, Live
  <2>3. todo' \in [Threads -> SUBSET OpIds]
      BY <1>1, RequestNames DEF PrepareRestart, RequestsTypeOK
  <2> QED
      BY <2>1, <2>2, <2>3 DEF PrepareRestart, RequestsTypeOK
<1>3. FlagsTypeOK'
    BY DEF PrepareRestart, FlagsTypeOK
<1>4. ThreadsTypeOK'
  <2>1. pc' \in [Threads -> Steps]
      BY <1>1, GoType DEF PrepareRestart, Steps
  <2>2. local' \in [Threads -> Locals]
    <3>1. [local[c] EXCEPT !.ident = activeIdentity, !.stop = activeStop]
              \in Locals
        BY <1>1 DEF ThreadsTypeOK, FlagsTypeOK, Locals
    <3>2. local' = [local EXCEPT ![c] = [local[c] EXCEPT
                       !.ident = activeIdentity, !.stop = activeStop]]
        BY DEF PrepareRestart, ThreadsTypeOK, Locals
    <3> QED
        BY <1>1, <3>1, <3>2 DEF ThreadsTypeOK
  <2> QED
      BY <2>1, <2>2 DEF PrepareRestart, ThreadsTypeOK
<1>5. HistoryTypeOK'
    BY DEF PrepareRestart, Replaced, HistoryTypeOK, FlagsTypeOK
<1>6. PlansTypeOK' /\ ViewsTypeOK'
    BY DEF PrepareRestart, PlansTypeOK, ViewsTypeOK
<1> QED
    BY <1>2, <1>3, <1>4, <1>5, <1>6

LEMMA SettleInvalidateType ==
    ASSUME TypeOK, NEW c \in Clients, SettleInvalidate(c)
    PROVE  TypeOK'
<1> USE DEF TypeOK
<1>1. c \in Threads
    BY DEF Threads
<1>2. FlagsTypeOK'
    BY NoIdentityType DEF SettleInvalidate, FlagsTypeOK
<1>3. ViewsTypeOK'
  <2>1. PreparingView(display.first) \in Views
      BY BoundaryViewIsView, DisplayType
  <2>2. \/ UNCHANGED viewVars
        \/ ShowInvalidate(PreparingView(display.first), local[c].ident)
      BY DEF SettleInvalidate
  <2> QED
      BY <2>1, <2>2, ShowInvalidateType DEF ViewsTypeOK
<1>4. ThreadsTypeOK'
  <2>1. pc' \in [Threads -> Steps]
      BY <1>1, GoType DEF SettleInvalidate, Steps
  <2> QED
      BY <2>1 DEF SettleInvalidate, ThreadsTypeOK
<1>5. RequestsTypeOK' /\ PlansTypeOK' /\ HistoryTypeOK'
    BY DEF SettleInvalidate, RequestsTypeOK, PlansTypeOK, HistoryTypeOK
<1> QED
    BY <1>2, <1>3, <1>4, <1>5

LEMMA SettleSignalType ==
    ASSUME TypeOK, NEW c \in Clients, SettleSignal(c)
    PROVE  TypeOK'
<1> USE DEF TypeOK
<1>1. c \in Threads
    BY DEF Threads
<1>2. FlagsTypeOK'
    BY DEF SettleSignal, RequestStop, FlagsTypeOK
<1>3. ThreadsTypeOK'
  <2>1. pc' \in [Threads -> Steps]
      BY <1>1, GoType DEF SettleSignal, Steps
  <2>2. NoLocal \in Locals
      BY NoIdentityType DEF NoLocal, Locals
  <2>3. local' \in [Threads -> Locals]
      BY <1>1, <2>2 DEF SettleSignal, ThreadsTypeOK
  <2> QED
      BY <2>1, <2>3 DEF SettleSignal, ThreadsTypeOK
<1>4. RequestsTypeOK' /\ PlansTypeOK' /\ ViewsTypeOK' /\ HistoryTypeOK'
    BY DEF SettleSignal, RequestsTypeOK, PlansTypeOK, ViewsTypeOK,
           HistoryTypeOK
<1> QED
    BY <1>2, <1>3, <1>4

LEMMA CommitConfigurationType ==
    ASSUME TypeOK, NEW settings \in Settings, CommitConfiguration(settings)
    PROVE  TypeOK'
<1> USE DEF TypeOK
<1> DEFINE prepared == [base |-> catalog.plan,
                        plan |-> PlanOf(settings, NextGeneration(settings),
                                        configured + 1)]
<1>1. prepared \in [base : Seqs, plan : Plans]
  <2>1. NextGeneration(settings) \in Seqs /\ catalog.plan \in Seqs
      BY DEF NextGeneration, PlansTypeOK, Seqs
  <2>2. configured + 1 \in Nat
      BY DEF PlansTypeOK
  <2>3. PlanOf(settings, NextGeneration(settings), configured + 1) \in Plans
      BY <2>1, <2>2 DEF PlanOf, Plans, Settings
  <2> QED
      BY <2>1, <2>3
<1>2. configured' \in Nat
    BY DEF CommitConfiguration, PlansTypeOK
<1>3. PlansTypeOK' /\ ViewsTypeOK'
  <2>1. CASE ~AtHold
      BY <1>1, <1>2, <2>1 DEF CommitConfiguration, PlansTypeOK, ViewsTypeOK
  <2>2. CASE AtHold /\ CommitAccepted(prepared)
    <3>1. Apply(prepared)
        BY <2>2 DEF CommitConfiguration
    <3> HIDE DEF prepared
    <3> QED
        BY <1>1, <1>2, <3>1, ApplyType
  <2>3. CASE AtHold /\ ~CommitAccepted(prepared)
      BY <1>2, <2>3 DEF CommitConfiguration, PlansTypeOK, ViewsTypeOK
  <2> QED
      BY <2>1, <2>2, <2>3
<1>4. PlansTypeOK'
    BY <1>3
<1>5. ViewsTypeOK'
    BY <1>3
<1>6. /\ RequestsTypeOK' /\ FlagsTypeOK'
      /\ ThreadsTypeOK' /\ HistoryTypeOK'
    BY DEF CommitConfiguration, RequestsTypeOK, FlagsTypeOK, ThreadsTypeOK,
           HistoryTypeOK
<1> QED
    BY <1>4, <1>5, <1>6

LEMMA ForeignCommitType ==
    ASSUME TypeOK, ForeignCommit
    PROVE  TypeOK'
<1> USE DEF TypeOK
<1>1. PlansTypeOK'
    BY DEF ForeignCommit, PlansTypeOK, Repositories, Seqs, NoFrame
<1>2. /\ RequestsTypeOK' /\ FlagsTypeOK' /\ ViewsTypeOK'
      /\ ThreadsTypeOK' /\ HistoryTypeOK'
    BY DEF ForeignCommit, RequestsTypeOK, FlagsTypeOK, ViewsTypeOK,
           ThreadsTypeOK, HistoryTypeOK
<1> QED
    BY <1>1, <1>2

LEMMA SpuriousWakeType ==
    ASSUME TypeOK, SpuriousWake
    PROVE  TypeOK'
<1> USE DEF TypeOK
<1>1. /\ RequestsTypeOK' /\ PlansTypeOK' /\ FlagsTypeOK'
      /\ ViewsTypeOK' /\ ThreadsTypeOK' /\ HistoryTypeOK'
    BY DEF SpuriousWake, RequestsTypeOK, PlansTypeOK, FlagsTypeOK,
           ViewsTypeOK, ThreadsTypeOK, HistoryTypeOK
<1> QED
    BY <1>1

LEMMA StopCallType ==
    ASSUME TypeOK, StopCall
    PROVE  TypeOK'
<1> USE DEF TypeOK
<1>1. ThreadsTypeOK'
  <2>1. pc' \in [Threads -> Steps]
      BY GoType, ThreadNames DEF StopCall, Steps
  <2> QED
      BY <2>1 DEF StopCall, ThreadsTypeOK
<1>2. /\ RequestsTypeOK' /\ PlansTypeOK' /\ FlagsTypeOK'
      /\ ViewsTypeOK' /\ HistoryTypeOK'
    BY DEF StopCall, RequestsTypeOK, PlansTypeOK, FlagsTypeOK, ViewsTypeOK,
           HistoryTypeOK
<1> QED
    BY <1>1, <1>2

LEMMA StopGateType ==
    ASSUME TypeOK, StopGate
    PROVE  TypeOK'
<1> USE DEF TypeOK
<1>1. RequestsTypeOK'
    BY RequestNames, ThreadNames DEF StopGate, RequestsTypeOK
<1>2. FlagsTypeOK'
    BY DEF StopGate, FlagsTypeOK
<1>3. ThreadsTypeOK'
  <2>1. pc' \in [Threads -> Steps]
      BY GoType, ThreadNames DEF StopGate, ThreadsTypeOK, Steps
  <2>2. [local[Stopper] EXCEPT !.stop = activeStop, !.active = CanceledInFlight]
            \in Locals
      BY RequestNames, ThreadNames DEF ThreadsTypeOK, FlagsTypeOK, Locals
  <2>3. local' \in [Threads -> Locals]
      BY <2>2, ThreadNames DEF StopGate, ThreadsTypeOK
  <2> QED
      BY <2>1, <2>3 DEF StopGate, ThreadsTypeOK
<1>4. HistoryTypeOK'
    BY DEF StopGate, Replaced, HistoryTypeOK, FlagsTypeOK
<1>5. PlansTypeOK' /\ ViewsTypeOK'
    BY DEF StopGate, PlansTypeOK, ViewsTypeOK
<1> QED
    BY <1>1, <1>2, <1>3, <1>4, <1>5

LEMMA StopRequestCancelType ==
    ASSUME TypeOK, StopRequestCancel
    PROVE  TypeOK'
<1> USE DEF TypeOK
<1>1. RequestsTypeOK'
    BY ThreadNames
    DEF StopRequestCancel, RequestsTypeOK, ThreadsTypeOK, Locals,
        OperationStates, Live
<1>2. ThreadsTypeOK'
  <2>1. pc' \in [Threads -> Steps]
      BY GoType, ThreadNames DEF StopRequestCancel, Steps
  <2>2. local' \in [Threads -> Locals]
    <3>1. local[Stopper] \in Locals /\ Stopper \in Threads
        BY ThreadNames DEF ThreadsTypeOK
    <3>2. [local[Stopper] EXCEPT !.fault = TRUE] \in Locals
        BY <3>1 DEF Locals
    <3> QED
        BY <3>1, <3>2 DEF StopRequestCancel, ThreadsTypeOK
  <2> QED
      BY <2>1, <2>2 DEF StopRequestCancel, ThreadsTypeOK
<1>3. PlansTypeOK' /\ FlagsTypeOK' /\ ViewsTypeOK' /\ HistoryTypeOK'
    BY DEF StopRequestCancel, PlansTypeOK, FlagsTypeOK, ViewsTypeOK,
           HistoryTypeOK
<1> QED
    BY <1>1, <1>2, <1>3

LEMMA StopSignalType ==
    ASSUME TypeOK, StopSignal
    PROVE  TypeOK'
<1> USE DEF TypeOK
<1>1. FlagsTypeOK'
    BY DEF StopSignal, RequestStop, FlagsTypeOK
<1>2. ThreadsTypeOK'
  <2>1. pc' \in [Threads -> Steps]
      BY GoType, ThreadNames DEF StopSignal, Steps
  <2> QED
      BY <2>1 DEF StopSignal, ThreadsTypeOK
<1>3. RequestsTypeOK' /\ PlansTypeOK' /\ ViewsTypeOK' /\ HistoryTypeOK'
    BY DEF StopSignal, RequestsTypeOK, PlansTypeOK, ViewsTypeOK, HistoryTypeOK
<1> QED
    BY <1>1, <1>2, <1>3

LEMMA StopTokenType ==
    ASSUME TypeOK, StopToken
    PROVE  TypeOK'
<1> USE DEF TypeOK
<1>1. FlagsTypeOK'
    BY DEF StopToken, FlagsTypeOK
<1>2. ThreadsTypeOK'
  <2>1. pc' \in [Threads -> Steps]
      BY GoType, ThreadNames DEF StopToken, Steps
  <2> QED
      BY <2>1 DEF StopToken, ThreadsTypeOK
<1>3. RequestsTypeOK' /\ PlansTypeOK' /\ ViewsTypeOK' /\ HistoryTypeOK'
    BY DEF StopToken, RequestsTypeOK, PlansTypeOK, ViewsTypeOK, HistoryTypeOK
<1> QED
    BY <1>1, <1>2, <1>3

LEMMA StopNotifyType ==
    ASSUME TypeOK, StopNotify
    PROVE  TypeOK'
<1> USE DEF TypeOK
<1>1. ThreadsTypeOK'
  <2>1. pc' \in [Threads -> Steps]
      BY GoType, ThreadNames DEF StopNotify, Steps
  <2> QED
      BY <2>1 DEF StopNotify, ThreadsTypeOK
<1>2. /\ RequestsTypeOK' /\ PlansTypeOK' /\ FlagsTypeOK'
      /\ ViewsTypeOK' /\ HistoryTypeOK'
    BY DEF StopNotify, RequestsTypeOK, PlansTypeOK, FlagsTypeOK, ViewsTypeOK,
           HistoryTypeOK
<1> QED
    BY <1>1, <1>2

LEMMA StopJoinType ==
    ASSUME TypeOK, StopJoin
    PROVE  TypeOK'
<1> USE DEF TypeOK
<1>1. ThreadsTypeOK'
    BY ThreadNames DEF StopJoin, ThreadsTypeOK, Steps
<1>2. /\ RequestsTypeOK' /\ PlansTypeOK' /\ FlagsTypeOK'
      /\ ViewsTypeOK' /\ HistoryTypeOK'
    BY DEF StopJoin, RequestsTypeOK, PlansTypeOK, FlagsTypeOK, ViewsTypeOK,
           HistoryTypeOK
<1> QED
    BY <1>1, <1>2

\* A step in which nothing changes.
LEMMA StutterType ==
    ASSUME TypeOK, UNCHANGED vars
    PROVE  TypeOK'
BY DEF vars, TypeOK, RequestsTypeOK, PlansTypeOK, FlagsTypeOK, ViewsTypeOK,
       ThreadsTypeOK, HistoryTypeOK

LEMMA NextType ==
    ASSUME TypeOK, [Next]_vars
    PROVE  TypeOK'
<1>1. CASE WorkerNext
    BY <1>1, ThreadNames, CheckStopType, PrepareCycleType, WakeHeldType,
       BeginCaptureType, ObserveRangeType, SourceReturnsType, SourceThrowsType,
       BuildFailsType, ClaimPublicationType, PublishType, CompleteRoundType,
       CancelAfterSourceType, RejectType, FailRequestType, SettleOperationType,
       NextSweepType, RetireType, CancelDetachedType, FinishType,
       FailTerminalType, FailSettleType
    DEF WorkerNext, Source
<1>2. CASE \E c \in Clients : PrepareRestart(c) \/ Settle(c)
  <2>1. PICK c \in Clients : PrepareRestart(c) \/ Settle(c)
      BY <1>2
  <2>2. c \in Threads
      BY DEF Threads
  <2> QED
      BY <2>1, <2>2, PrepareRestartType, CancelDetachedType,
         SettleInvalidateType, SettleSignalType DEF Settle
<1>3. CASE \E settings \in Settings : CommitConfiguration(settings)
    BY <1>3, CommitConfigurationType
<1>4. CASE ForeignCommit \/ SpuriousWake \/ StopCall
    BY <1>4, ForeignCommitType, SpuriousWakeType, StopCallType
<1>5. CASE StopNext
    BY <1>5, ThreadNames, StopGateType, CancelDetachedType,
       StopRequestCancelType, StopSignalType, StopTokenType, StopNotifyType,
       StopJoinType, FailTerminalType, FailSettleType
    DEF StopNext
<1>6. CASE UNCHANGED vars
    BY <1>6, StutterType
<1> QED
    BY <1>1, <1>2, <1>3, <1>4, <1>5, <1>6 DEF Next

\* Every variable keeps its type, for every number of command threads, setups
\* and Operations (the record of Operations, the exchange, the plans).
THEOREM TypeCorrect == Spec => []TypeOK
<1>1. Init => TypeOK
    BY InitType
<1>2. TypeOK /\ [Next]_vars => TypeOK'
    BY NextType
<1> QED
    BY <1>1, <1>2, PTL DEF Spec

-------------------------------------------------------------------------------
(* The Operations the runtime refers to.                                    *)

\* The Operation the worker is about to complete was not settled by others.
CompletingLive == \A o \in HeldByWorker : ops[o] \in Live

\* Nothing of the last cycle is left when a cycle is prepared and run.
NothingCompleting ==
    pc[Worker] \in {"loop", "prepare", "held", "start", "source", "claim",
                    "publish", "complete", "cancel", "reject", "fail", "retire"}
        => sweep.op = NoOp

\* Once stop has emptied the queue nobody fills it again.
NoneQueuedAfterStop ==
    pc[Stopper] \notin {"idle", "gate"} => pendingOp = NoOp

HeldInv == HeldOperations /\ CompletingLive /\ NothingCompleting
           /\ NoneQueuedAfterStop

USE DEF requestVars, cycleVars, lifeVars, planVars, publicationVars, viewVars,
        stopVars, threadVars, history, sharedVars

-------------------------------------------------------------------------------
(* Program counters.                                                        *)

LEMMA DistinctThreads ==
    /\ Worker # Stopper
    /\ \A c \in Clients : c # Worker /\ c # Stopper /\ c \in Threads
BY ThreadsAssumption DEF Worker, Stopper, Threads

LEMMA WorkerGoes ==
    ASSUME TypeOK, NEW step, Go(Worker, step)
    PROVE  pc'[Worker] = step /\ pc'[Stopper] = pc[Stopper]
BY DistinctThreads, ThreadNames DEF TypeOK, ThreadsTypeOK, Go

LEMMA StopperGoes ==
    ASSUME TypeOK, NEW step, Go(Stopper, step)
    PROVE  pc'[Stopper] = step /\ pc'[Worker] = pc[Worker]
BY DistinctThreads, ThreadNames DEF TypeOK, ThreadsTypeOK, Go

LEMMA ClientGoes ==
    ASSUME TypeOK, NEW c \in Clients, NEW step, Go(c, step)
    PROVE  pc'[Stopper] = pc[Stopper] /\ pc'[Worker] = pc[Worker]
BY DistinctThreads, ThreadNames DEF TypeOK, ThreadsTypeOK, Go

-------------------------------------------------------------------------------
(* Three kinds of step.                                                     *)

\* A step that touches no Operation and no reference to one.
LEMMA QuietStep ==
    ASSUME HeldInv, UNCHANGED <<ops, requestVars, todo>>,
           HeldByWorker' \subseteq HeldByWorker, NothingCompleting',
           NoneQueuedAfterStop'
    PROVE  HeldInv'
<1>1. HeldByRuntime' = HeldByRuntime
    BY DEF HeldByRuntime
<1>2. Unshared'
    BY <1>1 DEF HeldInv, HeldOperations, Unshared
<1>3. HeldOperations'
    BY <1>2 DEF HeldInv, HeldOperations
<1>4. CompletingLive'
    BY DEF HeldInv, CompletingLive
<1> QED
    BY <1>3, <1>4 DEF HeldInv

\* Thread t settles everything it has detached, whatever that makes of it.
LEMMA SettleStep ==
    ASSUME TypeOK, TypeOK', HeldInv, NEW t \in Threads,
           \A o \in OpIds \ todo[t] : ops'[o] = ops[o],
           todo' = [todo EXCEPT ![t] = {}],
           UNCHANGED requestVars,
           HeldByWorker' \subseteq HeldByWorker, NothingCompleting',
           NoneQueuedAfterStop'
    PROVE  HeldInv'
<1>1. HeldByRuntime' = HeldByRuntime
    BY DEF HeldByRuntime
<1>2. \A u \in Threads : todo'[u] \subseteq todo[u] /\ todo'[t] = {}
    BY DEF TypeOK, RequestsTypeOK
<1>3. Unshared'
    BY <1>1, <1>2 DEF HeldInv, HeldOperations, Unshared
<1>4. \A o \in OpIds : o \in HeldByRuntime \cup HeldByWorker => ops'[o] = ops[o]
    BY DEF HeldInv, HeldOperations, Unshared
<1>5. pendingOp # NoOp => pendingOp \in OpIds /\ pendingOp \in HeldByRuntime
    BY DEF TypeOK, RequestsTypeOK, HeldByRuntime
<1>6. activeRequest # NoRequest =>
          activeRequest.op \in OpIds /\ activeRequest.op \in HeldByRuntime
    BY BoundsAssumption
    DEF TypeOK, RequestsTypeOK, Requests, HeldByRuntime, OpIds, NoOp
<1>7. HeldByWorker \subseteq OpIds
    BY SweepType DEF TypeOK, HeldByWorker
<1>8. \A u \in Threads : \A o \in todo'[u] : ops'[o] \in Live
  <2> SUFFICES ASSUME NEW u \in Threads, NEW o \in todo'[u]
               PROVE  ops'[o] \in Live
      OBVIOUS
  <2>1. u # t /\ o \in todo[u]
      BY <1>2
  <2>2. o \in OpIds \ todo[t]
      BY <2>1 DEF TypeOK, RequestsTypeOK, HeldInv, HeldOperations, Unshared
  <2> QED
      BY <2>1, <2>2 DEF HeldInv, HeldOperations
<1>9. HeldOperations'
    BY <1>3, <1>4, <1>5, <1>6, <1>8 DEF HeldInv, HeldOperations
<1>10. CompletingLive'
    BY <1>4, <1>7 DEF HeldInv, CompletingLive
<1> QED
    BY <1>9, <1>10 DEF HeldInv

\* Thread t takes Operations out of the runtime, which keeps none queued.
LEMMA TakeStep ==
    ASSUME TypeOK, TypeOK', HeldInv, NEW t \in Threads, NEW taken,
           taken \subseteq HeldByRuntime,
           todo' = [todo EXCEPT ![t] = taken],
           ops' = ops, pendingOp' = NoOp,
           \/ activeRequest' = NoRequest
           \/ activeRequest' = activeRequest /\ activeRequest.op \notin taken,
           HeldByWorker' \subseteq HeldByWorker, NothingCompleting'
    PROVE  HeldInv'
<1>1. HeldByRuntime' \subseteq HeldByRuntime
    BY DEF HeldByRuntime, NoRequest
<1>2. HeldByRuntime' \cap taken = {}
    BY DEF HeldByRuntime, NoRequest
<1>3. \A o \in HeldByRuntime : ops[o] \in Live
  <2>1. activeRequest.op # NoOp => activeRequest # NoRequest
      BY DEF NoRequest
  <2> QED
      BY <2>1 DEF HeldInv, HeldOperations, HeldByRuntime, Live
<1>4. \A u \in Threads : todo'[u] = IF u = t THEN taken ELSE todo[u]
    BY DEF TypeOK, RequestsTypeOK
<1>5. Unshared'
  <2>1. HeldByWorker' \cap HeldByRuntime' = {}
      BY <1>1 DEF HeldInv, HeldOperations, Unshared
  <2>2. \A u \in Threads :
            todo'[u] \cap (HeldByWorker' \cup HeldByRuntime') = {}
      BY <1>1, <1>2, <1>4 DEF HeldInv, HeldOperations, Unshared
  <2>3. \A u, w \in Threads : u # w => todo'[u] \cap todo'[w] = {}
      BY <1>4 DEF HeldInv, HeldOperations, Unshared
  <2> QED
      BY <2>1, <2>2, <2>3 DEF Unshared
<1>6. HeldOperations'
    BY <1>3, <1>4, <1>5 DEF HeldInv, HeldOperations
<1>7. CompletingLive'
    BY DEF HeldInv, CompletingLive
<1>8. NoneQueuedAfterStop'
    BY DEF NoneQueuedAfterStop
<1> QED
    BY <1>6, <1>7, <1>8 DEF HeldInv

-------------------------------------------------------------------------------
(* Actions that leave Operations and the references to them alone.          *)

LEMMA CheckStopHeld ==
    ASSUME TypeOK, HeldInv, CheckStop
    PROVE  HeldInv'
BY WorkerGoes, QuietStep
DEF CheckStop, At, HeldInv, HeldByWorker, NothingCompleting,
       NoneQueuedAfterStop

LEMMA SpuriousWakeHeld ==
    ASSUME TypeOK, HeldInv, SpuriousWake
    PROVE  HeldInv'
BY QuietStep
DEF SpuriousWake, At, HeldInv, HeldByWorker, NothingCompleting,
       NoneQueuedAfterStop

LEMMA BeginCaptureHeld ==
    ASSUME TypeOK, HeldInv, BeginCapture
    PROVE  HeldInv'
BY WorkerGoes, QuietStep
DEF BeginCapture, At, HeldInv, HeldByWorker, NothingCompleting,
       NoneQueuedAfterStop, TypeOK, ThreadsTypeOK, Sweeps

LEMMA ObserveRangeHeld ==
    ASSUME TypeOK, HeldInv, ObserveRange
    PROVE  HeldInv'
BY QuietStep
DEF ObserveRange, At, HeldInv, HeldByWorker, NothingCompleting,
       NoneQueuedAfterStop, TypeOK, ThreadsTypeOK, Sweeps

LEMMA SourceReturnsHeld ==
    ASSUME TypeOK, HeldInv, SourceReturns
    PROVE  HeldInv'
BY WorkerGoes, QuietStep
DEF SourceReturns, At, HeldInv, HeldByWorker, NothingCompleting,
       NoneQueuedAfterStop

LEMMA SourceThrowsHeld ==
    ASSUME TypeOK, HeldInv, SourceThrows
    PROVE  HeldInv'
BY WorkerGoes, QuietStep
DEF SourceThrows, At, HeldInv, HeldByWorker, NothingCompleting,
       NoneQueuedAfterStop

LEMMA BuildFailsHeld ==
    ASSUME TypeOK, HeldInv, BuildFails
    PROVE  HeldInv'
BY WorkerGoes, QuietStep
DEF BuildFails, At, HeldInv, HeldByWorker, NothingCompleting,
       NoneQueuedAfterStop

LEMMA ClaimPublicationHeld ==
    ASSUME TypeOK, HeldInv, ClaimPublication
    PROVE  HeldInv'
BY WorkerGoes, QuietStep
DEF ClaimPublication, At, HeldInv, HeldByWorker, NothingCompleting,
       NoneQueuedAfterStop

LEMMA PublishHeld ==
    ASSUME TypeOK, HeldInv, Publish
    PROVE  HeldInv'
BY WorkerGoes, QuietStep
DEF Publish, At, HeldInv, HeldByWorker, NothingCompleting,
       NoneQueuedAfterStop

LEMMA RejectHeld ==
    ASSUME TypeOK, HeldInv, Reject
    PROVE  HeldInv'
BY WorkerGoes, QuietStep
DEF Reject, At, HeldInv, HeldByWorker, NothingCompleting,
       NoneQueuedAfterStop

LEMMA NextSweepHeld ==
    ASSUME TypeOK, HeldInv, NextSweep
    PROVE  HeldInv'
<1>1. CASE workerStop
    BY <1>1, WorkerGoes, QuietStep
    DEF NextSweep, At, HeldInv, HeldByWorker, NothingCompleting,
        NoneQueuedAfterStop
<1>2. CASE ~workerStop
  <2>1. sweep'.op = NoOp /\ pc'[Worker] = "loop" /\ pc'[Stopper] = pc[Stopper]
      BY <1>2, WorkerGoes DEF NextSweep, TypeOK, ThreadsTypeOK, Sweeps
  <2> QED
      BY <2>1, <1>2, QuietStep
      DEF NextSweep, HeldInv, HeldByWorker, NothingCompleting,
          NoneQueuedAfterStop
<1> QED
    BY <1>1, <1>2

LEMMA FinishHeld ==
    ASSUME TypeOK, HeldInv, Finish
    PROVE  HeldInv'
BY WorkerGoes, QuietStep
DEF Finish, At, HeldInv, HeldByWorker, NothingCompleting,
       NoneQueuedAfterStop

LEMMA SettleInvalidateHeld ==
    ASSUME TypeOK, HeldInv, NEW c \in Clients, SettleInvalidate(c)
    PROVE  HeldInv'
BY ClientGoes, QuietStep
DEF SettleInvalidate, At, HeldInv, HeldByWorker, NothingCompleting,
       NoneQueuedAfterStop

LEMMA SettleSignalHeld ==
    ASSUME TypeOK, HeldInv, NEW c \in Clients, SettleSignal(c)
    PROVE  HeldInv'
BY ClientGoes, QuietStep
DEF SettleSignal, At, HeldInv, HeldByWorker, NothingCompleting,
       NoneQueuedAfterStop

LEMMA CommitConfigurationHeld ==
    ASSUME TypeOK, HeldInv, NEW settings, CommitConfiguration(settings)
    PROVE  HeldInv'
BY QuietStep
DEF CommitConfiguration, At, HeldInv, HeldByWorker, NothingCompleting,
       NoneQueuedAfterStop

LEMMA ForeignCommitHeld ==
    ASSUME TypeOK, HeldInv, ForeignCommit
    PROVE  HeldInv'
BY QuietStep
DEF ForeignCommit, At, HeldInv, HeldByWorker, NothingCompleting,
       NoneQueuedAfterStop

LEMMA StopCallHeld ==
    ASSUME TypeOK, HeldInv, StopCall
    PROVE  HeldInv'
BY StopperGoes, QuietStep
DEF StopCall, At, HeldInv, HeldByWorker, NothingCompleting,
       NoneQueuedAfterStop

LEMMA StopSignalHeld ==
    ASSUME TypeOK, HeldInv, StopSignal
    PROVE  HeldInv'
BY StopperGoes, QuietStep
DEF StopSignal, At, HeldInv, HeldByWorker, NothingCompleting,
       NoneQueuedAfterStop

LEMMA StopTokenHeld ==
    ASSUME TypeOK, HeldInv, StopToken
    PROVE  HeldInv'
BY StopperGoes, QuietStep
DEF StopToken, At, HeldInv, HeldByWorker, NothingCompleting,
       NoneQueuedAfterStop

LEMMA StopNotifyHeld ==
    ASSUME TypeOK, HeldInv, StopNotify
    PROVE  HeldInv'
BY StopperGoes, QuietStep
DEF StopNotify, At, HeldInv, HeldByWorker, NothingCompleting,
       NoneQueuedAfterStop

LEMMA StopJoinHeld ==
    ASSUME TypeOK, HeldInv, StopJoin
    PROVE  HeldInv'
BY DistinctThreads, ThreadNames, QuietStep
DEF StopJoin, At, HeldInv, HeldByWorker, NothingCompleting,
       NoneQueuedAfterStop, TypeOK, ThreadsTypeOK, Go

-------------------------------------------------------------------------------
(* Detached Operations: taken under the lock, settled after it.             *)

LEMMA CancelDetachedHeld ==
    ASSUME TypeOK, HeldInv, NEW t \in Threads, CancelDetached(t)
    PROVE  HeldInv'
<1>1. TypeOK'
    BY CancelDetachedType
<1>2. HeldByWorker' \subseteq HeldByWorker /\ NothingCompleting'
      /\ NoneQueuedAfterStop'
    BY DistinctThreads, ThreadNames
    DEF CancelDetached, At, Go, AfterDetach, HeldInv, HeldByWorker,
        NothingCompleting, NoneQueuedAfterStop, TypeOK, ThreadsTypeOK
<1> QED
    BY <1>1, <1>2, SettleStep DEF CancelDetached

LEMMA FailSettleHeld ==
    ASSUME TypeOK, HeldInv, NEW t \in {Worker, Stopper}, FailSettle(t)
    PROVE  HeldInv'
<1>1. t \in Threads
    BY DEF Threads
<1>2. TypeOK'
    BY <1>1, FailSettleType
<1>3. HeldByWorker' \subseteq HeldByWorker /\ NothingCompleting'
      /\ NoneQueuedAfterStop'
    BY DistinctThreads, ThreadNames
    DEF FailSettle, At, Go, HeldInv, HeldByWorker, NothingCompleting,
        NoneQueuedAfterStop, TypeOK, ThreadsTypeOK
<1> QED
    BY <1>1, <1>2, <1>3, SettleStep DEF FailSettle

LEMMA FailTerminalHeld ==
    ASSUME TypeOK, HeldInv, NEW t \in {Worker, Stopper}, FailTerminal(t)
    PROVE  HeldInv'
<1>1. t \in Threads
    BY DEF Threads
<1>2. TypeOK'
    BY <1>1, FailTerminalType
<1>3. HeldByWorker' \subseteq HeldByWorker /\ NothingCompleting'
    BY DistinctThreads, ThreadNames
    DEF FailTerminal, At, Go, HeldInv, HeldByWorker, NothingCompleting,
        TypeOK, ThreadsTypeOK
<1> QED
    BY <1>1, <1>2, <1>3, TakeStep DEF FailTerminal, HeldByRuntime

LEMMA RetireHeld ==
    ASSUME TypeOK, HeldInv, Retire
    PROVE  HeldInv'
<1>1. TypeOK'
    BY RetireType
<1>2. HeldByWorker' \subseteq HeldByWorker /\ NothingCompleting'
    BY WorkerGoes DEF Retire, HeldByWorker, NothingCompleting
<1> QED
    BY <1>1, <1>2, ThreadNames, TakeStep DEF Retire, HeldByRuntime

LEMMA StopGateHeld ==
    ASSUME TypeOK, HeldInv, StopGate
    PROVE  HeldInv'
<1>1. CASE finalizing
    BY <1>1, QuietStep
    DEF StopGate, HeldInv, HeldByWorker, NothingCompleting,
        NoneQueuedAfterStop
<1>2. CASE ~finalizing
  <2>1. TypeOK'
      BY StopGateType
  <2>2. HeldByWorker' \subseteq HeldByWorker /\ NothingCompleting'
      BY <1>2, StopperGoes
      DEF StopGate, HeldInv, HeldByWorker, NothingCompleting
  <2>3. Detached \subseteq HeldByRuntime
      BY DEF Detached, HeldByRuntime
  <2>4. activeStop # NoStop => activeRequest.op \notin Detached
      BY DEF Detached, HeldInv, HeldOperations, Unshared
  <2> QED
      BY <1>2, <2>1, <2>2, <2>3, <2>4, ThreadNames, TakeStep DEF StopGate
<1> QED
    BY <1>1, <1>2

-------------------------------------------------------------------------------
(* The worker takes an Operation into a cycle and out of it.                *)

LEMMA EnterStep ==
    ASSUME TypeOK, HeldInv, NEW p, pc[Worker] \in {"prepare", "held"},
           EnterCycle(p), UNCHANGED <<todo, sweep>>
    PROVE  HeldInv'
<1>1. sweep.op = NoOp /\ HeldByWorker = {}
    BY DEF HeldInv, NothingCompleting, HeldByWorker
<1>2. pc'[Worker] \in {"finish", "throw", "start"} /\ pc'[Stopper] = pc[Stopper]
    BY WorkerGoes DEF EnterCycle
<1>3. HeldByWorker' = {} /\ NothingCompleting' /\ CompletingLive'
    BY <1>1, <1>2 DEF HeldByWorker, NothingCompleting, CompletingLive
<1>4. CASE UNCHANGED <<ops, requestVars>>
    BY <1>1, <1>2, <1>3, <1>4, QuietStep DEF HeldInv, NoneQueuedAfterStop
<1>5. CASE pendingOp # NoOp /\ pendingOp' = NoOp
           /\ ops' = [ops EXCEPT ![pendingOp] = "Running"]
           /\ activeRequest' = [op |-> pendingOp, left |-> RoundsOf(p)]
  <2>1. pendingOp \in OpIds /\ pendingOp \in HeldByRuntime
      BY <1>5 DEF TypeOK, RequestsTypeOK, HeldByRuntime
  <2>2. ops'[pendingOp] = "Running"
        /\ \A o : o # pendingOp => ops'[o] = ops[o]
      BY <2>1, <1>5 DEF TypeOK, RequestsTypeOK
  <2>3. HeldByRuntime' = {pendingOp}
      BY <1>5, <2>1 DEF HeldByRuntime
  <2>4. \A t \in Threads : pendingOp \notin todo[t]
      BY <2>1 DEF HeldInv, HeldOperations, Unshared
  <2>5. Unshared'
      BY <1>3, <1>5, <2>3, <2>4 DEF HeldInv, HeldOperations, Unshared
  <2>6. \A t \in Threads : \A o \in todo[t] : ops'[o] \in Live
      BY <2>2, <2>4 DEF HeldInv, HeldOperations
  <2>7. HeldOperations'
      BY <1>5, <2>2, <2>5, <2>6 DEF HeldOperations
  <2> QED
      BY <1>3, <1>5, <2>7 DEF HeldInv, NoneQueuedAfterStop
<1> QED
    BY <1>4, <1>5 DEF EnterCycle

LEMMA PrepareCycleHeld ==
    ASSUME TypeOK, HeldInv, PrepareCycle
    PROVE  HeldInv'
<1>1. CASE EnterCycle(BoundaryPlan)
    BY <1>1, EnterStep DEF PrepareCycle, At
<1>2. CASE /\ Go(Worker, "throw") \/ Go(Worker, "held")
           /\ UNCHANGED <<ops, requestVars>>
    BY <1>2, WorkerGoes, QuietStep
    DEF PrepareCycle, At, HeldInv, HeldByWorker, NothingCompleting,
        NoneQueuedAfterStop
<1> QED
    BY <1>1, <1>2 DEF PrepareCycle

LEMMA WakeHeldHeld ==
    ASSUME TypeOK, HeldInv, WakeHeld
    PROVE  HeldInv'
<1>1. CASE EnterCycle(plan)
    BY <1>1, EnterStep DEF WakeHeld, At
<1>2. CASE UNCHANGED <<ops, requestVars, pc>>
    BY <1>2, QuietStep
    DEF WakeHeld, HeldInv, HeldByWorker, NothingCompleting,
        NoneQueuedAfterStop
<1> QED
    BY <1>1, <1>2 DEF WakeHeld

\* The worker leaves its cycle, with the request's Operation or without.
LEMMA LeaveStep ==
    ASSUME TypeOK, HeldInv,
           pc[Worker] \in {"complete", "cancel", "fail"}, Go(Worker, "settle"),
           UNCHANGED <<ops, pendingOp, todo>>,
           \/ activeRequest' = NoRequest /\ sweep'.op = activeRequest.op
           \/ /\ sweep'.op = NoOp
              /\ activeRequest # NoRequest
              /\ activeRequest'.op = activeRequest.op
    PROVE  HeldInv'
<1>1. pc'[Worker] = "settle" /\ pc'[Stopper] = pc[Stopper]
    BY WorkerGoes
<1>2. HeldByWorker' = {sweep'.op} \ {NoOp}
    BY <1>1 DEF HeldByWorker
<1>3. HeldByRuntime' \cup HeldByWorker' \subseteq HeldByRuntime
    BY <1>2 DEF HeldByRuntime, NoRequest
<1>4. HeldByRuntime' \cap HeldByWorker' = {}
    BY <1>2 DEF HeldByRuntime, NoRequest, HeldInv, HeldOperations, Unshared
<1>5. Unshared'
    BY <1>3, <1>4 DEF NoRequest, HeldInv, HeldOperations, Unshared
<1>6. HeldOperations'
    BY <1>5 DEF HeldInv, HeldOperations
<1>7. activeRequest.op # NoOp => ops[activeRequest.op] \in Live
    BY DEF NoRequest, HeldInv, HeldOperations, Live
<1>8. CompletingLive'
    BY <1>2, <1>7 DEF CompletingLive
<1> QED
    BY <1>1, <1>6, <1>8 DEF HeldInv, NothingCompleting, NoneQueuedAfterStop

LEMMA CompleteRoundHeld ==
    ASSUME TypeOK, HeldInv, CompleteRound
    PROVE  HeldInv'
<1>1. \/ activeRequest' = NoRequest /\ sweep'.op = activeRequest.op
      \/ /\ sweep'.op = NoOp
         /\ activeRequest # NoRequest
         /\ activeRequest'.op = activeRequest.op
    BY DEF CompleteRound, LeaveCycle, TypeOK, ThreadsTypeOK, Sweeps,
           RequestsTypeOK, Requests, NoRequest
<1> QED
    BY <1>1, LeaveStep DEF CompleteRound, At

LEMMA CancelAfterSourceHeld ==
    ASSUME TypeOK, HeldInv, CancelAfterSource
    PROVE  HeldInv'
BY LeaveStep
DEF CancelAfterSource, At, LeaveCycle, TypeOK, ThreadsTypeOK, Sweeps

LEMMA FailRequestHeld ==
    ASSUME TypeOK, HeldInv, FailRequest
    PROVE  HeldInv'
BY LeaveStep DEF FailRequest, At, LeaveCycle, TypeOK, ThreadsTypeOK, Sweeps

LEMMA SettleOperationHeld ==
    ASSUME TypeOK, HeldInv, SettleOperation
    PROVE  HeldInv'
<1>1. UNCHANGED <<requestVars, todo, sweep>>
    BY DEF SettleOperation
<1>2. pc[Worker] = "settle" /\ pc'[Worker] \in {"next", "throw"}
      /\ pc'[Stopper] = pc[Stopper]
    BY WorkerGoes DEF SettleOperation, At
<1>3. NothingCompleting' /\ NoneQueuedAfterStop'
    BY <1>1, <1>2 DEF HeldInv, NothingCompleting, NoneQueuedAfterStop
<1>4. CASE pc'[Worker] = "throw"
  <2>1. ops' = ops /\ HeldByWorker' = HeldByWorker
      BY <1>1, <1>2, <1>4, WorkerGoes DEF SettleOperation, HeldByWorker
  <2> QED
      BY <1>1, <1>3, <2>1, QuietStep
<1>5. CASE pc'[Worker] = "next"
  <2>1. HeldByWorker = {sweep.op} \ {NoOp} /\ HeldByWorker' = {}
      BY <1>2, <1>5 DEF HeldByWorker
  <2>2. \A o \in OpIds \ HeldByWorker : ops'[o] = ops[o]
    <3>1. ~Go(Worker, "throw")
        BY <1>5, WorkerGoes
    <3>2. ops' = [o \in OpIds |->
                    IF o = sweep.op THEN sweep.outcome ELSE ops[o]]
        BY <3>1 DEF SettleOperation
    <3>3. NoOp \notin OpIds
        BY BoundsAssumption DEF OpIds, NoOp
    <3> QED
        BY <2>1, <3>2, <3>3
  <2>3. HeldByRuntime' = HeldByRuntime
      BY <1>1 DEF HeldByRuntime
  <2>4. Unshared'
      BY <1>1, <2>1, <2>3 DEF HeldInv, HeldOperations, Unshared
  <2>5. pendingOp # NoOp => ops'[pendingOp] = ops[pendingOp]
      BY <2>2 DEF TypeOK, RequestsTypeOK, HeldByRuntime, HeldInv,
                  HeldOperations, Unshared
  <2>6. activeRequest # NoRequest =>
            activeRequest.op \in OpIds /\ activeRequest.op # NoOp
      BY BoundsAssumption DEF TypeOK, RequestsTypeOK, Requests, OpIds, NoOp
  <2>7. activeRequest # NoRequest =>
            ops'[activeRequest.op] = ops[activeRequest.op]
      BY <2>2, <2>6 DEF HeldByRuntime, HeldInv, HeldOperations, Unshared
  <2>8. \A t \in Threads : \A o \in todo[t] : ops'[o] = ops[o]
      BY <2>2 DEF TypeOK, RequestsTypeOK, HeldInv, HeldOperations, Unshared
  <2>9. HeldOperations'
      BY <1>1, <2>4, <2>5, <2>7, <2>8 DEF HeldInv, HeldOperations
  <2> QED
      BY <1>3, <2>1, <2>9 DEF HeldInv, CompletingLive
<1> QED
    BY <1>2, <1>4, <1>5

-------------------------------------------------------------------------------
(* A Restart creates an Operation and replaces the others; stop asks the    *)
(* one in flight to cancel.                                                 *)

LEMMA PrepareRestartHeld ==
    ASSUME TypeOK, HeldInv, NEW c \in Clients, PrepareRestart(c)
    PROVE  HeldInv'
<1>1. c \in Threads /\ NoOp \notin OpIds
    BY BoundsAssumption DEF Threads, OpIds, NoOp
<1>2. PICK o \in OpIds :
          /\ Unused(o)
          /\ pendingOp' = o
          /\ ops' = [p \in OpIds |->
                        IF p = o THEN "Queued"
                        ELSE IF p = CanceledInFlight THEN "CancelRequested"
                        ELSE ops[p]]
    BY DEF PrepareRestart
<1>3. activeRequest # NoRequest =>
          activeRequest.op \in OpIds /\ activeRequest.op \in HeldByRuntime
    BY <1>1 DEF TypeOK, RequestsTypeOK, Requests, HeldByRuntime
<1>4. \A p \in HeldByRuntime : p \in OpIds /\ ops[p] \in Live
    BY DEF HeldByRuntime, HeldInv, HeldOperations, TypeOK, RequestsTypeOK,
           Requests, NoRequest, Live
<1>5. /\ o \notin HeldByRuntime /\ o \notin HeldByWorker
      /\ \A t \in Threads : o \notin todo[t]
    BY <1>2, <1>4 DEF Unused, Live, HeldInv, HeldOperations, CompletingLive
<1>6. \A p \in OpIds : ops[p] \in Live => ops'[p] \in Live
    BY <1>2 DEF Live
<1>7. Detached \subseteq HeldByRuntime
    BY DEF Detached, HeldByRuntime
<1>8. \A t \in Threads : todo'[t] = IF t = c THEN Detached ELSE todo[t]
    BY DEF PrepareRestart, TypeOK, RequestsTypeOK
<1>9. HeldByRuntime' \subseteq {o} \cup (HeldByRuntime \ Detached)
    BY <1>2 DEF PrepareRestart, HeldByRuntime, Detached, NoRequest, HeldInv,
                HeldOperations, Unshared
<1>10. UNCHANGED <<sweep, pc[Worker]>> /\ HeldByWorker' = HeldByWorker
    BY ClientGoes DEF PrepareRestart, HeldByWorker
<1>11. Unshared'
  <2>1. pendingOp' # NoOp => pendingOp' # activeRequest'.op
      BY <1>1, <1>2, <1>3, <1>5 DEF PrepareRestart, NoRequest
  <2>2. HeldByWorker' \cap HeldByRuntime' = {}
      BY <1>5, <1>9, <1>10 DEF HeldInv, HeldOperations, Unshared
  <2>3. \A t \in Threads :
            todo'[t] \cap (HeldByWorker' \cup HeldByRuntime') = {}
      BY <1>5, <1>7, <1>8, <1>9, <1>10 DEF HeldInv, HeldOperations, Unshared
  <2>4. \A t, u \in Threads : t # u => todo'[t] \cap todo'[u] = {}
      BY <1>7, <1>8 DEF HeldInv, HeldOperations, Unshared
  <2> QED
      BY <2>1, <2>2, <2>3, <2>4 DEF Unshared
<1>12. ops'[pendingOp'] = "Queued"
    BY <1>2
<1>13. activeRequest' # NoRequest =>
          ops'[activeRequest'.op] \in {"Running", "CancelRequested"}
    BY <1>2, <1>3, <1>5 DEF PrepareRestart, HeldInv, HeldOperations
<1>14. \A t \in Threads : \A p \in todo'[t] : ops'[p] \in Live
    BY <1>4, <1>6, <1>7, <1>8
    DEF HeldInv, HeldOperations, TypeOK, RequestsTypeOK
<1>15. HeldOperations'
    BY <1>11, <1>12, <1>13, <1>14 DEF HeldOperations
<1>16. CompletingLive'
    BY <1>6, <1>10, SweepType DEF CompletingLive, HeldInv, HeldByWorker, TypeOK
<1>17. NothingCompleting' /\ NoneQueuedAfterStop'
    BY <1>10, ClientGoes
    DEF PrepareRestart, At, HeldInv, NothingCompleting, NoneQueuedAfterStop
<1> QED
    BY <1>15, <1>16, <1>17 DEF HeldInv

LEMMA StopRequestCancelHeld ==
    ASSUME TypeOK, HeldInv, StopRequestCancel
    PROVE  HeldInv'
<1>1. pendingOp = NoOp
    BY DEF StopRequestCancel, At, HeldInv, NoneQueuedAfterStop
<1>2. UNCHANGED <<requestVars, todo, sweep, pc[Worker]>>
    BY StopperGoes DEF StopRequestCancel
<1>3. HeldByWorker' = HeldByWorker /\ HeldByRuntime' = HeldByRuntime
    BY <1>2 DEF HeldByWorker, HeldByRuntime
<1>4. \A p \in OpIds :
          \/ ops'[p] = ops[p]
          \/ ops[p] \in Live /\ ops'[p] = "CancelRequested"
    BY DEF StopRequestCancel, CanRequestCancel, TypeOK, RequestsTypeOK
<1>5. Unshared'
    BY <1>2, <1>3 DEF HeldInv, HeldOperations, Unshared
<1>6. activeRequest # NoRequest => activeRequest.op \in OpIds
    BY DEF TypeOK, RequestsTypeOK, Requests
<1>7. HeldOperations'
    BY <1>1, <1>2, <1>4, <1>5, <1>6
    DEF HeldInv, HeldOperations, TypeOK, RequestsTypeOK, Live
<1>8. CompletingLive'
    BY <1>3, <1>4, SweepType
    DEF CompletingLive, HeldInv, HeldByWorker, TypeOK, Live
<1>9. NothingCompleting' /\ NoneQueuedAfterStop'
    BY <1>1, <1>2 DEF HeldInv, NothingCompleting, NoneQueuedAfterStop
<1> QED
    BY <1>7, <1>8, <1>9 DEF HeldInv

-------------------------------------------------------------------------------

LEMMA InitHeld ==
    ASSUME Init
    PROVE  HeldInv
BY DEF Init, HeldInv, HeldOperations, Unshared, CompletingLive,
       NothingCompleting, NoneQueuedAfterStop, HeldByWorker, HeldByRuntime,
       NoRequest, NoOp, Threads

LEMMA NextHeld ==
    ASSUME TypeOK, HeldInv, [Next]_vars
    PROVE  HeldInv'
<1>1. CASE WorkerNext
    BY <1>1, ThreadNames, CheckStopHeld, PrepareCycleHeld, WakeHeldHeld,
       BeginCaptureHeld, ObserveRangeHeld, SourceReturnsHeld, SourceThrowsHeld,
       BuildFailsHeld, ClaimPublicationHeld, PublishHeld, CompleteRoundHeld,
       CancelAfterSourceHeld, RejectHeld, FailRequestHeld, SettleOperationHeld,
       NextSweepHeld, RetireHeld, CancelDetachedHeld, FinishHeld,
       FailTerminalHeld, FailSettleHeld
    DEF WorkerNext, Source
<1>2. CASE \E c \in Clients : PrepareRestart(c) \/ Settle(c)
  <2>1. PICK c \in Clients : PrepareRestart(c) \/ Settle(c)
      BY <1>2
  <2>2. c \in Threads
      BY DEF Threads
  <2> QED
      BY <2>1, <2>2, PrepareRestartHeld, CancelDetachedHeld,
         SettleInvalidateHeld, SettleSignalHeld DEF Settle
<1>3. CASE \E settings \in Settings : CommitConfiguration(settings)
    BY <1>3, CommitConfigurationHeld
<1>4. CASE ForeignCommit \/ SpuriousWake \/ StopCall
    BY <1>4, ForeignCommitHeld, SpuriousWakeHeld, StopCallHeld
<1>5. CASE StopNext
    BY <1>5, ThreadNames, StopGateHeld, CancelDetachedHeld,
       StopRequestCancelHeld, StopSignalHeld, StopTokenHeld, StopNotifyHeld,
       StopJoinHeld, FailTerminalHeld, FailSettleHeld
    DEF StopNext
<1>6. CASE UNCHANGED vars
    BY <1>6, QuietStep
    DEF vars, HeldInv, HeldByWorker, NothingCompleting, NoneQueuedAfterStop
<1> QED
    BY <1>1, <1>2, <1>3, <1>4, <1>5, <1>6 DEF Next

\* Whatever the number of command threads and Operations, every Operation the
\* runtime, its worker or a settling thread refers to is in the state the next
\* call on it needs, and no two of them refer to the same one (sweep_runtime.cpp
\* requireTransition, sweep_runtime_restart.cpp settleRestart).
THEOREM HeldCorrect == Spec => []HeldOperations
<1>1. Init => TypeOK /\ HeldInv
    BY InitType, InitHeld
<1>2. TypeOK /\ HeldInv /\ [Next]_vars => (TypeOK /\ HeldInv)'
    BY NextType, NextHeld
<1>3. TypeOK /\ HeldInv => HeldOperations
    BY DEF HeldInv
<1> QED
    BY <1>1, <1>2, <1>3, PTL DEF Spec
===============================================================================
