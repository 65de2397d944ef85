----------------------- MODULE SweepRuntimeCycle_proofs -----------------------
(***************************************************************************)
(* What a sweep publishes and shows, and the plan it runs under: proved for *)
(* every set of clients, every set of setups and every bound.              *)
(*                                                                         *)
(* CycleInv is the common inductive invariant.  It ties four descriptions  *)
(* of "a sweep is in flight" to each other: where the worker is, whose     *)
(* StopSource the runtime holds (StopHandles), which identity is active    *)
(* (IdentityStands) and what the status shows (HoldMeansRest).  From it    *)
(* follow, without further assumptions, what becomes of frame sets         *)
(* (FramesStand, DiscardsStand), of the plan, of the previews              *)
(* (PreviewStands) and, with HeldInv, of the rounds of an Operation        *)
(* (RoundsInv).                                                            *)
(*                                                                         *)
(* What relates the generations holds while the runtime is the only owner  *)
(* of the catalog (SoleOwner), as the server composes it; so does what is  *)
(* left of "the process never terminates" (TerminationLate).  What a       *)
(* worker at rest in Hold has applied (HoldApplied) needs no such          *)
(* hypothesis.                                                             *)
(***************************************************************************)
EXTENDS SweepRuntime_proofs

-------------------------------------------------------------------------------
(* Where the worker is, and the StopSource the runtime holds.               *)

\* The capture of the worker's cycle has begun.
Capturing == {"source", "claim", "publish", "complete", "cancel", "reject",
              "fail", "retire"}

\* The worker is between two cycles.
Between == {"loop", "prepare", "held", "settle", "next"}

\* stop waits for the worker before it can meet its own failure.
StopperLast ==
    pc[Stopper] \in {"throw", "failing", "done"} => pc[Worker] = "done"

\* The runtime owns the StopSource of the cycle that runs, and of no other.
StopHandles ==
    /\ activeStop \in {NoStop, sweep.seq}
    /\ InCycle => activeStop = sweep.seq
    /\ pc[Worker] \in Between => activeStop = NoStop

USE DEF requestVars, cycleVars, lifeVars, planVars, publicationVars, viewVars,
        stopVars, threadVars, history, sharedVars

LEMMA NextStopperLast ==
    ASSUME TypeOK, StopperLast, [Next]_vars
    PROVE  StopperLast'
<1> USE DistinctThreads, ThreadNames, WorkerGoes, StopperGoes, ClientGoes
        DEF StopperLast, At
<1>1. CASE WorkerNext
  <2>1. pc[Worker] # "done" /\ pc'[Stopper] = pc[Stopper]
    <3>1. CASE CheckStop \/ PrepareCycle \/ WakeHeld \/ BeginCapture \/ Source
        BY <3>1 DEF CheckStop, PrepareCycle, WakeHeld, EnterCycle,
           BeginCapture, Source, ObserveRange, SourceReturns, SourceThrows
    <3>2. CASE BuildFails \/ ClaimPublication \/ Publish \/ CompleteRound
               \/ CancelAfterSource \/ Reject \/ FailRequest
        BY <3>2 DEF BuildFails, ClaimPublication, Publish, CompleteRound,
           CancelAfterSource, Reject, FailRequest
    <3>3. CASE SettleOperation \/ NextSweep \/ Retire \/ Finish
               \/ CancelDetached(Worker) \/ FailTerminal(Worker)
               \/ FailSettle(Worker)
        BY <3>3 DEF SettleOperation, NextSweep, Retire, CancelDetached,
           Finish, FailTerminal, FailSettle
    <3> QED
        BY <1>1, <3>1, <3>2, <3>3 DEF WorkerNext
  <2> QED
      BY <2>1
<1>2. CASE \E c \in Clients : PrepareRestart(c) \/ Settle(c)
    BY <1>2 DEF PrepareRestart, Settle, CancelDetached, SettleInvalidate,
       SettleSignal
<1>3. CASE (\E settings \in Settings : CommitConfiguration(settings))
           \/ ForeignCommit \/ SpuriousWake
    BY <1>3 DEF CommitConfiguration, ForeignCommit, SpuriousWake
<1>4. CASE StopCall \/ StopNext
    BY <1>4 DEF StopCall, StopNext, StopGate, CancelDetached, AfterDetach,
       StopRequestCancel, StopSignal, StopToken, StopNotify, StopJoin,
       FailTerminal, FailSettle, TypeOK, ThreadsTypeOK
<1>5. CASE UNCHANGED vars
    BY <1>5 DEF vars
<1> QED
    BY <1>1, <1>2, <1>3, <1>4, <1>5 DEF Next

\* Where prepareCycle leads.
LEMMA EnterCycleLeads ==
    ASSUME TypeOK, NEW p, EnterCycle(p)
    PROVE  /\ pc'[Stopper] = pc[Stopper]
           /\ \/ pc'[Worker] \in {"finish", "throw"} /\ activeStop' = activeStop
                 /\ activeRequest' = activeRequest
              \/ pc'[Worker] = "start" /\ activeStop' = sweep.seq
                 /\ (pendingOp # NoOp => activeRequest' # NoRequest)
                 /\ (pendingOp = NoOp => activeRequest' = activeRequest)
BY WorkerGoes, RequestNames DEF EnterCycle, NoRequest, NoOp

LEMMA PrepareCycleLeads ==
    ASSUME TypeOK, PrepareCycle \/ WakeHeld
    PROVE  /\ pc'[Stopper] = pc[Stopper]
           /\ pc[Worker] \in {"prepare", "held"}
           /\ UNCHANGED <<activeIdentity, finalizing, cycleCancel, lifeVars,
                          configured, stopVars, local, sweep, discarded,
                          rounds>>
           /\ \/ /\ pc'[Worker] \in {"finish", "throw", "held"}
                 /\ UNCHANGED <<activeStop, activeRequest>>
              \/ /\ pc'[Worker] = "start" /\ activeStop' = sweep.seq
                 /\ \/ pendingOp # NoOp /\ activeRequest' # NoRequest
                    \/ pendingOp = NoOp /\ activeRequest' = activeRequest
BY WorkerGoes, EnterCycleLeads DEF PrepareCycle, WakeHeld, At

\* The first and the later steps of a capture keep the sweep's number.
LEMMA BeginCaptureSweep ==
    ASSUME TypeOK, BeginCapture
    PROVE  /\ sweep'.seq = sweep.seq /\ sweep'.op = sweep.op
           /\ sweep'.outcome = sweep.outcome /\ sweep'.emitted = 0
           /\ sweep'.ident = [gen |-> plan.gen, seq |-> sweep.seq]
BY DEF BeginCapture, TypeOK, ThreadsTypeOK, Sweeps

LEMMA ObserveRangeSweep ==
    ASSUME TypeOK, ObserveRange
    PROVE  /\ sweep'.seq = sweep.seq /\ sweep'.op = sweep.op
           /\ sweep'.outcome = sweep.outcome
           /\ sweep'.emitted = sweep.emitted + 1
           /\ sweep'.ident = sweep.ident
BY DEF ObserveRange, TypeOK, ThreadsTypeOK, Sweeps

\* The next sweep has the next number.
LEMMA NextSweepLeads ==
    ASSUME TypeOK, NextSweep
    PROVE  /\ pc[Worker] = "next" /\ pc'[Stopper] = pc[Stopper]
           /\ sweep'.ident = sweep.ident
           /\ \/ pc'[Worker] = "finish" /\ sweep' = sweep
              \/ /\ pc'[Worker] = "loop" /\ sweep'.op = NoOp
                 /\ sweep'.seq = sweep.seq + 1
<1>1. CASE workerStop
    BY <1>1, WorkerGoes DEF NextSweep, At
<1>2. CASE ~workerStop
    BY <1>2, WorkerGoes DEF NextSweep, At, TypeOK, ThreadsTypeOK, Sweeps
<1> QED
    BY <1>1, <1>2

\* Leaving the cycle: what the worker keeps of the sweep.
LEMMA LeaveCycleKeeps ==
    ASSUME TypeOK, NEW o, NEW outcome, LeaveCycle(o, outcome)
    PROVE  /\ sweep'.seq = sweep.seq /\ sweep'.ident = sweep.ident
           /\ sweep'.op = o /\ sweep'.outcome = outcome
           /\ activeStop' = NoStop /\ activeIdentity' = NoIdentity
BY DEF LeaveCycle, TypeOK, ThreadsTypeOK, Sweeps

\* The four ends of a cycle.
LEMMA CycleEnds ==
    ASSUME TypeOK, CompleteRound \/ CancelAfterSource \/ FailRequest \/ Retire
    PROVE  /\ sweep'.seq = sweep.seq /\ sweep'.ident = sweep.ident
           /\ activeStop' = NoStop /\ activeIdentity' = NoIdentity
           /\ pc[Worker] \in Capturing
           /\ pc'[Worker] \in {"settle", "detach"}
           /\ pc'[Stopper] = pc[Stopper]
BY WorkerGoes, LeaveCycleKeeps
DEF CompleteRound, CancelAfterSource, FailRequest, Retire, At, Capturing

LEMMA NextStopHandles ==
    ASSUME TypeOK, StopperLast, StopHandles, [Next]_vars
    PROVE  StopHandles'
<1> USE DistinctThreads, ThreadNames, WorkerGoes, StopperGoes, ClientGoes,
        SweepType
        DEF StopperLast, At, StopHandles, InCycle, Between, NoStop, Seqs
<1>1. CASE CheckStop
    BY <1>1 DEF CheckStop
<1>2. CASE PrepareCycle \/ WakeHeld
    BY <1>2, PrepareCycleLeads
<1>3. CASE BeginCapture
    BY <1>3, BeginCaptureSweep DEF BeginCapture
<1>4. CASE ObserveRange
    BY <1>4, ObserveRangeSweep DEF ObserveRange
<1>5. CASE SourceReturns \/ SourceThrows \/ BuildFails \/ ClaimPublication
           \/ Publish \/ Reject
    BY <1>5 DEF SourceReturns, SourceThrows, BuildFails, ClaimPublication,
       Publish, Reject
<1>6. CASE CompleteRound \/ CancelAfterSource \/ FailRequest \/ Retire
    BY <1>6, CycleEnds
<1>7. CASE SettleOperation \/ NextSweep \/ Finish
    BY <1>7 DEF SettleOperation, NextSweep, Finish, TypeOK, ThreadsTypeOK,
       Sweeps
<1>8. CASE \E t \in {Worker, Stopper} :
               CancelDetached(t) \/ FailTerminal(t) \/ FailSettle(t)
    BY <1>8 DEF CancelDetached, AfterDetach, FailTerminal, FailSettle
<1>9. CASE \E c \in Clients : PrepareRestart(c) \/ Settle(c)
    BY <1>9 DEF PrepareRestart, Settle, CancelDetached, SettleInvalidate,
       SettleSignal
<1>10. CASE (\E settings \in Settings : CommitConfiguration(settings))
            \/ ForeignCommit \/ SpuriousWake
    BY <1>10 DEF CommitConfiguration, ForeignCommit, SpuriousWake
<1>11. CASE StopCall \/ StopGate \/ StopRequestCancel \/ StopSignal
            \/ StopToken \/ StopNotify \/ StopJoin
    BY <1>11 DEF StopCall, StopGate, StopRequestCancel, StopSignal, StopToken,
       StopNotify, StopJoin, TypeOK, ThreadsTypeOK
<1>12. CASE UNCHANGED vars
    BY <1>12 DEF vars
<1> QED
    BY <1>1, <1>2, <1>3, <1>4, <1>5, <1>6, <1>7, <1>8, <1>9, <1>10, <1>11,
       <1>12
    DEF Next, WorkerNext, StopNext, Source

-------------------------------------------------------------------------------
(* The identity of the active sweep and the status.                         *)

\* The identity of the active sweep is that of the cycle, made from the plan
\* applied; nothing shows Hold in the meantime, so that no plan is applied.
IdentityStands ==
    /\ pc[Worker] \in Capturing =>
          /\ sweep.ident = [gen |-> plan.gen, seq |-> sweep.seq]
          /\ display.phase # "Hold"
    /\ activeIdentity # NoIdentity =>
          /\ activeIdentity = sweep.ident
          /\ activeIdentity.gen = plan.gen
          /\ display.phase # "Hold"
          /\ pc[Worker] \in Capturing \cup {"throw"}

\* A runtime that works shows Hold in Single mode only, and is not about to
\* begin a sweep then unless a request wants one.
HoldMeansRest ==
    state = "Running" /\ display.phase = "Hold" =>
        /\ plan.mode = "Single"
        /\ pc[Worker] = "start" => activeRequest # NoRequest

LEMMA BoundaryPhase ==
    ASSUME NEW hold \in BOOLEAN, NEW first
    PROVE  BoundaryView(hold, first).phase = IF hold THEN "Hold" ELSE "Preparing"
BY DEF BoundaryView, HoldView, PreparingView, View

LEMMA ApplyView ==
    ASSUME NEW p, Apply(p)
    PROVE  /\ plan' = p.plan
           /\ display'.phase =
                 IF p.plan.mode = "Single" THEN "Hold" ELSE "Preparing"
BY BoundaryPhase DEF Apply, InitialView

\* What the boundary does to the plan and to the view.
LEMMA PrepareCycleView ==
    ASSUME PrepareCycle
    PROVE  \/ UNCHANGED <<plan, pending, publicationVars, viewVars>>
           \/ /\ ~HasPending /\ plan.mode = "Single"
              /\ UNCHANGED <<plan, pending, publicationVars>>
              /\ ShowUpdate(HoldView(display.first))
           \/ HasPending /\ CommitAccepted(pending) /\ Apply(pending)
BY DEF PrepareCycle, AtBoundary, Resting, BoundaryPlan

\* A cycle begins in Continuous mode or for a request.
LEMMA EnterCycleStarts ==
    ASSUME TypeOK, NEW p, EnterCycle(p), pc'[Worker] = "start"
    PROVE  ~workerStop
BY WorkerGoes DEF EnterCycle

LEMMA PrepareCycleStarts ==
    ASSUME TypeOK, PrepareCycle, pc'[Worker] = "start"
    PROVE  plan'.mode = "Continuous" \/ activeRequest' # NoRequest
<1>1. /\ EnterCycle(BoundaryPlan) /\ AtBoundary
      /\ ~Resting \/ MayLeaveHold(BoundaryPlan)
    BY WorkerGoes DEF PrepareCycle
<1>2. plan' = BoundaryPlan
    BY <1>1 DEF AtBoundary, BoundaryPlan, Apply
<1>3. BoundaryPlan.mode \in Modes
    BY DEF TypeOK, PlansTypeOK, Plans, BoundaryPlan, HasPending
<1>4. CASE ~Resting
    BY <1>1, <1>2, <1>3, <1>4, EnterCycleLeads DEF Resting, Modes
<1>5. CASE Resting /\ MayLeaveHold(BoundaryPlan)
    BY <1>1, <1>2, <1>3, <1>5, EnterCycleLeads, EnterCycleStarts
    DEF MayLeaveHold, Modes
<1> QED
    BY <1>1, <1>4, <1>5

LEMMA WakeHeldStarts ==
    ASSUME TypeOK, WakeHeld, pc'[Worker] = "start"
    PROVE  plan'.mode = "Continuous" \/ activeRequest' # NoRequest
<1>1. EnterCycle(plan) /\ MayLeaveHold(plan)
    BY WorkerGoes DEF WakeHeld, At
<1> QED
    BY <1>1, EnterCycleLeads, EnterCycleStarts DEF MayLeaveHold, WakeHeld

LEMMA InFlight ==
    ASSUME TypeOK, StopHandles, InCycle
    PROVE  activeStop # NoStop
BY SweepType DEF TypeOK, StopHandles, NoStop, Seqs

\* A request whose sweep is about to begin stays in the runtime.
LEMMA StartKeepsRequest ==
    ASSUME TypeOK, StopHandles,
           StopGate \/ \E c \in Clients : PrepareRestart(c)
    PROVE  /\ UNCHANGED <<sweep, plan, display, state, activeIdentity,
                          activeStop>>
           /\ pc'[Worker] = pc[Worker]
           /\ InCycle => activeRequest' = activeRequest
<1>1. CASE StopGate
    BY <1>1, InFlight, StopperGoes DEF StopGate
<1>2. CASE \E c \in Clients : PrepareRestart(c)
    BY <1>2, InFlight, ClientGoes DEF PrepareRestart
<1> QED
    BY <1>1, <1>2

LEMMA NextIdentity ==
    ASSUME TypeOK, StopperLast, StopHandles, IdentityStands, HoldMeansRest,
           [Next]_vars
    PROVE  IdentityStands' /\ HoldMeansRest'
<1> USE DistinctThreads, ThreadNames, WorkerGoes, StopperGoes, ClientGoes,
        SweepType
        DEF At, IdentityStands, HoldMeansRest, Capturing
<1>1. CASE CheckStop \/ SourceThrows \/ BuildFails
    BY <1>1 DEF CheckStop, SourceThrows, BuildFails
<1>2. CASE ClaimPublication \/ Publish \/ SettleOperation
    BY <1>2 DEF ClaimPublication, Publish, SettleOperation
<1>3. CASE PrepareCycle
    BY <1>3, PrepareCycleLeads, PrepareCycleView, PrepareCycleStarts, ApplyView
    DEF ShowUpdate, HoldView, View
<1>4. CASE WakeHeld
    BY <1>4, PrepareCycleLeads, WakeHeldStarts DEF WakeHeld
<1>5. CASE BeginCapture
    BY <1>5, BeginCaptureSweep
    DEF BeginCapture, ShowUpdate, CaptureView, View
<1>6. CASE ObserveRange
  <2>1. display' = display \/ display'.phase = "Sweeping"
      BY <1>6 DEF ObserveRange, ShowUpdate, ShowInvalidate, View
  <2>2. pc' = pc /\ UNCHANGED <<plan, activeIdentity, state, activeRequest>>
      BY <1>6 DEF ObserveRange
  <2> QED
      BY <1>6, <2>1, <2>2, ObserveRangeSweep
<1>7. CASE SourceReturns
    BY <1>7 DEF SourceReturns, ShowUpdate, View
<1>8. CASE CompleteRound \/ CancelAfterSource
    BY <1>8, CycleEnds, BoundaryPhase
    DEF CompleteRound, CancelAfterSource, ShowInvalidate
<1>9. CASE Reject \/ FailRequest
    BY <1>9, CycleEnds DEF Reject, FailRequest, ShowInvalidate, View
<1>10. CASE NextSweep
    BY <1>10 DEF NextSweep, StopHandles, TypeOK, ThreadsTypeOK, Sweeps
<1>11. CASE Retire \/ Finish
    BY <1>11, CycleEnds DEF Retire, Finish
<1>12. CASE \E t \in {Worker, Stopper} : FailTerminal(t) \/ FailSettle(t)
    BY <1>12 DEF FailTerminal, FailSettle, StopperLast, ShowUpdate,
       ShowInvalidate, View
<1>13. CASE \E t \in {Worker, Stopper} : CancelDetached(t)
    BY <1>13 DEF CancelDetached, AfterDetach
<1>14. CASE \E c \in Clients : PrepareRestart(c)
    BY <1>14, StartKeepsRequest DEF InCycle
<1>15. CASE \E c \in Clients : Settle(c)
    BY <1>15 DEF Settle, CancelDetached, SettleInvalidate, SettleSignal,
       ShowInvalidate, PreparingView, View
<1>16. CASE \E settings \in Settings : CommitConfiguration(settings)
    BY <1>16, ApplyView DEF CommitConfiguration, AtHold
<1>17. CASE ForeignCommit \/ SpuriousWake
    BY <1>17 DEF ForeignCommit, SpuriousWake
<1>18. CASE StopGate
    BY <1>18, StartKeepsRequest DEF InCycle
<1>19. CASE StopCall \/ StopRequestCancel \/ StopSignal \/ StopToken
            \/ StopNotify \/ StopJoin
    BY <1>19 DEF StopCall, StopRequestCancel, StopSignal, StopToken,
       StopNotify, StopJoin, TypeOK, ThreadsTypeOK
<1>20. CASE UNCHANGED vars
    BY <1>20 DEF vars
<1> QED
    BY <1>1, <1>2, <1>3, <1>4, <1>5, <1>6, <1>7, <1>8, <1>9, <1>10, <1>11,
       <1>12, <1>13, <1>14, <1>15, <1>16, <1>17, <1>18, <1>19, <1>20
    DEF Next, WorkerNext, StopNext, Source, Settle

-------------------------------------------------------------------------------
(* The retained frame set.                                                  *)

\* What becomes of the frame set in a step.
LEMMA ApplyPublication ==
    ASSUME NEW p, CommitAccepted(p), Apply(p)
    PROVE  \/ repository' = repository /\ catalog'.gen = catalog.gen
           \/ /\ repository' = [gen |-> catalog.gen + 1, frame |-> NoFrame]
              /\ catalog'.gen = catalog.gen + 1
BY DEF CommitAccepted, Apply, AdvancedRepository

LEMMA FrameSteps ==
    ASSUME [Next]_vars
    PROVE  \/ repository' = repository /\ catalog'.gen = catalog.gen
           \/ /\ repository' = [gen |-> catalog.gen + 1, frame |-> NoFrame]
              /\ catalog'.gen = catalog.gen + 1
           \/ Publish
<1>1. CASE PrepareCycle
    BY <1>1, PrepareCycleView, ApplyPublication
<1>2. CASE \E settings \in Settings : CommitConfiguration(settings)
    BY <1>2, ApplyPublication DEF CommitConfiguration
<1>3. CASE ForeignCommit
    BY <1>3 DEF ForeignCommit
<1>4. CASE CheckStop \/ WakeHeld \/ BeginCapture \/ Source \/ BuildFails
    BY <1>4 DEF CheckStop, WakeHeld, BeginCapture, Source, ObserveRange,
       SourceReturns, SourceThrows, BuildFails
<1>5. CASE ClaimPublication \/ CompleteRound \/ CancelAfterSource \/ Reject
           \/ FailRequest \/ SettleOperation \/ NextSweep \/ Retire \/ Finish
    BY <1>5 DEF ClaimPublication, CompleteRound, CancelAfterSource, Reject,
       FailRequest, SettleOperation, NextSweep, Retire, Finish
<1>6. CASE \E t \in {Worker, Stopper} :
               CancelDetached(t) \/ FailTerminal(t) \/ FailSettle(t)
    BY <1>6 DEF CancelDetached, FailTerminal, FailSettle
<1>7. CASE \E c \in Clients : PrepareRestart(c) \/ Settle(c)
    BY <1>7 DEF PrepareRestart, Settle, CancelDetached, SettleInvalidate,
       SettleSignal
<1>8. CASE SpuriousWake \/ StopCall \/ StopGate \/ StopRequestCancel
           \/ StopSignal \/ StopToken \/ StopNotify \/ StopJoin
    BY <1>8 DEF SpuriousWake, StopCall, StopGate, StopRequestCancel,
       StopSignal, StopToken, StopNotify, StopJoin
<1>9. CASE UNCHANGED vars
    BY <1>9 DEF vars
<1> QED
    BY <1>1, <1>2, <1>3, <1>4, <1>5, <1>6, <1>7, <1>8, <1>9
    DEF Next, WorkerNext, StopNext

\* Two steps change the plan.
LEMMA PlanSteps ==
    ASSUME [Next]_vars
    PROVE  \/ UNCHANGED <<plan, pending, configured>>
           \/ PrepareCycle
           \/ \E settings \in Settings : CommitConfiguration(settings)
<1>1. CASE CheckStop \/ WakeHeld \/ BeginCapture \/ Source \/ BuildFails
    BY <1>1 DEF CheckStop, WakeHeld, BeginCapture, Source, ObserveRange,
       SourceReturns, SourceThrows, BuildFails
<1>2. CASE ClaimPublication \/ Publish \/ CompleteRound \/ CancelAfterSource
           \/ Reject \/ FailRequest \/ SettleOperation \/ NextSweep \/ Retire
           \/ Finish
    BY <1>2 DEF ClaimPublication, Publish, CompleteRound, CancelAfterSource,
       Reject, FailRequest, SettleOperation, NextSweep, Retire, Finish
<1>3. CASE \E t \in {Worker, Stopper} :
               CancelDetached(t) \/ FailTerminal(t) \/ FailSettle(t)
    BY <1>3 DEF CancelDetached, FailTerminal, FailSettle
<1>4. CASE \E c \in Clients : PrepareRestart(c) \/ Settle(c)
    BY <1>4 DEF PrepareRestart, Settle, CancelDetached, SettleInvalidate,
       SettleSignal
<1>5. CASE ForeignCommit \/ SpuriousWake \/ StopCall \/ StopGate
           \/ StopRequestCancel \/ StopSignal \/ StopToken \/ StopNotify
           \/ StopJoin
    BY <1>5 DEF ForeignCommit, SpuriousWake, StopCall, StopGate,
       StopRequestCancel, StopSignal, StopToken, StopNotify, StopJoin
<1>6. CASE UNCHANGED vars
    BY <1>6 DEF vars
<1> QED
    BY <1>1, <1>2, <1>3, <1>4, <1>5, <1>6 DEF Next, WorkerNext, StopNext

\* The steps of the worker before its cycle has published.
Early == {"loop", "prepare", "held", "start", "source", "claim", "publish"}

\* Only the next cycle takes the worker back to them, with a number of its own.
LEMMA SweepSteps ==
    ASSUME TypeOK, [Next]_vars
    PROVE  \/ /\ sweep'.seq = sweep.seq
              /\ pc'[Worker] \in Early => pc[Worker] \in Early
           \/ NextSweep /\ sweep'.seq = sweep.seq + 1
<1> USE DistinctThreads, ThreadNames, WorkerGoes, StopperGoes, ClientGoes
        DEF At, Early
<1>1. CASE CheckStop \/ SourceThrows \/ SourceReturns \/ BuildFails
           \/ ClaimPublication \/ Publish \/ Reject \/ Finish
           \/ SettleOperation
    BY <1>1 DEF CheckStop, SourceThrows, SourceReturns, BuildFails,
       ClaimPublication, Publish, Reject, Finish, SettleOperation
<1>2. CASE PrepareCycle \/ WakeHeld
    BY <1>2, PrepareCycleLeads
<1>3. CASE BeginCapture
    BY <1>3, BeginCaptureSweep DEF BeginCapture
<1>4. CASE ObserveRange
    BY <1>4, ObserveRangeSweep DEF ObserveRange
<1>5. CASE CompleteRound \/ CancelAfterSource \/ FailRequest \/ Retire
    BY <1>5, CycleEnds
<1>6. CASE NextSweep
    BY <1>6, NextSweepLeads
<1>7. CASE \E t \in {Worker, Stopper} :
               CancelDetached(t) \/ FailTerminal(t) \/ FailSettle(t)
    BY <1>7 DEF CancelDetached, AfterDetach, FailTerminal, FailSettle
<1>8. CASE \E c \in Clients : PrepareRestart(c) \/ Settle(c)
    BY <1>8 DEF PrepareRestart, Settle, CancelDetached, SettleInvalidate,
       SettleSignal
<1>9. CASE (\E settings \in Settings : CommitConfiguration(settings))
           \/ ForeignCommit \/ SpuriousWake
    BY <1>9 DEF CommitConfiguration, ForeignCommit, SpuriousWake
<1>10. CASE StopCall \/ StopGate \/ StopRequestCancel \/ StopSignal
            \/ StopToken \/ StopNotify \/ StopJoin
    BY <1>10 DEF StopCall, StopGate, StopRequestCancel, StopSignal, StopToken,
       StopNotify, StopJoin, TypeOK, ThreadsTypeOK
<1>11. CASE UNCHANGED vars
    BY <1>11 DEF vars
<1> QED
    BY <1>1, <1>2, <1>3, <1>4, <1>5, <1>6, <1>7, <1>8, <1>9, <1>10, <1>11
    DEF Next, WorkerNext, StopNext, Source

\* The retained frame set is of the catalog's generation and of an earlier
\* sweep, or of this one once it has published.
FramesStand ==
    /\ repository.gen = catalog.gen
    /\ FrameIsCurrent
    /\ repository.frame.seq <= sweep.seq
    /\ pc[Worker] \in Early => repository.frame.seq < sweep.seq

LEMMA PublishFrame ==
    ASSUME TypeOK, Publish
    PROVE  /\ pc[Worker] = "publish"
           /\ pc'[Worker] \in {"retire", "reject", "complete"}
           /\ UNCHANGED <<catalog, plan, sweep, discarded>>
           /\ \/ repository' = repository /\ UNCHANGED rounds
              \/ /\ plan.gen = catalog.gen
                 /\ repository' = [gen |-> repository.gen, frame |->
                      [gen |-> plan.gen, rev |-> plan.rev, seq |-> sweep.seq]]
                 /\ pc'[Worker] = "complete"
BY WorkerGoes
DEF Publish, At, PublicationCurrent, TypeOK, PlansTypeOK, Repositories

LEMMA NextFrames ==
    ASSUME TypeOK, FramesStand, [Next]_vars
    PROVE  FramesStand'
<1>1. sweep.seq \in Nat \ {0} /\ repository.frame.seq \in Nat
    BY SweepType DEF TypeOK, PlansTypeOK, Repositories, Seqs
<1>2. CASE Publish
    BY <1>1, <1>2, PublishFrame DEF FramesStand, FrameIsCurrent, Early
<1>3. CASE repository' = repository /\ catalog'.gen = catalog.gen
    BY <1>1, <1>3, SweepSteps DEF FramesStand, FrameIsCurrent
<1>4. CASE /\ repository' = [gen |-> catalog.gen + 1, frame |-> NoFrame]
           /\ catalog'.gen = catalog.gen + 1
    BY <1>1, <1>4, SweepSteps DEF FramesStand, FrameIsCurrent, NoFrame
<1> QED
    BY <1>2, <1>3, <1>4, FrameSteps

\* A sweep that a Restart or stop has discarded is canceled, whatever the
\* worker does with it, unless it has claimed its publication before.
DiscardsStand ==
    /\ \A s \in discarded : s <= sweep.seq
    /\ pc[Worker] \in {"loop", "prepare", "held"} => sweep.seq \notin discarded
    /\ pc[Worker] \in {"start", "source", "claim"} /\ sweep.seq \in discarded
          => cycleCancel
    /\ pc[Worker] = "publish" => sweep.seq \notin discarded /\ finalizing

LEMMA NextDiscards ==
    ASSUME TypeOK, StopperLast, StopHandles, DiscardsStand, [Next]_vars
    PROVE  DiscardsStand'
<1> USE DistinctThreads, ThreadNames, WorkerGoes, StopperGoes, ClientGoes
        DEF At, DiscardsStand
<1>0. sweep.seq \in Nat /\ discarded \subseteq Nat /\ sweep.seq # NoStop
    BY SweepType DEF TypeOK, HistoryTypeOK, Seqs, NoStop
<1>1. CASE CheckStop \/ SourceThrows \/ SourceReturns \/ BuildFails
           \/ Reject \/ Finish \/ SettleOperation
    BY <1>1 DEF CheckStop, SourceThrows, SourceReturns, BuildFails, Reject,
       Finish, SettleOperation
<1>2. CASE ClaimPublication
  <2>1. pc'[Worker] = "publish" => ~cycleCancel /\ finalizing'
    <3>1. CASE cycleCancel
        BY <1>2, <3>1 DEF ClaimPublication, MayPublish
    <3>2. CASE ~cycleCancel
        BY <1>2, <3>2 DEF ClaimPublication, MayPublish
    <3> QED
        BY <3>1, <3>2
  <2>2. /\ pc[Worker] = "claim" /\ pc'[Worker] \in {"publish", "cancel"}
        /\ UNCHANGED <<sweep, discarded>>
      BY <1>2 DEF ClaimPublication
  <2> QED
      BY <2>1, <2>2
<1>3. CASE Publish
    BY <1>3, PublishFrame
<1>4. CASE PrepareCycle \/ WakeHeld
    BY <1>4, PrepareCycleLeads
<1>5. CASE BeginCapture
    BY <1>5, BeginCaptureSweep DEF BeginCapture
<1>6. CASE ObserveRange
    BY <1>6, ObserveRangeSweep DEF ObserveRange
<1>7. CASE CompleteRound \/ CancelAfterSource \/ FailRequest \/ Retire
    BY <1>7, CycleEnds
    DEF CompleteRound, CancelAfterSource, FailRequest, Retire
<1>8. CASE NextSweep
  <2>1. discarded' = discarded
      BY <1>8 DEF NextSweep
  <2>2. \A s \in discarded : s < sweep.seq + 1 /\ s # sweep.seq + 1
      BY <1>0
  <2> QED
      BY <1>0, <1>8, <2>1, <2>2, NextSweepLeads
<1>9. CASE \E t \in {Worker, Stopper} :
               CancelDetached(t) \/ FailTerminal(t) \/ FailSettle(t)
    BY <1>9 DEF CancelDetached, AfterDetach, FailTerminal, FailSettle,
       StopperLast
<1>10. CASE StopGate \/ \E c \in Clients : PrepareRestart(c)
  <2>1. pc'[Worker] = pc[Worker] /\ sweep' = sweep /\ finalizing' = finalizing
      BY <1>10 DEF StopGate, PrepareRestart
  <2>2. \/ UNCHANGED <<discarded, cycleCancel>>
        \/ discarded' = Replaced /\ cycleCancel' = (activeStop # NoStop)
      BY <1>10 DEF StopGate, PrepareRestart
  <2>3. /\ activeStop \in {NoStop, sweep.seq}
        /\ pc[Worker] \in {"start", "source", "claim"} => activeStop # NoStop
        /\ pc[Worker] \in {"loop", "prepare", "held"} => activeStop = NoStop
      BY <1>0 DEF StopHandles, InCycle, Between
  <2> QED
    <3>1. CASE UNCHANGED <<discarded, cycleCancel>>
        BY <2>1, <3>1
    <3>2. CASE discarded' = Replaced /\ cycleCancel' = (activeStop # NoStop)
      <4>1. discarded' \subseteq discarded \cup ({activeStop} \ {NoStop})
          BY <3>2 DEF Replaced
      <4>2. finalizing => discarded' = discarded
          BY <3>2 DEF Replaced
      <4>3. activeStop # NoStop => cycleCancel'
          BY <3>2
      <4>4. \A s \in discarded' : s <= sweep.seq
          BY <1>0, <2>3, <4>1
      <4>5. pc[Worker] \in {"loop", "prepare", "held"} => discarded' = discarded
          BY <2>3, <3>2 DEF Replaced
      <4> QED
          BY <2>1, <2>3, <4>2, <4>3, <4>4, <4>5
    <3> QED
        BY <2>2, <3>1, <3>2
<1>11. CASE \E c \in Clients : Settle(c)
    BY <1>11 DEF Settle, CancelDetached, SettleInvalidate, SettleSignal
<1>12. CASE (\E settings \in Settings : CommitConfiguration(settings))
           \/ ForeignCommit \/ SpuriousWake
    BY <1>12 DEF CommitConfiguration, ForeignCommit, SpuriousWake
<1>13. CASE StopCall \/ StopRequestCancel \/ StopSignal
            \/ StopToken \/ StopNotify \/ StopJoin
    BY <1>13 DEF StopCall, StopRequestCancel, StopSignal, StopToken,
       StopNotify, StopJoin, TypeOK, ThreadsTypeOK
<1>14. CASE UNCHANGED vars
    BY <1>14 DEF vars
<1> QED
    BY <1>1, <1>2, <1>3, <1>4, <1>5, <1>6, <1>7, <1>8, <1>9, <1>10, <1>11,
       <1>12, <1>13, <1>14
    DEF Next, WorkerNext, StopNext, Source

-------------------------------------------------------------------------------
(* The invariant and what follows from it.                                  *)

CycleInv == /\ StopperLast /\ StopHandles /\ IdentityStands /\ HoldMeansRest
            /\ FramesStand /\ DiscardsStand

LEMMA InitCycle ==
    ASSUME Init
    PROVE  CycleInv
<1>1. StopperLast /\ StopHandles
    BY DistinctThreads, ThreadNames
    DEF Init, StopperLast, StopHandles, InCycle, Between
<1>2. IdentityStands /\ HoldMeansRest
  <2>1. display.phase = IF plan.mode = "Single" THEN "Hold" ELSE "Preparing"
      BY BoundaryPhase DEF Init, InitialView
  <2>2. plan.mode \in Modes
      BY InitType DEF TypeOK, PlansTypeOK, Plans
  <2>3. pc[Worker] = "loop" /\ activeIdentity = NoIdentity
      BY ThreadNames DEF Init
  <2> QED
      BY <2>1, <2>2, <2>3 DEF IdentityStands, HoldMeansRest, Capturing
<1>3. FramesStand /\ DiscardsStand
    BY ThreadNames
    DEF Init, HistoryInit, FramesStand, FrameIsCurrent, DiscardsStand, NoFrame
<1> QED
    BY <1>1, <1>2, <1>3 DEF CycleInv

LEMMA NextCycle ==
    ASSUME TypeOK, CycleInv, [Next]_vars
    PROVE  CycleInv'
BY NextStopperLast, NextStopHandles, NextIdentity, NextFrames, NextDiscards
DEF CycleInv

LEMMA CycleCorrect == Spec => [](TypeOK /\ CycleInv)
<1>1. Init => TypeOK /\ CycleInv
    BY InitType, InitCycle
<1>2. TypeOK /\ CycleInv /\ [Next]_vars => (TypeOK /\ CycleInv)'
    BY NextType, NextCycle
<1> QED
    BY <1>1, <1>2, PTL DEF Spec

\* Nobody ever finds a frame set of an earlier generation in the repository,
\* whoever advances the generation and whenever (publishIfCurrent compares
\* under the catalog's gate, trace_publication_catalog.cpp).
THEOREM FrameCurrent == Spec => []FrameIsCurrent
<1>1. CycleInv => FrameIsCurrent
    BY DEF CycleInv, FramesStand
<1> QED
    BY <1>1, CycleCorrect, PTL

\* A sweep that a Restart or stop replaced before it claimed its publication
\* never publishes (claimPublication in sweep_runtime_worker.cpp).
THEOREM DiscardedQuiet == Spec => DiscardedNeverPublished
<1>1. TypeOK /\ CycleInv /\ [Next]_vars =>
          (repository'.frame # repository.frame /\ repository'.frame # NoFrame
             => repository'.frame.seq \notin discarded)
  <2> SUFFICES ASSUME TypeOK, CycleInv, [Next]_vars,
                      repository'.frame # repository.frame,
                      repository'.frame # NoFrame
               PROVE  repository'.frame.seq \notin discarded
      OBVIOUS
  <2>1. Publish
      BY FrameSteps
  <2> QED
      BY <2>1, PublishFrame DEF CycleInv, DiscardsStand
<1> QED
    BY <1>1, CycleCorrect, PTL DEF Spec, DiscardedNeverPublished

\* What run and capture read of plan_ without the mutex does not change under
\* them: a configuration is applied between two sweeps only
\* (commitConfiguration in sweep_runtime_configuration.cpp).
THEOREM PlanStable == Spec => PlanStableDuringSweep
<1>1. TypeOK /\ CycleInv /\ [Next]_vars => (InCycle => plan' = plan)
  <2> SUFFICES ASSUME TypeOK, CycleInv, [Next]_vars, InCycle, plan' # plan
               PROVE  FALSE
      OBVIOUS
  <2>1. PICK settings \in Settings : CommitConfiguration(settings)
      BY PlanSteps, PrepareCycleLeads DEF InCycle
  <2>2. AtHold /\ state = "Running"
      BY <2>1 DEF CommitConfiguration
  <2>3. pc[Worker] = "start"
      BY <2>2 DEF AtHold, CycleInv, IdentityStands, InCycle, Capturing
  <2> QED
      BY <2>2, <2>3 DEF AtHold, CycleInv, HoldMeansRest
<1> QED
    BY <1>1, CycleCorrect, PTL DEF Spec, PlanStableDuringSweep

\* The last complete frame set gives way only to that of a later sweep, taken
\* under the plan that sweep began with, or to a new generation: not to a
\* canceled, failed or replaced sweep
\* (docs/adr/0009-multiport-continuous-display.md).
THEOREM CompleteRetained == Spec => LastCompleteRetained
<1>1. TypeOK /\ CycleInv /\ [Next]_vars =>
          (repository'.frame # repository.frame =>
             \/ repository'.gen > repository.gen
             \/ /\ repository'.frame.seq > repository.frame.seq
                /\ repository'.frame.gen = sweep.ident.gen
                /\ repository'.frame.rev = plan.rev)
  <2> SUFFICES ASSUME TypeOK, CycleInv, [Next]_vars,
                      repository'.frame # repository.frame
               PROVE  \/ repository'.gen > repository.gen
                      \/ /\ repository'.frame.seq > repository.frame.seq
                         /\ repository'.frame.gen = sweep.ident.gen
                         /\ repository'.frame.rev = plan.rev
      OBVIOUS
  <2>1. repository.gen = catalog.gen /\ catalog.gen \in Nat
      BY DEF CycleInv, FramesStand, TypeOK, PlansTypeOK, Seqs
  <2>2. CASE Publish
    <3>1. pc[Worker] = "publish" /\ repository.frame.seq < sweep.seq
          /\ sweep.ident.gen = plan.gen
        BY <2>2, PublishFrame
        DEF CycleInv, FramesStand, Early, IdentityStands, Capturing
    <3>2. repository.frame.seq \in Nat /\ sweep.seq \in Nat
        BY SweepType DEF TypeOK, PlansTypeOK, Repositories
    <3> QED
        BY <2>2, <3>1, <3>2, PublishFrame
  <2>3. CASE ~Publish
      BY <2>1, <2>3, FrameSteps
  <2> QED
      BY <2>2, <2>3
<1> QED
    BY <1>1, CycleCorrect, PTL DEF Spec, LastCompleteRetained

-------------------------------------------------------------------------------
(* Frame sets published for an Operation.                                   *)

\* The count of an Operation that has succeeded, and of the active one.
RoundsAgree ==
    \A o \in OpIds :
        /\ ops[o] = "Succeeded" => rounds[o] = goal[o]
        /\ o = activeRequest.op =>
             rounds[o] + activeRequest.left =
                 goal[o] + (IF pc[Worker] = "complete" THEN 1 ELSE 0)

\* Nothing was published for an Operation that has not run.
NothingYet == \A o \in OpIds : ops[o] \in {"Absent", "Queued"} => rounds[o] = 0

\* An Operation the worker is about to complete as Succeeded has had its sweeps.
EnoughToSucceed ==
    pc[Worker] = "settle" /\ sweep.op # NoOp /\ sweep.outcome = "Succeeded"
        => rounds[sweep.op] = goal[sweep.op]

RoundsInv == RoundsAgree /\ NothingYet /\ EnoughToSucceed

\* A step in which no Operation succeeds or is queued and nothing is published.
LEMMA RoundsStay ==
    ASSUME TypeOK, RoundsInv, UNCHANGED <<rounds, goal>>,
           \A o \in OpIds :
               \/ ops'[o] = ops[o]
               \/ ops'[o] \in {"Running", "CancelRequested", "Failed",
                               "Canceled"},
           activeRequest' = activeRequest \/ activeRequest' = NoRequest,
           pc'[Worker] = "complete" <=> pc[Worker] = "complete",
           pc'[Worker] = "settle" => pc[Worker] = "settle" /\ sweep' = sweep
    PROVE  RoundsInv'
<1>1. NothingYet' /\ EnoughToSucceed'
    BY DEF RoundsInv, NothingYet, EnoughToSucceed
<1>2. NoOp \notin OpIds
    BY BoundsAssumption DEF OpIds, NoOp
<1>3. RoundsAgree'
    BY <1>2 DEF RoundsInv, RoundsAgree, NoRequest
<1> QED
    BY <1>1, <1>3 DEF RoundsInv

LEMMA PublishRounds ==
    ASSUME TypeOK, HeldInv, RoundsInv, Publish
    PROVE  RoundsInv'
<1>1. /\ UNCHANGED <<ops, goal, activeRequest, sweep>>
      /\ pc[Worker] = "publish"
      /\ \/ pc'[Worker] \in {"retire", "reject"} /\ rounds' = rounds
         \/ /\ pc'[Worker] = "complete"
            /\ rounds' = [o \in OpIds |-> IF o = activeRequest.op
                                        THEN rounds[o] + 1 ELSE rounds[o]]
    BY WorkerGoes DEF Publish, At
<1>2. CASE pc'[Worker] # "complete"
    BY <1>1, <1>2, RoundsStay
<1>3. CASE pc'[Worker] = "complete"
  <2>1. \A o \in OpIds : rounds[o] \in Nat /\ goal[o] \in Nat
      BY DEF TypeOK, HistoryTypeOK
  <2>2. \A o \in OpIds : o = activeRequest.op =>
            ops[o] \in {"Running", "CancelRequested"}
      BY BoundsAssumption
      DEF HeldInv, HeldOperations, NoRequest, NoOp, OpIds
  <2>3. activeRequest.left \in Nat
      BY DEF TypeOK, RequestsTypeOK, Requests, NoRequest, Seqs
  <2>4. \A o \in OpIds : rounds'[o] = IF o = activeRequest.op
                                     THEN rounds[o] + 1 ELSE rounds[o]
      BY <1>1, <1>3
  <2>5. NothingYet' /\ EnoughToSucceed'
      BY <1>1, <1>3, <2>2, <2>4 DEF RoundsInv, NothingYet, EnoughToSucceed
  <2>6. RoundsAgree'
      BY <1>1, <1>3, <2>1, <2>2, <2>3, <2>4 DEF RoundsInv, RoundsAgree
  <2> QED
      BY <2>5, <2>6 DEF RoundsInv
<1> QED
    BY <1>2, <1>3

\* One round less, or the request is complete with all its rounds.
LEMMA CompleteRoundRounds ==
    ASSUME TypeOK, RoundsInv, CompleteRound
    PROVE  RoundsInv'
<1>1. /\ UNCHANGED <<ops, rounds, goal>>
      /\ pc[Worker] = "complete" /\ pc'[Worker] = "settle"
    BY WorkerGoes DEF CompleteRound, At
<1>2. \/ /\ activeRequest = NoRequest \/ activeRequest.left = 1
         /\ activeRequest' = NoRequest
         /\ sweep'.op = activeRequest.op
      \/ /\ activeRequest' =
               [activeRequest EXCEPT !.left = activeRequest.left - 1]
         /\ activeRequest # NoRequest
         /\ sweep'.op = NoOp
    BY LeaveCycleKeeps
    DEF CompleteRound, TypeOK, RequestsTypeOK, Requests, NoRequest, Seqs
<1>3. NoOp \notin OpIds
    BY BoundsAssumption DEF OpIds, NoOp
<1>4. \A o \in OpIds : rounds[o] \in Nat /\ goal[o] \in Nat
    BY DEF TypeOK, HistoryTypeOK
<1>5. CASE activeRequest = NoRequest
    BY <1>1, <1>2, <1>3, <1>5
    DEF RoundsInv, RoundsAgree, NothingYet, EnoughToSucceed, NoRequest
<1>6. CASE activeRequest # NoRequest
  <2>1. activeRequest \in Requests
      BY <1>6 DEF TypeOK, RequestsTypeOK
  <2>2. activeRequest.op \in OpIds /\ activeRequest.left \in Nat
        /\ rounds[activeRequest.op] + activeRequest.left
               = goal[activeRequest.op] + 1
      BY <1>1, <2>1 DEF RoundsInv, RoundsAgree, Requests, Seqs
  <2>3. CASE activeRequest' = NoRequest /\ sweep'.op = activeRequest.op
             /\ activeRequest.left = 1
      BY <1>1, <1>3, <1>4, <2>2, <2>3
      DEF RoundsInv, RoundsAgree, NothingYet, EnoughToSucceed, NoRequest
  <2>4. CASE /\ activeRequest' =
                  [activeRequest EXCEPT !.left = activeRequest.left - 1]
             /\ sweep'.op = NoOp
    <3>1. activeRequest'.op = activeRequest.op
          /\ activeRequest'.left = activeRequest.left - 1
        BY <2>1, <2>4 DEF Requests
    <3> QED
        BY <1>1, <1>3, <1>4, <2>2, <2>4, <3>1
        DEF RoundsInv, RoundsAgree, NothingYet, EnoughToSucceed
  <2> QED
      BY <1>2, <1>6, <2>3, <2>4
<1> QED
    BY <1>5, <1>6

\* A cycle that ends otherwise succeeds in nothing.
LEMMA CancelOrFailRounds ==
    ASSUME TypeOK, RoundsInv, CancelAfterSource \/ FailRequest
    PROVE  RoundsInv'
<1>1. /\ UNCHANGED <<ops, rounds, goal>>
      /\ activeRequest' = NoRequest
      /\ pc'[Worker] = "settle" /\ sweep'.outcome # "Succeeded"
    BY WorkerGoes, LeaveCycleKeeps DEF CancelAfterSource, FailRequest
<1>2. NoOp \notin OpIds
    BY BoundsAssumption DEF OpIds, NoOp
<1> QED
    BY <1>1, <1>2
    DEF RoundsInv, RoundsAgree, NothingYet, EnoughToSucceed, NoRequest

LEMMA SettleOperationRounds ==
    ASSUME TypeOK, RoundsInv, SettleOperation
    PROVE  RoundsInv'
<1>1. UNCHANGED <<rounds, goal, activeRequest, sweep>> /\ pc[Worker] = "settle"
    BY DEF SettleOperation, At
<1>2. CASE UNCHANGED ops /\ pc'[Worker] = "throw"
    BY <1>1, <1>2, RoundsStay
<1>3. CASE /\ ops' = [o \in OpIds |->
                         IF o = sweep.op THEN sweep.outcome ELSE ops[o]]
           /\ pc'[Worker] = "next"
  <2>1. sweep.outcome \in Terminal /\ NoOp \notin OpIds
      BY SweepType, BoundsAssumption DEF TypeOK, OpIds, NoOp
  <2>2. NothingYet' /\ EnoughToSucceed'
      BY <1>1, <1>3, <2>1 DEF RoundsInv, NothingYet, EnoughToSucceed, Terminal
  <2>3. RoundsAgree'
      BY <1>1, <1>3, <2>1 DEF RoundsInv, RoundsAgree, EnoughToSucceed
  <2> QED
      BY <2>2, <2>3 DEF RoundsInv
<1> QED
    BY <1>2, <1>3, WorkerGoes DEF SettleOperation

LEMMA PrepareRestartRounds ==
    ASSUME TypeOK, RoundsInv, NEW c \in Clients, PrepareRestart(c)
    PROVE  RoundsInv'
<1>1. PICK o \in OpIds :
          /\ Unused(o)
          /\ ops' = [p \in OpIds |->
                        IF p = o THEN "Queued"
                        ELSE IF p = CanceledInFlight THEN "CancelRequested"
                        ELSE ops[p]]
    BY DEF PrepareRestart
<1>2. /\ UNCHANGED <<rounds, goal, sweep>> /\ pc'[Worker] = pc[Worker]
      /\ activeRequest' = activeRequest \/ activeRequest' = NoRequest
    BY ClientGoes DEF PrepareRestart
<1>3. NoOp \notin OpIds
    BY BoundsAssumption DEF OpIds, NoOp
<1>4. NothingYet'
    BY <1>1, <1>2 DEF RoundsInv, NothingYet, Unused
<1>5. EnoughToSucceed' /\ RoundsAgree'
    BY <1>1, <1>2, <1>3
    DEF RoundsInv, EnoughToSucceed, RoundsAgree, NoRequest
<1> QED
    BY <1>4, <1>5 DEF RoundsInv

\* A promoted Operation starts with nothing published and all its rounds left.
LEMMA EnterCycleRounds ==
    ASSUME TypeOK, HeldInv, RoundsInv, NEW p \in Plans, EnterCycle(p),
           pc[Worker] \in {"prepare", "held"}, UNCHANGED <<sweep, rounds>>
    PROVE  RoundsInv'
<1>1. pc'[Worker] \in {"finish", "throw", "start"}
    BY EnterCycleLeads
<1>2. CASE UNCHANGED <<ops, requestVars, goal>>
    BY <1>1, <1>2, RoundsStay
<1>3. CASE /\ pendingOp # NoOp
           /\ ops' = [ops EXCEPT ![pendingOp] = "Running"]
           /\ activeRequest' = [op |-> pendingOp, left |-> RoundsOf(p)]
           /\ goal' = [goal EXCEPT ![pendingOp] =
                          IF p.mode = "Single" THEN p.count ELSE 1]
  <2>1. pendingOp \in OpIds /\ ops[pendingOp] = "Queued"
      BY <1>3 DEF TypeOK, RequestsTypeOK, HeldInv, HeldOperations
  <2>2. rounds[pendingOp] = 0
      BY <2>1 DEF RoundsInv, NothingYet
  <2>3. /\ ops'[pendingOp] = "Running" /\ goal'[pendingOp] = RoundsOf(p)
        /\ \A o \in OpIds \ {pendingOp} : ops'[o] = ops[o] /\ goal'[o] = goal[o]
      BY <1>3, <2>1 DEF TypeOK, RequestsTypeOK, HistoryTypeOK, RoundsOf
  <2>4. NothingYet' /\ EnoughToSucceed'
      BY <1>1, <2>3 DEF RoundsInv, NothingYet, EnoughToSucceed
  <2>5. RoundsAgree'
    <3> SUFFICES ASSUME NEW o \in OpIds
                 PROVE  /\ ops'[o] = "Succeeded" => rounds'[o] = goal'[o]
                        /\ o = activeRequest'.op =>
                              rounds'[o] + activeRequest'.left = goal'[o] + 0
        BY <1>1 DEF RoundsAgree
    <3>1. activeRequest'.op = pendingOp /\ activeRequest'.left = RoundsOf(p)
        BY <1>3
    <3>2. 0 + RoundsOf(p) = RoundsOf(p) + 0
        BY RoundsOfType DEF Seqs
    <3> QED
        BY <2>2, <2>3, <3>1, <3>2 DEF RoundsInv, RoundsAgree
  <2> QED
      BY <2>4, <2>5 DEF RoundsInv
<1> QED
    BY <1>2, <1>3 DEF EnterCycle

LEMMA NextRounds ==
    ASSUME TypeOK, HeldInv, RoundsInv, [Next]_vars
    PROVE  RoundsInv'
<1> USE DistinctThreads, ThreadNames, WorkerGoes, StopperGoes, ClientGoes,
        RoundsStay
        DEF At
<1>1. CASE CheckStop \/ SourceThrows \/ SourceReturns \/ BuildFails
           \/ ClaimPublication \/ Reject \/ Finish
    BY <1>1 DEF CheckStop, SourceThrows, SourceReturns, BuildFails,
       ClaimPublication, Reject, Finish
<1>2. CASE PrepareCycle \/ WakeHeld
  <2>1. CASE PrepareCycle /\ ~EnterCycle(BoundaryPlan)
    <3>1. /\ UNCHANGED <<ops, requestVars, goal, rounds>>
          /\ pc[Worker] = "prepare" /\ pc'[Worker] \in {"throw", "held"}
        BY <2>1 DEF PrepareCycle
    <3> QED
        BY <3>1
  <2>2. CASE WakeHeld /\ ~EnterCycle(plan)
      BY <2>2 DEF WakeHeld
  <2>3. pc[Worker] \in {"prepare", "held"} /\ UNCHANGED <<sweep, rounds>>
      BY <1>2, PrepareCycleLeads
  <2>4. plan \in Plans /\ BoundaryPlan \in Plans
      BY DEF TypeOK, PlansTypeOK, BoundaryPlan, HasPending
  <2> QED
      BY <1>2, <2>1, <2>2, <2>3, <2>4, EnterCycleRounds
<1>3. CASE BeginCapture \/ ObserveRange \/ NextSweep
    BY <1>3 DEF BeginCapture, ObserveRange, NextSweep
<1>4. CASE Publish \/ CompleteRound \/ CancelAfterSource \/ FailRequest
           \/ SettleOperation \/ \E c \in Clients : PrepareRestart(c)
    BY <1>4, PublishRounds, CompleteRoundRounds, CancelOrFailRounds,
       SettleOperationRounds, PrepareRestartRounds
<1>5. CASE Retire
    BY <1>5 DEF Retire
<1>6. CASE \E t \in {Worker, Stopper} : CancelDetached(t)
    BY <1>6 DEF CancelDetached, AfterDetach, CancelDetachedState
<1>7. CASE \E t \in {Worker, Stopper} : FailTerminal(t)
    BY <1>7 DEF FailTerminal
<1>8. CASE \E t \in {Worker, Stopper} : FailSettle(t)
    BY <1>8 DEF FailSettle, FailureState
<1>9. CASE \E c \in Clients : Settle(c)
    BY <1>9 DEF Settle, CancelDetached, CancelDetachedState,
       SettleInvalidate, SettleSignal
<1>10. CASE (\E settings \in Settings : CommitConfiguration(settings))
           \/ ForeignCommit \/ SpuriousWake
    BY <1>10 DEF CommitConfiguration, ForeignCommit, SpuriousWake
<1>11. CASE StopCall \/ StopSignal \/ StopToken \/ StopNotify \/ StopJoin
    BY <1>11 DEF StopCall, StopSignal, StopToken, StopNotify, StopJoin, TypeOK,
       ThreadsTypeOK
<1>12. CASE StopGate
    BY <1>12 DEF StopGate
<1>13. CASE StopRequestCancel
    BY <1>13 DEF StopRequestCancel, TypeOK, RequestsTypeOK
<1>14. CASE UNCHANGED vars
    BY <1>14 DEF vars
<1> QED
    BY <1>1, <1>2, <1>3, <1>4, <1>5, <1>6, <1>7, <1>8, <1>9, <1>10, <1>11,
       <1>12, <1>13, <1>14
    DEF Next, WorkerNext, StopNext, Source

LEMMA InitRounds ==
    ASSUME Init
    PROVE  RoundsInv
<1>1. NoOp \notin OpIds
    BY BoundsAssumption DEF OpIds, NoOp
<1> QED
    BY <1>1, ThreadNames
    DEF Init, HistoryInit, RoundsInv, RoundsAgree, NothingYet,
        EnoughToSucceed, NoRequest

\* Operation o has not had all the frame sets it was to have.
Short(o) == goal[o] = 0 \/ rounds[o] < goal[o]

\* The worker has published a frame set for o, perhaps its last, and not yet
\* said so.
Succeeding(o) ==
    \/ pc[Worker] = "complete" /\ o = activeRequest.op
    \/ pc[Worker] = "settle" /\ o = sweep.op /\ sweep.outcome = "Succeeded"

\* An Operation that has had all of them succeeds: no other outcome, and no
\* cancellation, comes between the last publication and the completion.
ShortUnlessSuccess ==
    \A o \in OpIds : Short(o) \/ ops[o] = "Succeeded" \/ Succeeding(o)

\* A step that publishes nothing and does not touch what is about to succeed.
LEMMA ShortStays ==
    ASSUME ShortUnlessSuccess, UNCHANGED <<rounds, goal>>,
           \A o \in OpIds : ops[o] = "Succeeded" => ops'[o] = "Succeeded",
           \/ pc[Worker] \notin {"complete", "settle"}
           \/ /\ pc'[Worker] = pc[Worker] /\ sweep' = sweep
              /\ pc[Worker] = "complete" => activeRequest' = activeRequest
    PROVE  ShortUnlessSuccess'
BY DEF ShortUnlessSuccess, Short, Succeeding

LEMMA PublishShort ==
    ASSUME TypeOK, ShortUnlessSuccess, Publish
    PROVE  ShortUnlessSuccess'
<1>1. /\ UNCHANGED <<ops, goal, activeRequest, sweep>>
      /\ pc[Worker] = "publish"
      /\ \/ rounds' = rounds
         \/ /\ pc'[Worker] = "complete"
            /\ rounds' = [o \in OpIds |-> IF o = activeRequest.op
                                        THEN rounds[o] + 1 ELSE rounds[o]]
    BY WorkerGoes DEF Publish, At
<1>2. CASE rounds' = rounds
    BY <1>1, <1>2, ShortStays
<1>3. CASE /\ pc'[Worker] = "complete"
           /\ \A o \in OpIds : o # activeRequest.op => rounds'[o] = rounds[o]
    BY <1>1, <1>3 DEF ShortUnlessSuccess, Short, Succeeding
<1> QED
    BY <1>1, <1>2, <1>3

LEMMA CompleteRoundShort ==
    ASSUME TypeOK, RoundsInv, ShortUnlessSuccess, CompleteRound
    PROVE  ShortUnlessSuccess'
<1>1. /\ UNCHANGED <<ops, rounds, goal>>
      /\ pc[Worker] = "complete" /\ pc'[Worker] = "settle"
    BY WorkerGoes DEF CompleteRound, At
<1>2. /\ sweep'.outcome = "Succeeded"
      /\ activeRequest = NoRequest \/ activeRequest.left = 1
             => sweep'.op = activeRequest.op
    BY LeaveCycleKeeps
    DEF CompleteRound, TypeOK, RequestsTypeOK, Requests, NoRequest, Seqs
<1>3. ASSUME NEW o \in OpIds, o # activeRequest.op
      PROVE  Short(o)' \/ ops'[o] = "Succeeded"
    BY <1>1, <1>3 DEF ShortUnlessSuccess, Short, Succeeding
<1>4. ASSUME NEW o \in OpIds, o = activeRequest.op
      PROVE  Short(o)' \/ Succeeding(o)'
  <2>1. activeRequest \in Requests
      BY <1>4, BoundsAssumption
      DEF TypeOK, RequestsTypeOK, NoRequest, NoOp, OpIds
  <2>2. /\ rounds[o] + activeRequest.left = goal[o] + 1
        /\ rounds[o] \in Nat /\ goal[o] \in Nat
        /\ activeRequest.left \in Nat \ {0}
      BY <1>1, <1>4, <2>1
      DEF RoundsInv, RoundsAgree, TypeOK, HistoryTypeOK, Requests, Seqs
  <2>3. CASE activeRequest.left = 1
      BY <1>1, <1>2, <1>4, <2>3 DEF Succeeding
  <2>4. CASE activeRequest.left # 1
      BY <1>1, <2>2, <2>4 DEF Short
  <2> QED
      BY <2>3, <2>4
<1> QED
    BY <1>3, <1>4 DEF ShortUnlessSuccess

\* The completion of an Operation that has had all its frame sets is accepted.
LEMMA SettleOperationShort ==
    ASSUME TypeOK, HeldInv, RoundsInv, ShortUnlessSuccess, SettleOperation
    PROVE  ShortUnlessSuccess'
<1>1. /\ UNCHANGED <<rounds, goal, activeRequest, sweep>>
      /\ pc[Worker] = "settle" /\ pc'[Worker] \in {"next", "throw"}
      /\ IF sweep.op = NoOp \/ CanComplete(ops[sweep.op], sweep.outcome)
         THEN ops' = [o \in OpIds |->
                         IF o = sweep.op THEN sweep.outcome ELSE ops[o]]
         ELSE ops' = ops
    BY WorkerGoes DEF SettleOperation, At
<1>2. ASSUME NEW o \in OpIds, o # sweep.op
      PROVE  Short(o)' \/ ops'[o] = "Succeeded"
    BY <1>1, <1>2 DEF ShortUnlessSuccess, Short, Succeeding
<1>3. ASSUME NEW o \in OpIds, o = sweep.op
      PROVE  Short(o)' \/ ops'[o] = "Succeeded"
  <2>1. ops[o] \in Live /\ o # NoOp
      BY <1>1, <1>3, BoundsAssumption
      DEF HeldInv, CompletingLive, HeldByWorker, NoOp, OpIds
  <2>2. CASE Short(o)
      BY <1>1, <2>2 DEF Short
  <2>3. CASE ~Short(o)
    <3>1. sweep.outcome = "Succeeded"
        BY <1>1, <2>1, <2>3 DEF ShortUnlessSuccess, Succeeding, Live
    <3>2. ops[o] # "Queued"
        BY <2>3 DEF Short, RoundsInv, NothingYet, TypeOK, HistoryTypeOK
    <3>3. CanComplete(ops[o], sweep.outcome)
        BY <2>1, <3>1, <3>2 DEF CanComplete, Live
    <3> QED
        BY <1>1, <1>3, <3>1, <3>3
  <2> QED
      BY <2>2, <2>3
<1> QED
    BY <1>2, <1>3 DEF ShortUnlessSuccess

LEMMA EnterCycleShort ==
    ASSUME TypeOK, HeldInv, RoundsInv, ShortUnlessSuccess, NEW p \in Plans,
           EnterCycle(p), pc[Worker] \in {"prepare", "held"},
           UNCHANGED <<sweep, rounds>>
    PROVE  ShortUnlessSuccess'
<1>1. CASE UNCHANGED <<ops, goal>>
    BY <1>1, ShortStays
<1>2. CASE /\ pendingOp # NoOp
           /\ ops' = [ops EXCEPT ![pendingOp] = "Running"]
           /\ goal' = [goal EXCEPT ![pendingOp] = RoundsOf(p)]
  <2>1. pendingOp \in OpIds /\ ops[pendingOp] = "Queued"
      BY <1>2 DEF TypeOK, RequestsTypeOK, HeldInv, HeldOperations
  <2>2. rounds[pendingOp] = 0 /\ RoundsOf(p) \in Nat \ {0}
      BY <2>1, RoundsOfType DEF RoundsInv, NothingYet, Seqs
  <2>3. ASSUME NEW o \in OpIds, o = pendingOp
        PROVE  Short(o)'
      BY <1>2, <2>1, <2>2, <2>3 DEF Short, TypeOK, HistoryTypeOK
  <2>4. ASSUME NEW o \in OpIds, o # pendingOp
        PROVE  Short(o)' \/ ops'[o] = "Succeeded"
    <3>1. ops'[o] = ops[o] /\ goal'[o] = goal[o]
        BY <1>2, <2>4 DEF TypeOK, RequestsTypeOK, HistoryTypeOK
    <3> QED
        BY <3>1 DEF ShortUnlessSuccess, Short, Succeeding
  <2> QED
      BY <2>3, <2>4 DEF ShortUnlessSuccess
<1> QED
    BY <1>1, <1>2 DEF EnterCycle, RoundsOf

\* A Restart and stop leave the request of a claimed publication in place.
LEMMA PrepareRestartShort ==
    ASSUME TypeOK, HeldInv, StopHandles, ShortUnlessSuccess,
           NEW c \in Clients, PrepareRestart(c)
    PROVE  ShortUnlessSuccess'
<1>1. PICK o \in OpIds :
          /\ Unused(o)
          /\ ops' = [p \in OpIds |->
                        IF p = o THEN "Queued"
                        ELSE IF p = CanceledInFlight THEN "CancelRequested"
                        ELSE ops[p]]
    BY DEF PrepareRestart
<1>2. UNCHANGED <<rounds, goal>>
    BY DEF PrepareRestart
<1>3. CanceledInFlight \in OpIds => ops[CanceledInFlight] # "Succeeded"
    BY BoundsAssumption
    DEF CanceledInFlight, HeldInv, HeldOperations, NoRequest, NoOp, OpIds
<1>4. \A p \in OpIds : ops[p] = "Succeeded" => ops'[p] = "Succeeded"
    BY <1>1, <1>3 DEF Unused
<1> QED
    BY <1>2, <1>4, ShortStays, StartKeepsRequest DEF InCycle

LEMMA NextShort ==
    ASSUME TypeOK, HeldInv, StopperLast, StopHandles, RoundsInv,
           ShortUnlessSuccess, [Next]_vars
    PROVE  ShortUnlessSuccess'
<1> USE DistinctThreads, ThreadNames, WorkerGoes, StopperGoes, ClientGoes,
        ShortStays
        DEF At
<1>1. CASE CheckStop \/ SourceThrows \/ SourceReturns \/ BuildFails
           \/ ClaimPublication \/ Reject \/ Finish
    BY <1>1 DEF CheckStop, SourceThrows, SourceReturns, BuildFails,
       ClaimPublication, Reject, Finish
<1>2. CASE PrepareCycle \/ WakeHeld
  <2>1. CASE PrepareCycle /\ ~EnterCycle(BoundaryPlan)
      BY <2>1 DEF PrepareCycle
  <2>2. CASE WakeHeld /\ ~EnterCycle(plan)
      BY <2>2 DEF WakeHeld
  <2>3. pc[Worker] \in {"prepare", "held"} /\ UNCHANGED <<sweep, rounds>>
      BY <1>2, PrepareCycleLeads
  <2>4. plan \in Plans /\ BoundaryPlan \in Plans
      BY DEF TypeOK, PlansTypeOK, BoundaryPlan, HasPending
  <2> QED
      BY <1>2, <2>1, <2>2, <2>3, <2>4, EnterCycleShort
<1>3. CASE BeginCapture \/ ObserveRange \/ NextSweep
    BY <1>3 DEF BeginCapture, ObserveRange, NextSweep
<1>4. CASE Publish \/ CompleteRound \/ SettleOperation
           \/ \E c \in Clients : PrepareRestart(c)
    BY <1>4, PublishShort, CompleteRoundShort, SettleOperationShort,
       PrepareRestartShort
<1>5. CASE CancelAfterSource \/ FailRequest \/ Retire
    BY <1>5 DEF CancelAfterSource, FailRequest, Retire
<1>6. CASE \E t \in {Worker, Stopper} : CancelDetached(t)
    BY <1>6 DEF CancelDetached, AfterDetach, CancelDetachedState,
       CanRequestCancel, Live
<1>7. CASE \E t \in {Worker, Stopper} : FailTerminal(t)
    BY <1>7 DEF FailTerminal, StopperLast
<1>8. CASE \E t \in {Worker, Stopper} : FailSettle(t)
    BY <1>8 DEF FailSettle, FailureState, StopperLast
<1>9. CASE \E c \in Clients : Settle(c)
    BY <1>9 DEF Settle, CancelDetached, CancelDetachedState, CanRequestCancel,
       Live, SettleInvalidate, SettleSignal
<1>10. CASE (\E settings \in Settings : CommitConfiguration(settings))
           \/ ForeignCommit \/ SpuriousWake
    BY <1>10 DEF CommitConfiguration, ForeignCommit, SpuriousWake
<1>11. CASE StopCall \/ StopSignal \/ StopToken \/ StopNotify \/ StopJoin
    BY <1>11 DEF StopCall, StopSignal, StopToken, StopNotify, StopJoin, TypeOK,
       ThreadsTypeOK
<1>12. CASE StopGate
  <2>1. UNCHANGED <<ops, rounds, goal>>
      BY <1>12 DEF StopGate
  <2> QED
      BY <1>12, <2>1, StartKeepsRequest DEF InCycle
<1>13. CASE StopRequestCancel
    BY <1>13 DEF StopRequestCancel, TypeOK, RequestsTypeOK, CanRequestCancel,
       Live
<1>14. CASE UNCHANGED vars
    BY <1>14 DEF vars
<1> QED
    BY <1>1, <1>2, <1>3, <1>4, <1>5, <1>6, <1>7, <1>8, <1>9, <1>10, <1>11,
       <1>12, <1>13, <1>14
    DEF Next, WorkerNext, StopNext, Source

LEMMA InitShort ==
    ASSUME Init
    PROVE  ShortUnlessSuccess
BY DEF Init, HistoryInit, ShortUnlessSuccess, Short

\* What an Operation that failed or was canceled had published.
LEMMA RoundsDecide ==
    ASSUME HeldInv, RoundsInv, ShortUnlessSuccess
    PROVE  RoundsPublished
<1>1. \A o \in OpIds : ops[o] \in {"Failed", "Canceled"} => ~Succeeding(o)
    BY BoundsAssumption
    DEF Succeeding, HeldInv, HeldOperations, CompletingLive, HeldByWorker,
        NoRequest, NoOp, OpIds, Live
<1> QED
    BY <1>1
    DEF RoundsPublished, RoundsInv, RoundsAgree, ShortUnlessSuccess, Short

\* An Operation succeeds exactly when the number of frame sets its plan asked
\* for was published for it (completeRequestedSweep in
\* sweep_runtime_control.cpp), and one that ran and ended otherwise had fewer,
\* however Restarts, stop and failures interleave.
THEOREM RoundsCounted == Spec => []RoundsPublished
<1> DEFINE Inv == HeldInv /\ RoundsInv /\ ShortUnlessSuccess
<1>1. Init => Inv
    BY InitHeld, InitRounds, InitShort
<1>2. TypeOK /\ CycleInv /\ Inv /\ [Next]_vars => Inv'
    BY NextHeld, NextRounds, NextShort DEF CycleInv
<1>3. Inv => RoundsPublished
    BY RoundsDecide
<1> QED
    BY <1>1, <1>2, <1>3, CycleCorrect, PTL DEF Spec

-------------------------------------------------------------------------------
(* The preview of the sweep in flight.                                      *)

\* A retained preview is of the worker's sweep and of the exchange's own
\* generation, so that withdrawing that sweep withdraws the preview; only a
\* terminal failure leaves one behind.
PreviewStands ==
    previews.ident # NoIdentity =>
        /\ previews.ident = sweep.ident
        /\ previews.ident.gen = previews.gen
        /\ \/ pc[Worker] \in (Capturing \ {"fail"}) \cup {"throw", "failing"}
           \/ pc[Worker] = "done" /\ state = "Failed"

LEMMA UpdateKeepsPreview ==
    ASSUME ViewsTypeOK, NEW v, ShowUpdate(v)
    PROVE  previews'.ident = previews.ident /\ previews'.gen = previews.gen
BY DEF ShowUpdate, Updated, ViewsTypeOK, Exchanges

LEMMA InvalidateWithdraws ==
    ASSUME ViewsTypeOK, NEW v, NEW ident, ShowInvalidate(v, ident)
    PROVE  /\ previews'.gen = previews.gen
           /\ previews'.ident = previews.ident \/ previews'.ident = NoIdentity
           /\ previews.ident = ident /\ previews.gen = ident.gen
                 => previews'.ident = NoIdentity
BY DEF ShowInvalidate, Invalidated, ViewsTypeOK, Exchanges

LEMMA ApplyPreview ==
    ASSUME ViewsTypeOK, NEW p, Apply(p)
    PROVE  \/ previews'.ident = previews.ident /\ previews'.gen = previews.gen
           \/ previews'.ident = NoIdentity
BY DEF Apply, AdvancedPreviews, Updated, ViewsTypeOK, Exchanges

LEMMA NextPreview ==
    ASSUME TypeOK, StopperLast, PreviewStands, [Next]_vars
    PROVE  PreviewStands'
<1> USE DistinctThreads, ThreadNames, WorkerGoes, StopperGoes, ClientGoes
        DEF At, PreviewStands, Capturing
<1>0. ViewsTypeOK
    BY DEF TypeOK
<1>1. CASE CheckStop \/ SourceThrows \/ BuildFails \/ ClaimPublication
           \/ SettleOperation
    BY <1>1 DEF CheckStop, SourceThrows, BuildFails, ClaimPublication,
       SettleOperation
<1>2. CASE Publish
    BY <1>2, PublishFrame DEF Publish
<1>3. CASE PrepareCycle
    BY <1>0, <1>3, PrepareCycleLeads, PrepareCycleView, ApplyPreview,
       UpdateKeepsPreview
<1>4. CASE WakeHeld
    BY <1>4, PrepareCycleLeads DEF WakeHeld
<1>5. CASE BeginCapture
    BY <1>0, <1>5, UpdateKeepsPreview DEF BeginCapture
<1>6. CASE ObserveRange
  <2>1. \/ previews'.ident = previews.ident /\ previews'.gen = previews.gen
        \/ previews'.ident = NoIdentity
        \/ /\ previews'.ident = sweep.ident /\ previews'.gen = previews.gen
           /\ previews.gen = sweep.ident.gen
      BY <1>0, <1>6, UpdateKeepsPreview, InvalidateWithdraws
      DEF ObserveRange, PreviewAccepted, ViewsTypeOK, Exchanges
  <2>2. pc' = pc /\ UNCHANGED state /\ pc[Worker] = "source"
      BY <1>6 DEF ObserveRange
  <2> QED
      BY <1>6, <2>1, <2>2, ObserveRangeSweep
<1>7. CASE SourceReturns
    BY <1>0, <1>7, UpdateKeepsPreview DEF SourceReturns
<1>8. CASE CompleteRound \/ CancelAfterSource \/ Retire
    BY <1>0, <1>8, CycleEnds, InvalidateWithdraws
    DEF CompleteRound, CancelAfterSource, Retire
<1>9. CASE FailRequest
    BY <1>9, CycleEnds DEF FailRequest
<1>10. CASE Reject
    BY <1>0, <1>10, InvalidateWithdraws DEF Reject
<1>11. CASE NextSweep
    BY <1>11, NextSweepLeads DEF NextSweep
<1>12. CASE Finish
    BY <1>0, <1>12, UpdateKeepsPreview DEF Finish
<1>13. CASE \E t \in {Worker, Stopper} : FailTerminal(t)
    BY <1>0, <1>13, UpdateKeepsPreview, InvalidateWithdraws
    DEF FailTerminal, StopperLast
<1>14. CASE \E t \in {Worker, Stopper} : CancelDetached(t) \/ FailSettle(t)
    BY <1>14 DEF CancelDetached, AfterDetach, FailSettle, StopperLast
<1>15. CASE \E c \in Clients : PrepareRestart(c)
    BY <1>15 DEF PrepareRestart
<1>16. CASE \E c \in Clients : Settle(c)
    BY <1>0, <1>16, InvalidateWithdraws
    DEF Settle, CancelDetached, SettleInvalidate, SettleSignal
<1>17. CASE \E settings \in Settings : CommitConfiguration(settings)
    BY <1>0, <1>17, ApplyPreview DEF CommitConfiguration
<1>18. CASE ForeignCommit \/ SpuriousWake
    BY <1>18 DEF ForeignCommit, SpuriousWake
<1>19. CASE StopCall \/ StopGate \/ StopRequestCancel \/ StopSignal
            \/ StopToken \/ StopNotify \/ StopJoin
    BY <1>19 DEF StopCall, StopGate, StopRequestCancel, StopSignal, StopToken,
       StopNotify, StopJoin, TypeOK, ThreadsTypeOK
<1>20. CASE UNCHANGED vars
    BY <1>20 DEF vars
<1> QED
    BY <1>1, <1>2, <1>3, <1>4, <1>5, <1>6, <1>7, <1>8, <1>9, <1>10, <1>11,
       <1>12, <1>13, <1>14, <1>15, <1>16, <1>17, <1>18, <1>19, <1>20
    DEF Next, WorkerNext, StopNext, Source

\* While the runtime works no preview outlives its sweep (invalidateForRuntime
\* in sweep_preview_status.cpp and its callers), whatever settles late.
THEOREM PreviewWithdrawn == Spec => []NoLeftoverPreview
<1>1. Init => PreviewStands
    BY DEF Init, PreviewStands
<1>2. TypeOK /\ CycleInv /\ PreviewStands /\ [Next]_vars => PreviewStands'
    BY NextPreview DEF CycleInv
<1>3. PreviewStands => NoLeftoverPreview
    BY DEF PreviewStands, NoLeftoverPreview, InCycle, Capturing
<1> QED
    BY <1>1, <1>2, <1>3, CycleCorrect, PTL DEF Spec

-------------------------------------------------------------------------------
(* One owner of the catalog: the composition root makes the runtime the only *)
(* one that commits plans to it.                                            *)

\* No other holder of the catalog advances its generation.
SoleOwner == ForeignGeneration <= 1

LEMMA NoForeignCommit ==
    ASSUME SoleOwner, TypeOK, ForeignCommit
    PROVE  FALSE
BY BoundsAssumption DEF SoleOwner, ForeignCommit, TypeOK, PlansTypeOK, Seqs

\* Who changes what the generations are compared in.
LEMMA GenerationSteps ==
    ASSUME SoleOwner, TypeOK, [Next]_vars
    PROVE  \/ /\ UNCHANGED <<plan, pending, catalog>>
              /\ repository'.gen = repository.gen /\ previews'.gen = previews.gen
           \/ PrepareCycle
           \/ \E settings \in Settings : CommitConfiguration(settings)
<1> USE UpdateKeepsPreview, InvalidateWithdraws
<1>0. ViewsTypeOK
    BY DEF TypeOK
<1>1. CASE CheckStop \/ WakeHeld \/ SourceThrows \/ BuildFails
           \/ ClaimPublication \/ FailRequest \/ SettleOperation \/ NextSweep
    BY <1>1 DEF CheckStop, WakeHeld, SourceThrows, BuildFails,
       ClaimPublication, FailRequest, SettleOperation, NextSweep
<1>2. CASE BeginCapture \/ SourceReturns \/ Finish
    BY <1>0, <1>2 DEF BeginCapture, SourceReturns, Finish
<1>3. CASE ObserveRange
    BY <1>0, <1>3 DEF ObserveRange, ViewsTypeOK, Exchanges
<1>4. CASE Publish
    BY <1>4, PublishFrame DEF Publish
<1>5. CASE CompleteRound \/ CancelAfterSource \/ Reject \/ Retire
    BY <1>0, <1>5 DEF CompleteRound, CancelAfterSource, Reject, Retire
<1>6. CASE \E t \in {Worker, Stopper} :
               CancelDetached(t) \/ FailTerminal(t) \/ FailSettle(t)
    BY <1>0, <1>6 DEF CancelDetached, FailTerminal, FailSettle
<1>7. CASE \E c \in Clients : PrepareRestart(c) \/ Settle(c)
    BY <1>0, <1>7 DEF PrepareRestart, Settle, CancelDetached,
       SettleInvalidate, SettleSignal
<1>8. CASE SpuriousWake \/ StopCall \/ StopGate \/ StopRequestCancel
           \/ StopSignal \/ StopToken \/ StopNotify \/ StopJoin
    BY <1>8 DEF SpuriousWake, StopCall, StopGate, StopRequestCancel,
       StopSignal, StopToken, StopNotify, StopJoin
<1>9. CASE UNCHANGED vars
    BY <1>9 DEF vars
<1> QED
    BY <1>1, <1>2, <1>3, <1>4, <1>5, <1>6, <1>7, <1>8, <1>9, NoForeignCommit
    DEF Next, WorkerNext, StopNext, Source

\* A commit that is accepted moves all of them together.
LEMMA ApplyGenerations ==
    ASSUME TypeOK, OneGeneration, NEW p, CommitAccepted(p), Apply(p)
    PROVE  OneGeneration'
<1>1. previews'.gen = p.plan.gen
    BY DEF Apply, AdvancedPreviews, Updated, TypeOK, ViewsTypeOK, Exchanges,
       OneGeneration
<1>2. repository'.gen = p.plan.gen
    BY DEF Apply, AdvancedRepository, OneGeneration
<1>3. plan'.gen = p.plan.gen /\ catalog'.gen = p.plan.gen /\ ~HasPending'
    BY DEF Apply, HasPending
<1> QED
    BY <1>1, <1>2, <1>3 DEF OneGeneration

\* A configuration prepared under the lock can be committed.
Prepared(settings) ==
    [base |-> catalog.plan,
     plan |-> PlanOf(settings, NextGeneration(settings), configured + 1)]

LEMMA PreparedAccepted ==
    ASSUME TypeOK, OneGeneration, NEW settings
    PROVE  CommitAccepted(Prepared(settings))
BY DEF Prepared, CommitAccepted, PlanOf, NextGeneration, OneGeneration,
       TypeOK, PlansTypeOK, Seqs

LEMMA CommitLeads ==
    ASSUME NEW settings, CommitConfiguration(settings),
           CommitAccepted(Prepared(settings))
    PROVE  \/ AtHold /\ Apply(Prepared(settings))
           \/ /\ pending' = Prepared(settings)
              /\ UNCHANGED <<plan, catalog, repository, viewVars>>
BY DEF CommitConfiguration, Prepared

LEMMA NextGenerations ==
    ASSUME SoleOwner, TypeOK, OneGeneration, [Next]_vars
    PROVE  OneGeneration'
<1>1. CASE /\ UNCHANGED <<plan, pending, catalog>>
           /\ repository'.gen = repository.gen /\ previews'.gen = previews.gen
    BY <1>1 DEF OneGeneration, HasPending, CommitAccepted
<1>2. CASE PrepareCycle
  <2>1. CASE UNCHANGED <<plan, pending, publicationVars>>
             /\ previews'.gen = previews.gen
      BY <2>1 DEF OneGeneration, HasPending, CommitAccepted
  <2>2. CASE CommitAccepted(pending) /\ Apply(pending)
      BY <2>2, ApplyGenerations
  <2> QED
      BY <1>2, <2>1, <2>2, PrepareCycleView, UpdateKeepsPreview DEF TypeOK
<1>3. CASE \E settings \in Settings : CommitConfiguration(settings)
  <2>1. PICK settings \in Settings : CommitConfiguration(settings)
      BY <1>3
  <2>2. CASE AtHold /\ Apply(Prepared(settings))
      BY <2>2, PreparedAccepted, ApplyGenerations
  <2>3. CASE /\ pending' = Prepared(settings)
             /\ UNCHANGED <<plan, catalog, repository, previews>>
      BY <2>3, PreparedAccepted DEF OneGeneration, CommitAccepted
  <2> QED
      BY <2>1, <2>2, <2>3, PreparedAccepted, CommitLeads
<1> QED
    BY <1>1, <1>2, <1>3, GenerationSteps

\* A status the runtime shows reaches the exchange, or the process ends.
LEMMA UpdateReaches ==
    ASSUME TypeOK, OneGeneration, NEW v, ShowUpdate(v), plan' = plan
    PROVE  StatusIsCurrent'
BY DEF ShowUpdate, Updated, StatusOf, StatusIsCurrent, OneGeneration, TypeOK,
       ViewsTypeOK, Exchanges

LEMMA InvalidateReaches ==
    ASSUME TypeOK, OneGeneration, NEW v, NEW ident, ShowInvalidate(v, ident),
           plan' = plan
    PROVE  StatusIsCurrent'
BY DEF ShowInvalidate, Invalidated, StatusOf, StatusIsCurrent, OneGeneration,
       TypeOK, ViewsTypeOK, Exchanges

LEMMA ApplyReaches ==
    ASSUME TypeOK, OneGeneration, NEW p, Apply(p)
    PROVE  StatusIsCurrent'
BY DEF Apply, AdvancedPreviews, Updated, StatusOf, StatusIsCurrent,
       OneGeneration, TypeOK, ViewsTypeOK, Exchanges

LEMMA NextStatus ==
    ASSUME SoleOwner, TypeOK, OneGeneration, StatusIsCurrent, [Next]_vars
    PROVE  StatusIsCurrent'
<1> USE UpdateReaches, InvalidateReaches, ApplyReaches
<1>1. CASE UNCHANGED <<plan, viewVars>>
    BY <1>1 DEF StatusIsCurrent, StatusOf
<1>2. CASE CheckStop \/ WakeHeld \/ SourceThrows \/ BuildFails
           \/ ClaimPublication \/ Publish \/ FailRequest \/ SettleOperation
           \/ NextSweep
    BY <1>1, <1>2 DEF CheckStop, WakeHeld, SourceThrows, BuildFails,
       ClaimPublication, Publish, FailRequest, SettleOperation, NextSweep
<1>3. CASE PrepareCycle
    BY <1>1, <1>3, PrepareCycleView
<1>4. CASE BeginCapture \/ SourceReturns \/ Finish
    BY <1>1, <1>4 DEF BeginCapture, SourceReturns, Finish
<1>5. CASE ObserveRange
  <2>1. CASE \E v : /\ display' = v /\ plan' = plan
                    /\ previews' = [previews EXCEPT !.ident = sweep.ident,
                         !.last = sweep.seq, !.status = StatusOf(plan, v)]
      BY <2>1 DEF StatusIsCurrent, StatusOf, TypeOK, ViewsTypeOK, Exchanges
  <2> QED
      BY <1>1, <1>5, <2>1 DEF ObserveRange
<1>6. CASE CompleteRound \/ CancelAfterSource \/ Reject \/ Retire
    BY <1>6 DEF CompleteRound, CancelAfterSource, Reject, Retire
<1>7. CASE \E t \in {Worker, Stopper} :
               CancelDetached(t) \/ FailTerminal(t) \/ FailSettle(t)
    BY <1>1, <1>7 DEF CancelDetached, FailTerminal, FailSettle
<1>8. CASE \E c \in Clients : PrepareRestart(c) \/ Settle(c)
    BY <1>1, <1>8 DEF PrepareRestart, Settle, CancelDetached,
       SettleInvalidate, SettleSignal
<1>9. CASE \E settings \in Settings : CommitConfiguration(settings)
  <2>1. CASE \E p : Apply(p)
      BY <2>1
  <2>2. CASE crashed'
      BY <2>2 DEF StatusIsCurrent
  <2> QED
      BY <1>1, <1>9, <2>1, <2>2 DEF CommitConfiguration
<1>10. CASE SpuriousWake \/ StopCall \/ StopGate \/ StopRequestCancel
            \/ StopSignal \/ StopToken \/ StopNotify \/ StopJoin
    BY <1>1, <1>10 DEF SpuriousWake, StopCall, StopGate, StopRequestCancel,
       StopSignal, StopToken, StopNotify, StopJoin
<1>11. CASE UNCHANGED vars
    BY <1>1, <1>11 DEF vars
<1> QED
    BY <1>2, <1>3, <1>4, <1>5, <1>6, <1>7, <1>8, <1>9, <1>10, <1>11,
       NoForeignCommit
    DEF Next, WorkerNext, StopNext, Source

LEMMA InitGenerations ==
    ASSUME Init
    PROVE  OneGeneration /\ StatusIsCurrent
BY DEF Init, OneGeneration, StatusIsCurrent, HasPending, PlanOf

LEMMA OwnerCorrect ==
    ASSUME SoleOwner
    PROVE  Spec => [](TypeOK /\ CycleInv /\ OneGeneration /\ StatusIsCurrent)
<1>1. Init => OneGeneration /\ StatusIsCurrent
    BY InitGenerations
<1>2. TypeOK /\ OneGeneration /\ StatusIsCurrent /\ [Next]_vars
          => (OneGeneration /\ StatusIsCurrent)'
    BY NextGenerations, NextStatus
<1> QED
    BY <1>1, <1>2, CycleCorrect, PTL DEF Spec

\* While the runtime is the only one to commit plans, catalog, repository,
\* exchange and the applied plan are of one generation in every state, and a
\* pending configuration can be committed (SweepGenerationTransaction in
\* sweep_generation_transaction.cpp), with Restarts and failures of any kind.
THEOREM GenerationsTogether == SoleOwner => (Spec => []OneGeneration)
<1> SUFFICES ASSUME SoleOwner
             PROVE  Spec => []OneGeneration
    OBVIOUS
<1>1. Spec => [](TypeOK /\ CycleInv /\ OneGeneration /\ StatusIsCurrent)
    BY OwnerCorrect
<1> QED
    BY <1>1, PTL

\* What the exchange tells a client is what the runtime shows
\* (setDisplayStatusLocked and updateForRuntime), under the same condition.
THEOREM StatusReaches == SoleOwner => (Spec => []StatusIsCurrent)
<1> SUFFICES ASSUME SoleOwner
             PROVE  Spec => []StatusIsCurrent
    OBVIOUS
<1>1. Spec => [](TypeOK /\ CycleInv /\ OneGeneration /\ StatusIsCurrent)
    BY OwnerCorrect
<1> QED
    BY <1>1, PTL

-------------------------------------------------------------------------------
(* The process ends only in a Restart that settles after a change of the    *)
(* generation.                                                              *)

\* Every status shown is valid; at the source it counts what was delivered.
ViewStands ==
    /\ ValidView(display)
    /\ pc[Worker] = "source" => sweep.emitted <= Points
    /\ ProgressIsExact

\* The generation a Restart was admitted under may have given way to a later
\* one by the time it settles, never to an earlier one.
LateSettles ==
    \A c \in Clients :
        pc[c] \in {"detach", "invalidate"} => local[c].ident.gen <= plan.gen

\* The settlement of a Restart whose sweep is of an earlier generation.
SettlesTooLate ==
    \E c \in Clients :
        /\ SettleInvalidate(c)
        /\ local[c].ident # NoIdentity /\ local[c].ident.gen < plan.gen

LEMMA ValidViews ==
    ASSUME NEW first
    PROVE  /\ \A hold \in BOOLEAN : ValidView(BoundaryView(hold, first))
           /\ ValidView(HoldView(first)) /\ ValidView(PreparingView(first))
BY BoundsAssumption
DEF ValidView, BoundaryView, HoldView, PreparingView, View, NoSweep

LEMMA ValidSweepViews ==
    ASSUME TypeOK, NEW first
    PROVE  /\ ValidView(View("Preparing", sweep.seq, 0, first))
           /\ ValidView(View("Calculation", sweep.seq, Points, first))
           /\ \A id, done \in Nat : done \in 0..Points =>
                  ValidView(View("Failed", id, done, first))
           /\ \A done \in Nat : done < Points =>
                  ValidView(View("Sweeping", sweep.seq, done + 1, first))
BY BoundsAssumption, SweepType
DEF TypeOK, ValidView, View, NoSweep, Seqs

LEMMA UpdateSound ==
    ASSUME NEW v, ShowUpdate(v), ValidView(v)
    PROVE  ValidView(display') /\ ~crashed' /\ display' = v
BY DEF ShowUpdate

LEMMA InvalidateSound ==
    ASSUME NEW v, NEW ident, ShowInvalidate(v, ident), ValidView(v),
           ident.gen = plan.gen
    PROVE  ValidView(display') /\ ~crashed' /\ display' = v
BY DEF ShowInvalidate

LEMMA ApplySound ==
    ASSUME NEW p, Apply(p)
    PROVE  ValidView(display') /\ ~crashed'
BY ValidViews DEF Apply, InitialView

\* A plan gives way to one of the same generation or of the next.
LEMMA PlanGrows ==
    ASSUME SoleOwner, TypeOK, OneGeneration, [Next]_vars
    PROVE  plan'.gen >= plan.gen
<1>1. plan.gen = catalog.gen /\ plan.gen \in Nat
    BY DEF OneGeneration, TypeOK, PlansTypeOK, Plans, Seqs
<1>2. ASSUME NEW p, CommitAccepted(p), Apply(p)
      PROVE  plan'.gen >= plan.gen
    BY <1>1, <1>2 DEF CommitAccepted, Apply
<1>3. CASE UNCHANGED plan
    BY <1>1, <1>3
<1>4. CASE PrepareCycle
    BY <1>2, <1>3, <1>4, PrepareCycleView
<1>5. CASE \E settings \in Settings : CommitConfiguration(settings)
    BY <1>2, <1>3, <1>5, PreparedAccepted, CommitLeads
<1> QED
    BY <1>3, <1>4, <1>5, GenerationSteps

LEMMA ThreadMoves ==
    ASSUME TypeOK, NEW t \in Threads, NEW u \in Threads, NEW step, Go(t, step)
    PROVE  pc'[u] = IF u = t THEN step ELSE pc[u]
BY DEF TypeOK, ThreadsTypeOK, Go

\* Only a Restart and its settlement move a command thread.
LEMMA ClientSteps ==
    ASSUME TypeOK, [Next]_vars, NEW c \in Clients
    PROVE  \/ pc'[c] = pc[c] /\ local'[c] = local[c]
           \/ PrepareRestart(c) \/ Settle(c)
<1> USE DistinctThreads, ThreadNames, ThreadMoves
<1>1. CASE CheckStop \/ PrepareCycle \/ WakeHeld \/ BeginCapture \/ Source
  <2>1. CASE PrepareCycle \/ WakeHeld
      BY <2>1 DEF PrepareCycle, WakeHeld, EnterCycle
  <2> QED
      BY <1>1, <2>1 DEF CheckStop, BeginCapture, Source, ObserveRange,
         SourceReturns, SourceThrows
<1>2. CASE BuildFails \/ ClaimPublication \/ Publish \/ CompleteRound
           \/ CancelAfterSource \/ Reject \/ FailRequest
    BY <1>2 DEF BuildFails, ClaimPublication, Publish, CompleteRound,
       CancelAfterSource, Reject, FailRequest
<1>3. CASE SettleOperation \/ NextSweep \/ Retire \/ Finish
    BY <1>3 DEF SettleOperation, NextSweep, Retire, Finish
<1>4. CASE \E t \in {Worker, Stopper} :
               CancelDetached(t) \/ FailTerminal(t) \/ FailSettle(t)
    BY <1>4 DEF CancelDetached, FailTerminal, FailSettle
<1>5. CASE \E d \in Clients \ {c} : PrepareRestart(d) \/ Settle(d)
    BY <1>5 DEF PrepareRestart, Settle, CancelDetached, SettleInvalidate,
       SettleSignal, TypeOK, ThreadsTypeOK
<1>6. CASE (\E settings \in Settings : CommitConfiguration(settings))
           \/ ForeignCommit \/ SpuriousWake
    BY <1>6 DEF CommitConfiguration, ForeignCommit, SpuriousWake
<1>7. CASE StopCall \/ StopGate \/ StopRequestCancel \/ StopSignal
           \/ StopToken \/ StopNotify \/ StopJoin
    BY <1>7 DEF StopCall, StopGate, StopRequestCancel, StopSignal, StopToken,
       StopNotify, StopJoin, TypeOK, ThreadsTypeOK
<1>8. CASE UNCHANGED vars
    BY <1>8 DEF vars
<1> QED
    BY <1>1, <1>2, <1>3, <1>4, <1>5, <1>6, <1>7, <1>8
    DEF Next, WorkerNext, StopNext

LEMMA NextLate ==
    ASSUME SoleOwner, TypeOK, OneGeneration, IdentityStands, LateSettles,
           [Next]_vars
    PROVE  LateSettles'
<1> SUFFICES ASSUME NEW c \in Clients, pc'[c] \in {"detach", "invalidate"}
             PROVE  local'[c].ident.gen <= plan'.gen
    BY DEF LateSettles
<1>1. plan.gen \in Nat /\ plan'.gen \in Nat /\ plan'.gen >= plan.gen
    BY PlanGrows, NextType DEF TypeOK, PlansTypeOK, Plans, Seqs
<1>2. local[c].ident.gen \in Nat
    BY DEF TypeOK, ThreadsTypeOK, Threads, Locals, Identities
<1>3. CASE pc'[c] = pc[c] /\ local'[c] = local[c]
    BY <1>1, <1>2, <1>3 DEF LateSettles
<1>4. CASE PrepareRestart(c)
  <2>1. local'[c].ident = activeIdentity
      BY <1>4, DistinctThreads
      DEF PrepareRestart, TypeOK, ThreadsTypeOK, Locals
  <2>2. activeIdentity.gen = 0 \/ activeIdentity.gen = plan.gen
      BY DEF IdentityStands, NoIdentity
  <2> QED
      BY <1>1, <2>1, <2>2
<1>5. CASE Settle(c)
  <2>1. local'[c] = local[c] /\ pc[c] = "detach"
      BY <1>5, DistinctThreads, ThreadMoves
      DEF Settle, CancelDetached, SettleInvalidate, SettleSignal, At
  <2> QED
      BY <1>1, <1>2, <2>1 DEF LateSettles
<1> QED
    BY <1>3, <1>4, <1>5, ClientSteps

\* Every status the runtime shows is valid, and none is withdrawn for an
\* identity of another generation but by a settlement that comes too late.
LEMMA NextSound ==
    ASSUME SoleOwner, TypeOK, StopperLast, IdentityStands, OneGeneration,
           ViewStands, LateSettles, ~crashed, [Next]_vars, ~SettlesTooLate
    PROVE  ViewStands' /\ ~crashed'
<1> USE DistinctThreads, ThreadNames, WorkerGoes, StopperGoes, ClientGoes,
        SweepType, ValidViews, ValidSweepViews, UpdateSound, InvalidateSound
        DEF At, ViewStands, ProgressIsExact, TypeOK
<1>0. display.done \in 0..Points /\ display.done \in Nat
    BY BoundsAssumption DEF ValidView
<1>1. CASE CheckStop \/ SourceThrows \/ BuildFails \/ ClaimPublication
           \/ Publish \/ FailRequest \/ SettleOperation
    BY <1>1, CycleEnds DEF CheckStop, SourceThrows, BuildFails,
       ClaimPublication, Publish, FailRequest, SettleOperation
<1>2. CASE PrepareCycle
    BY <1>2, PrepareCycleLeads, PrepareCycleView, ApplySound
<1>3. CASE WakeHeld
    BY <1>3, PrepareCycleLeads DEF WakeHeld
<1>4. CASE BeginCapture
  <2>1. ValidView(CaptureView) /\ CaptureView.done = 0
      BY DEF CaptureView, View
  <2>2. ValidView(display') /\ ~crashed' /\ display'.done = 0
      BY <1>4, <2>1 DEF BeginCapture
  <2> QED
      BY <1>4, <2>2, BeginCaptureSweep, BoundsAssumption DEF BeginCapture
<1>5. CASE ObserveRange
  <2> DEFINE view == View("Sweeping", sweep.seq, display.done + 1,
                          display.first)
  <2>1. pc' = pc /\ activeIdentity' = activeIdentity /\ pc[Worker] = "source"
        /\ sweep.emitted < Points
      BY <1>5 DEF ObserveRange
  <2>2. CASE activeIdentity # sweep.ident
    <3>1. UNCHANGED viewVars
        BY <1>5, <2>2 DEF ObserveRange
    <3> QED
        BY <1>5, <2>1, <2>2, <3>1, ObserveRangeSweep, BoundsAssumption
  <2>3. CASE activeIdentity = sweep.ident
    <3>1. ValidView(view) /\ view.done = sweep.emitted + 1
        BY <1>0, <2>1, <2>3 DEF View
    <3>2. sweep.ident.gen = plan.gen
        BY <2>1 DEF IdentityStands, Capturing
    <3> HIDE DEF view
    <3>3. display' = view /\ ~crashed'
        BY <1>5, <2>3, <3>1, <3>2 DEF ObserveRange, view
    <3> QED
        BY <1>5, <2>1, <3>1, <3>3, ObserveRangeSweep, BoundsAssumption
  <2> QED
      BY <2>2, <2>3
<1>6. CASE SourceReturns
    BY <1>6 DEF SourceReturns
<1>7. CASE CompleteRound \/ CancelAfterSource \/ Retire
  <2>1. CASE CompleteRound
      BY <2>1, CycleEnds DEF CompleteRound, IdentityStands
  <2>2. CASE CancelAfterSource
      BY <2>2, CycleEnds DEF CancelAfterSource, IdentityStands
  <2>3. CASE Retire
      BY <2>3, CycleEnds DEF Retire, IdentityStands
  <2> QED
      BY <1>7, <2>1, <2>2, <2>3
<1>8. CASE Reject
  <2>1. ValidView(View("Failed", sweep.seq, display.done, display.first))
      BY <1>0
  <2>2. sweep.ident.gen = plan.gen
      BY <1>8 DEF Reject, IdentityStands, Capturing
  <2> QED
      BY <1>8, <2>1, <2>2 DEF Reject
<1>9. CASE NextSweep
    BY <1>9, NextSweepLeads DEF NextSweep
<1>10. CASE Finish
    BY <1>10 DEF Finish
<1>11. CASE \E t \in {Worker, Stopper} : FailTerminal(t)
  <2>1. \A id \in Nat :
            ValidView(View("Failed", id, display.done, display.first))
      BY <1>0
  <2>2. display.sweep \in Nat /\ activeIdentity.seq \in Nat
      BY DEF ViewsTypeOK, Views, FlagsTypeOK, Identities
  <2> QED
      BY <1>11, <2>1, <2>2 DEF FailTerminal, IdentityStands, StopperLast
<1>12. CASE \E t \in {Worker, Stopper} : CancelDetached(t) \/ FailSettle(t)
    BY <1>12 DEF CancelDetached, AfterDetach, FailSettle, StopperLast
<1>13. CASE \E c \in Clients : PrepareRestart(c)
    BY <1>13 DEF PrepareRestart
<1>14. CASE \E c \in Clients : Settle(c)
  <2>1. pc[Worker] = "source" => sweep.ident # NoIdentity
      BY DEF IdentityStands, Capturing, NoIdentity, PlansTypeOK, Plans, Seqs
  <2>2. CASE \E c \in Clients : SettleInvalidate(c)
    <3>1. UNCHANGED sweep /\ pc'[Worker] = pc[Worker]
        BY <2>2 DEF SettleInvalidate
    <3>2. \/ UNCHANGED <<activeIdentity, viewVars>>
          \/ /\ activeIdentity' = NoIdentity
             /\ ValidView(display') /\ ~crashed'
      <4>1. PICK c \in Clients : SettleInvalidate(c)
          BY <2>2
      <4>2. local[c].ident.gen \in Nat /\ plan.gen \in Nat
          BY DEF ThreadsTypeOK, Threads, Locals, Identities, PlansTypeOK,
             Plans, Seqs
      <4>3. local[c].ident # NoIdentity => local[c].ident.gen = plan.gen
          BY <4>1, <4>2 DEF SettlesTooLate, SettleInvalidate, LateSettles
      <4> QED
          BY <4>1, <4>3 DEF SettleInvalidate
    <3> QED
        BY <2>1, <3>1, <3>2
  <2> QED
      BY <1>14, <2>2 DEF Settle, CancelDetached, SettleSignal
<1>15. CASE \E settings \in Settings : CommitConfiguration(settings)
  <2>1. PICK settings \in Settings : CommitConfiguration(settings)
      BY <1>15
  <2>2. UNCHANGED <<pc, sweep, activeIdentity>>
      BY <2>1 DEF CommitConfiguration
  <2>3. CASE AtHold /\ Apply(Prepared(settings))
      BY <2>2, <2>3, ApplySound DEF AtHold, IdentityStands, Capturing
  <2>4. CASE UNCHANGED viewVars
      BY <2>2, <2>4
  <2> QED
      BY <2>1, <2>3, <2>4, PreparedAccepted, CommitLeads
<1>16. CASE SpuriousWake
    BY <1>16 DEF SpuriousWake
<1>17. CASE StopCall \/ StopGate \/ StopRequestCancel \/ StopSignal
            \/ StopToken \/ StopNotify \/ StopJoin
    BY <1>17 DEF StopCall, StopGate, StopRequestCancel, StopSignal, StopToken,
       StopNotify, StopJoin, ThreadsTypeOK
<1>18. CASE UNCHANGED vars
    BY <1>18 DEF vars
<1> QED
    BY <1>1, <1>2, <1>3, <1>4, <1>5, <1>6, <1>7, <1>8, <1>9, <1>10, <1>11,
       <1>12, <1>13, <1>14, <1>15, <1>16, <1>17, <1>18, NoForeignCommit
    DEF Next, WorkerNext, StopNext, Source

LEMMA TooLateEnds ==
    ASSUME TypeOK, SettlesTooLate
    PROVE  /\ crashed'
           /\ \E c \in Clients : /\ pc[c] = "invalidate" /\ pc'[c] = "signal"
                                 /\ local[c].ident.gen < plan.gen
<1>1. PICK c \in Clients :
          /\ SettleInvalidate(c)
          /\ local[c].ident # NoIdentity /\ local[c].ident.gen < plan.gen
    BY DEF SettlesTooLate
<1>2. plan.gen \in Nat /\ local[c].ident.gen \in Nat
    BY DEF TypeOK, PlansTypeOK, Plans, Seqs, ThreadsTypeOK, Threads, Locals,
       Identities
<1>3. pc[c] = "invalidate" /\ pc'[c] = "signal"
    BY <1>1, ThreadMoves DEF SettleInvalidate, At, Threads
<1>4. plan.gen # local[c].ident.gen
    BY <1>1, <1>2
<1>5. ShowInvalidate(PreparingView(display.first), local[c].ident)
    BY <1>1 DEF SettleInvalidate
<1>6. crashed'
    BY <1>4, <1>5, Zenon DEF ShowInvalidate
<1> QED
    BY <1>1, <1>3, <1>6

\* A process that has been terminated takes no step.
LEMMA CrashEnds ==
    ASSUME crashed, [Next]_vars
    PROVE  UNCHANGED vars
<1> USE DEF At
<1>1. ~WorkerNext /\ ~StopNext
    BY DEF WorkerNext, CheckStop, PrepareCycle, WakeHeld, BeginCapture, Source,
       ObserveRange, SourceReturns, SourceThrows, BuildFails, ClaimPublication,
       Publish, CompleteRound, CancelAfterSource, Reject, FailRequest,
       SettleOperation, NextSweep, Retire, CancelDetached, Finish,
       FailTerminal, FailSettle, StopNext, StopGate, StopRequestCancel,
       StopSignal, StopToken, StopNotify, StopJoin
<1>2. \A c \in Clients : ~PrepareRestart(c) /\ ~Settle(c)
    BY DEF PrepareRestart, Settle, CancelDetached, SettleInvalidate,
       SettleSignal
<1>3. ~\E settings \in Settings : CommitConfiguration(settings)
    BY DEF CommitConfiguration
<1>4. ~ForeignCommit /\ ~SpuriousWake /\ ~StopCall
    BY DEF ForeignCommit, SpuriousWake, StopCall
<1> QED
    BY <1>1, <1>2, <1>3, <1>4 DEF Next

LEMMA InitSound ==
    ASSUME Init
    PROVE  ViewStands /\ LateSettles
<1>1. ValidView(display)
    BY ValidViews, BoundsAssumption DEF Init, InitialView
<1> QED
    BY <1>1, DistinctThreads, ThreadNames
    DEF Init, ViewStands, ProgressIsExact, LateSettles

\* Neither the exchange's status checks nor a refused commit terminate the
\* process (sweep_preview_status.cpp, sweep_generation_transaction.cpp), except
\* in one step: a Restart settles against a sweep of a generation that has given
\* way meanwhile.  The runtime is the only owner of the generation, as the
\* server composes it.
THEOREM TerminationLate == SoleOwner => (Spec => TerminatesOnlyLate)
<1> SUFFICES ASSUME SoleOwner
             PROVE  Spec => TerminatesOnlyLate
    OBVIOUS
<1> DEFINE Sound == LateSettles /\ (crashed \/ ViewStands)
<1>1. Init => Sound
    BY InitSound
<1>2. TypeOK /\ CycleInv /\ OneGeneration /\ Sound /\ [Next]_vars => Sound'
  <2> SUFFICES ASSUME TypeOK, CycleInv, OneGeneration, Sound, [Next]_vars
               PROVE  Sound'
      OBVIOUS
  <2>1. LateSettles'
      BY NextLate DEF CycleInv
  <2>2. CASE crashed
      BY <2>1, <2>2, CrashEnds DEF vars
  <2>3. CASE ~crashed /\ SettlesTooLate
      BY <2>1, <2>3, TooLateEnds
  <2>4. CASE ~crashed /\ ~SettlesTooLate
      BY <2>1, <2>4, NextSound DEF CycleInv
  <2> QED
      BY <2>2, <2>3, <2>4
<1>3. TypeOK /\ CycleInv /\ OneGeneration /\ Sound /\ [Next]_vars =>
          (crashed' /\ ~crashed =>
              \E c \in Clients : /\ pc[c] = "invalidate" /\ pc'[c] = "signal"
                                 /\ local[c].ident.gen < plan.gen)
    BY NextSound, TooLateEnds DEF CycleInv
<1>4. Spec => [](TypeOK /\ CycleInv /\ OneGeneration /\ StatusIsCurrent)
    BY OwnerCorrect
<1> QED
    BY <1>1, <1>2, <1>3, <1>4, PTL DEF Spec, TerminatesOnlyLate

-------------------------------------------------------------------------------
(* A worker that rests in Hold has applied the latest configuration.        *)

\* A worker that waits has no request, and in Hold nothing pending unless a
\* Restart or stop is about to wake it.
RestStands ==
    /\ Worker \in asleep => pc[Worker] = "held"
    /\ pc[Worker] = "held" => activeRequest = NoRequest
    /\ pc[Worker] = "held" /\ display.phase = "Hold" /\ pendingOp = NoOp
         /\ pc[Stopper] = "idle" => ~HasPending

\* The latest configuration is the pending one or else the applied one.
LatestStands ==
    crashed \/ configured = IF HasPending THEN pending.plan.rev ELSE plan.rev

LEMMA PrepareCycleRests ==
    ASSUME TypeOK, PrepareCycle
    PROVE  \/ asleep' = asleep /\ pc'[Worker] # "held"
           \/ /\ pc'[Worker] = "held" /\ ~HasPending'
              /\ activeRequest' = NoRequest
<1> USE WorkerGoes DEF At
<1>1. CASE HasPending /\ ~CommitAccepted(pending)
    BY <1>1 DEF PrepareCycle
<1>2. CASE AtBoundary /\ Resting /\ Go(Worker, "held")
           /\ UNCHANGED requestVars
    BY <1>2 DEF AtBoundary, Resting, Apply, HasPending
<1>3. CASE EnterCycle(BoundaryPlan) /\ asleep' = asleep
    BY <1>3, EnterCycleLeads
<1> QED
    BY <1>1, <1>2, <1>3 DEF PrepareCycle

LEMMA WakeHeldRests ==
    ASSUME TypeOK, WakeHeld
    PROVE  /\ UNCHANGED <<plan, pending, display>> /\ pc[Worker] = "held"
           /\ \/ Worker \notin asleep' /\ pc'[Worker] # "held"
              \/ UNCHANGED <<pc, requestVars>>
<1>1. CASE MayLeaveHold(plan)
    BY <1>1, EnterCycleLeads DEF WakeHeld, At
<1>2. CASE ~MayLeaveHold(plan)
    BY <1>2 DEF WakeHeld, At
<1> QED
    BY <1>1, <1>2

LEMMA NextRest ==
    ASSUME TypeOK, StopperLast, RestStands, [Next]_vars
    PROVE  RestStands'
<1> USE DistinctThreads, ThreadNames, WorkerGoes, StopperGoes, ClientGoes
        DEF At, RestStands, HasPending
<1>1. CASE CheckStop \/ SourceThrows \/ SourceReturns \/ BuildFails
           \/ ClaimPublication \/ Reject \/ Publish \/ SettleOperation
           \/ NextSweep \/ Finish
    BY <1>1 DEF CheckStop, SourceThrows, SourceReturns, BuildFails,
       ClaimPublication, Reject, Publish, SettleOperation, NextSweep, Finish
<1>2. CASE PrepareCycle
    BY <1>2, PrepareCycleRests DEF PrepareCycle
<1>3. CASE WakeHeld
    BY <1>3, WakeHeldRests
<1>4. CASE BeginCapture \/ ObserveRange
    BY <1>4 DEF BeginCapture, ObserveRange
<1>5. CASE CompleteRound \/ CancelAfterSource \/ FailRequest \/ Retire
  <2>1. pc[Worker] # "held" /\ asleep' \subseteq asleep
      BY <1>5 DEF CompleteRound, CancelAfterSource, FailRequest, Retire
  <2>2. Go(Worker, "settle") \/ Go(Worker, "detach")
      BY <1>5 DEF CompleteRound, CancelAfterSource, FailRequest, Retire
  <2> QED
      BY <2>1, <2>2
<1>6. CASE \E t \in {Worker, Stopper} :
               CancelDetached(t) \/ FailTerminal(t) \/ FailSettle(t)
    BY <1>6 DEF CancelDetached, AfterDetach, FailTerminal, FailSettle,
       StopperLast
<1>7. CASE \E c \in Clients : PrepareRestart(c)
    BY <1>7, BoundsAssumption DEF PrepareRestart, OpIds, NoOp
<1>8. CASE \E c \in Clients : Settle(c)
  <2>1. CASE \E c \in Clients : SettleInvalidate(c)
      BY <2>1 DEF SettleInvalidate, ShowInvalidate, PreparingView, View
  <2> QED
      BY <1>8, <2>1 DEF Settle, CancelDetached, AfterDetach, SettleSignal
<1>9. CASE \E settings \in Settings : CommitConfiguration(settings)
  <2>1. PICK settings \in Settings : CommitConfiguration(settings)
      BY <1>9
  <2>2. UNCHANGED <<pc, requestVars>> /\ asleep' = {}
      BY <2>1 DEF CommitConfiguration
  <2>3. CASE ~AtHold
      BY <2>1, <2>2, <2>3 DEF CommitConfiguration, AtHold
  <2>4. CASE AtHold /\ pending' = NoPending
      BY <2>2, <2>4
  <2>5. CASE UNCHANGED <<pending, display>>
      BY <2>2, <2>5
  <2> QED
      BY <2>1, <2>3, <2>4, <2>5 DEF CommitConfiguration, Apply
<1>10. CASE ForeignCommit \/ SpuriousWake
    BY <1>10 DEF ForeignCommit, SpuriousWake
<1>11. CASE StopCall \/ StopGate \/ StopRequestCancel \/ StopSignal
            \/ StopToken \/ StopNotify
    BY <1>11 DEF StopCall, StopGate, StopRequestCancel, StopSignal,
       StopToken, StopNotify
<1>12. CASE StopJoin
    BY <1>12 DEF StopJoin, TypeOK, ThreadsTypeOK
<1>13. CASE UNCHANGED vars
    BY <1>13 DEF vars
<1> QED
    BY <1>1, <1>2, <1>3, <1>4, <1>5, <1>6, <1>7, <1>8, <1>9, <1>10, <1>11,
       <1>12, <1>13
    DEF Next, WorkerNext, StopNext, Source

LEMMA NextLatest ==
    ASSUME TypeOK, LatestStands, [Next]_vars
    PROVE  LatestStands'
<1> USE DEF LatestStands, HasPending
<1>1. CASE crashed
    BY <1>1, CrashEnds DEF vars
<1>2. CASE ~crashed /\ UNCHANGED <<plan, pending, configured>>
    BY <1>2
<1>3. CASE ~crashed /\ PrepareCycle
  <2>1. configured' = configured
      BY <1>3 DEF PrepareCycle
  <2> QED
      BY <1>2, <1>3, <2>1, PrepareCycleView DEF Apply
<1>4. CASE ~crashed /\ \E settings \in Settings : CommitConfiguration(settings)
  <2>1. PICK settings \in Settings : CommitConfiguration(settings)
      BY <1>4
  <2>2. configured' = configured + 1
        /\ Prepared(settings).plan.rev = configured + 1
        /\ Prepared(settings) # NoPending
      BY <2>1
      DEF CommitConfiguration, Prepared, PlanOf, NoPending, TypeOK,
          PlansTypeOK, Seqs
  <2>3. CASE plan' = Prepared(settings).plan /\ pending' = NoPending
      BY <2>2, <2>3
  <2>4. CASE pending' = Prepared(settings)
      BY <2>2, <2>4
  <2>5. CASE crashed'
      BY <2>5
  <2> QED
      BY <2>1, <2>3, <2>4, <2>5 DEF CommitConfiguration, Apply, Prepared
<1> QED
    BY <1>1, <1>2, <1>3, <1>4, PlanSteps

\* A worker asleep in Hold that neither a Restart nor stop is about to wake has
\* nothing left to apply (commitConfiguration in
\* sweep_runtime_configuration.cpp, prepareCycle).
THEOREM HoldApplied == Spec => []HoldIsCurrent
<1> DEFINE Rests == RestStands /\ LatestStands
<1>1. Init => Rests
    BY DistinctThreads, ThreadNames
    DEF Init, RestStands, LatestStands, HasPending, PlanOf
<1>2. TypeOK /\ CycleInv /\ Rests /\ [Next]_vars => Rests'
    BY NextRest, NextLatest DEF CycleInv
<1>3. Rests => HoldIsCurrent
    BY DEF RestStands, LatestStands, HoldIsCurrent
<1> QED
    BY <1>1, <1>2, <1>3, CycleCorrect, PTL DEF Spec

===============================================================================
