----------------------------- MODULE SweepRuntime -----------------------------
(***************************************************************************)
(* SweepRuntime: one worker thread owns the capture source and runs sweeps *)
(* in Continuous or Single mode; command threads admit Restarts (which     *)
(* create Operations) and commit configurations; the owner stops it.       *)
(*                                                                         *)
(* One action is one critical section of the runtime mutex, or one call    *)
(* made outside it.  A command thread's Restart is the admission (under    *)
(* the CommandBus and runtime mutexes) and, after both are released, the   *)
(* settlement: detached Operations, the identity of the replaced sweep,    *)
(* the stop request.  Configurations are prepared and committed under one  *)
(* hold of the runtime mutex and are one action.                           *)
(***************************************************************************)
EXTENDS Integers, Operations

CONSTANTS
    Clients,            \* threads that dispatch commands
    Setups,             \* abstract acquisition settings and publication targets
    Counts,             \* sweep counts a Single configuration may ask for
    Initial,            \* the configuration the runtime is built with
    Points,             \* preview ranges in one complete sweep (progress unit)
    MaxOps,             \* bound: Operations ever created
    MaxRevision,        \* bound: configurations ever committed
    FreeSweeps,         \* bound: sweeps started with nothing asked of the worker
    ForeignGeneration,  \* another owner advances the catalog up to this one
    SourceMayFail,      \* the source may report a FrameError, a frame may not build
    SourceMayThrow,     \* the source may throw
    RepositoryMayReject,\* the repository may refuse a frame set
    OwnerMayStop        \* the owner calls stop()

Modes == {"Continuous", "Single"}
Settings == [mode : Modes, count : Counts, setup : Setups]
Worker == "worker"
Stopper == "stopper"
Threads == Clients \cup {Worker, Stopper}
OpIds == 1..MaxOps

ASSUME BoundsAssumption ==
    /\ Points \in Nat \ {0} /\ MaxOps \in Nat /\ MaxRevision \in Nat
    /\ FreeSweeps \in Nat /\ ForeignGeneration \in Nat
    /\ Counts \subseteq Nat \ {0}
    /\ Initial \in Settings
ASSUME SwitchesAssumption ==
    {SourceMayFail, SourceMayThrow, RepositoryMayReject, OwnerMayStop}
        \subseteq BOOLEAN
ASSUME ThreadsAssumption == {Worker, Stopper} \cap Clients = {}

NoOp == 0
NoStop == 0
NoSweep == 0
NoIdentity == [gen |-> 0, seq |-> 0]
NoRequest == [op |-> NoOp, left |-> 0]
NoPending == [base |-> 0]
NoFrame == [gen |-> 0, rev |-> 0, seq |-> 0]
NoLocal == [ident |-> NoIdentity, stop |-> NoStop, active |-> NoOp,
            fault |-> FALSE]

VARIABLES
    ops,            \* OperationManager: id -> state
    plan,           \* plan_, the applied plan
    pending,        \* pendingConfiguration_ with the catalog plan it was made from
    configured,     \* configured state revision
    pendingOp,      \* pendingOperation_
    activeRequest,  \* activeRequest_
    activeStop,     \* activeStop_, named by the sequence of its cycle
    activeIdentity, \* activeIdentity_
    finalizing,     \* finalizingPublication_
    cycleCancel,    \* cycleCancellationRequested_
    closed,         \* admissionClosed_
    state,          \* snapshot_.state
    display,        \* snapshot_: phase, sweep id, progress, first-sweep marker
    catalog,        \* TracePublicationCatalog: identity and generation of its plan
    repository,     \* TraceDisplayFrameRepository: generation, retained frame set
    previews,       \* SweepPreviewExchange
    pc, todo, local, \* per thread: next step, Operations to settle, local variables
    asleep,         \* threads blocked in changed_.wait
    sweep,          \* the worker's locals for its current cycle
    cycleStopped,   \* a stop was requested on the current cycle's StopSource
    workerStop,     \* a stop was requested on the worker's token
    crashed,        \* std::terminate was called
    discarded, rounds, goal   \* history, see HistoryInit

requestVars == <<pendingOp, activeRequest>>
cycleVars == <<activeStop, activeIdentity, finalizing, cycleCancel>>
lifeVars == <<closed, state>>
planVars == <<plan, pending, configured>>
publicationVars == <<catalog, repository>>
viewVars == <<display, previews, crashed>>
stopVars == <<cycleStopped, workerStop>>
threadVars == <<pc, todo, local, asleep>>
history == <<discarded, rounds, goal>>
sharedVars == <<requestVars, cycleVars, lifeVars, planVars, publicationVars>>
vars == <<ops, sharedVars, viewVars, stopVars, threadVars, sweep, history>>

\* Thread t is about to take this step of a process that has not terminated.
At(t, step) == ~crashed /\ pc[t] = step
Go(t, step) == pc' = [pc EXCEPT ![t] = step]

-------------------------------------------------------------------------------
(* The status a client sees, and the exchange that keeps a copy of it.      *)

View(phase, id, done, first) ==
    [phase |-> phase, sweep |-> id, done |-> done, first |-> first]
\* Faulty variant: the progress of the last sweep is kept.
HoldViewMidSweep(first) == View("Hold", NoSweep, display.done, first)
HoldView(first) == View("Hold", NoSweep, Points, first)
PreparingView(first) == View("Preparing", NoSweep, 0, first)

\* The worker is at rest in Single mode, or about to start the next sweep.
BoundaryView(hold, first) == IF hold THEN HoldView(first) ELSE PreparingView(first)

\* initialSweepRuntimeStatus of a plan.
InitialView(p, first) == BoundaryView(p.mode = "Single", first)

ValidView(v) ==
    /\ v.done \in 0..Points
    /\ v.phase = "Preparing" => v.done = 0
    /\ v.phase = "Hold" => v.sweep = NoSweep /\ v.done = Points
    /\ v.phase = "Calculation" => v.sweep # NoSweep /\ v.done = Points
    /\ v.phase = "Sweeping" => v.sweep # NoSweep /\ v.done # 0

StatusOf(p, v) == [gen |-> p.gen, rev |-> p.rev, view |-> v]

\* updateForRuntime: a status of another generation is dropped.
Updated(status) ==
    IF status.gen # previews.gen THEN previews
    ELSE [previews EXCEPT !.status = status]

\* Faulty variants: a status without its preview, a preview without its end.
InvalidatedIfShown(ident, status) ==
    IF previews.ident # ident THEN previews
    ELSE [previews EXCEPT !.status = status, !.ident = NoIdentity]
InvalidatedStatusOnly(ident, status) == [previews EXCEPT !.status = status]

\* invalidateForRuntime, past its own checks.
Invalidated(ident, status) ==
    IF previews.gen # ident.gen THEN previews
    ELSE [previews EXCEPT !.status = status,
                          !.ident = IF @ = ident THEN NoIdentity ELSE @]

\* setDisplayStatusLocked and updateForRuntime, which terminates on an
\* inconsistent status.
ShowUpdate(v) ==
    /\ display' = v
    /\ previews' = Updated(StatusOf(plan, v))
    /\ crashed' = ~ValidView(v)

\* setDisplayStatusLocked and invalidateLocked, which also terminates when the
\* status and the invalidated identity are of different generations.
ShowInvalidate(v, ident) ==
    /\ display' = v
    /\ previews' = Invalidated(ident, StatusOf(plan, v))
    /\ crashed' = (~ValidView(v) \/ plan.gen # ident.gen)

-------------------------------------------------------------------------------
(* Configurations.                                                          *)

HasPending == pending # NoPending
PlanOf(settings, gen, rev) ==
    [gen |-> gen, rev |-> rev, mode |-> settings.mode,
     count |-> settings.count, setup |-> settings.setup]

\* A candidate that changes acquisition or targets belongs to the next
\* generation; the rest keeps the current one.
NextGeneration(settings) ==
    catalog.gen + (IF settings.setup # plan.setup THEN 1 ELSE 0)

\* SweepGenerationTransaction refuses a plan made from another base, and a
\* generation the repository and the exchange cannot both advance to.
CommitAccepted(p) ==
    /\ p.base = catalog.plan
    /\ \/ p.plan.gen = catalog.gen
       \/ /\ p.plan.gen = catalog.gen + 1
          /\ repository.gen = catalog.gen
          /\ previews.gen = catalog.gen

\* The previews after the transaction and applyPendingConfiguration's update.
AdvancedPreviews(p, status) ==
    IF p.gen = catalog.gen THEN Updated(status)
    ELSE [previews EXCEPT !.gen = p.gen, !.status = status,
                          !.ident = NoIdentity]
\* Faulty variants: the repository stays behind, or is cleared every time.
RepositoryLeftBehind(p) == repository
RepositoryCleared(p) == [gen |-> p.gen, frame |-> NoFrame]
AdvancedRepository(p) ==
    IF p.gen = catalog.gen THEN repository
    ELSE [gen |-> p.gen, frame |-> NoFrame]

\* The marker of the first sweep after a change survives a second configuration.
FirstAfter(p) == display.first \/ p.gen # plan.gen

\* applyPendingConfiguration of the prepared configuration p.
Apply(p) ==
    LET view == InitialView(p.plan, FirstAfter(p.plan)) IN
    /\ plan' = p.plan
    /\ pending' = NoPending
    /\ catalog' = [plan |-> catalog.plan + 1, gen |-> p.plan.gen]
    /\ repository' = AdvancedRepository(p.plan)
    /\ display' = view
    /\ previews' = AdvancedPreviews(p.plan, StatusOf(p.plan, view))
    /\ crashed' = ~ValidView(view)

\* Faulty variants: configurations never, or always, apply at once.
NeverAtHold == FALSE
AlwaysAtHold == TRUE

\* The runtime rests at a boundary, so a committed plan can be applied at once.
AtHold == /\ display.phase = "Hold"
          /\ pendingOp = NoOp
          /\ activeRequest = NoRequest

\* prepareConfiguration and commitConfiguration.  commit is noexcept: a refused
\* transaction terminates the process.
CommitConfiguration(settings) ==
    LET prepared == [base |-> catalog.plan,
                     plan |-> PlanOf(settings, NextGeneration(settings),
                                     configured + 1)] IN
    /\ At(Stopper, "idle")
    /\ state = "Running" /\ ~closed
    /\ configured < MaxRevision
    /\ configured' = configured + 1
    /\ asleep' = {}
    /\ IF ~AtHold
       THEN /\ pending' = prepared
            /\ UNCHANGED <<plan, publicationVars, viewVars>>
       ELSE IF CommitAccepted(prepared)
       THEN Apply(prepared)
       ELSE /\ crashed' = TRUE
            /\ UNCHANGED <<plan, pending, publicationVars, display, previews>>
    /\ UNCHANGED <<ops, requestVars, cycleVars, lifeVars, stopVars, pc, todo,
                   local, sweep, history>>

\* Another holder of the catalog commits a plan of the next generation.
ForeignCommit ==
    /\ ~crashed /\ catalog.gen < ForeignGeneration
    /\ catalog' = [plan |-> catalog.plan + 1, gen |-> catalog.gen + 1]
    /\ repository' = [gen |-> catalog.gen + 1, frame |-> NoFrame]
    /\ UNCHANGED <<ops, requestVars, cycleVars, lifeVars, planVars, viewVars,
                   stopVars, threadVars, sweep, history>>

-------------------------------------------------------------------------------
(* Restart: admission under the locks, settlement after them.               *)

Unused(o) == ops[o] = "Absent" /\ \A p \in 1..(o - 1) : ops[p] # "Absent"

\* Faulty variant: the request in flight is taken too.
DetachedInFlight == {pendingOp, activeRequest.op} \ {NoOp}

\* What a Restart takes from the runtime and settles itself: the request still
\* queued and, between two sweeps of a request, that request.
Detached ==
    ({pendingOp} \cup (IF activeStop = NoStop THEN {activeRequest.op} ELSE {}))
        \ {NoOp}

\* A request with a sweep in flight is only asked to cancel: its worker
\* completes it once the source has stopped.
CanceledInFlight == IF activeStop = NoStop THEN NoOp ELSE activeRequest.op

\* History: the sweep in flight is discarded unless it claimed its publication.
Replaced == IF activeStop # NoStop /\ ~finalizing
            THEN discarded \cup {activeStop} ELSE discarded

PrepareRestart(c) ==
    /\ At(c, "idle") /\ At(Stopper, "idle")
    /\ state = "Running" /\ ~closed
    /\ \E o \in OpIds :
         /\ Unused(o)
         /\ pendingOp' = o
         /\ ops' = [p \in OpIds |->
                       IF p = o THEN "Queued"
                       ELSE IF p = CanceledInFlight THEN "CancelRequested"
                       ELSE ops[p]]
    /\ todo' = [todo EXCEPT ![c] = Detached]
    /\ activeRequest' = IF activeStop = NoStop THEN NoRequest ELSE activeRequest
    /\ local' = [local EXCEPT ![c].ident = activeIdentity, ![c].stop = activeStop]
    /\ cycleCancel' = (activeStop # NoStop)
    /\ Go(c, "detach")
    /\ discarded' = Replaced
    /\ UNCHANGED <<activeStop, activeIdentity, finalizing, lifeVars, planVars,
                   publicationVars, viewVars, stopVars, asleep, sweep, rounds,
                   goal>>

AfterDetach(t) ==
    CASE t = Worker -> "finish" [] t = Stopper -> "cancel" [] OTHER -> "invalidate"

\* cancelDetachedRequests.  Only t still knows these Operations, so that its
\* two calls on each of them cannot interleave with another transition.
CancelDetached(t) ==
    /\ At(t, "detach")
    /\ ops' = [o \in OpIds |->
                  IF o \in todo[t] THEN CancelDetachedState(ops[o]) ELSE ops[o]]
    /\ todo' = [todo EXCEPT ![t] = {}]
    /\ Go(t, AfterDetach(t))
    /\ UNCHANGED <<sharedVars, viewVars, stopVars, local, asleep, sweep,
                   history>>

\* settleRestart withdraws the identity it was admitted against, whatever sweep
\* is active by now.
SettleInvalidate(c) ==
    /\ At(c, "invalidate")
    /\ Go(c, "signal")
    /\ IF local[c].ident = NoIdentity
       THEN UNCHANGED <<activeIdentity, viewVars>>
       ELSE /\ ShowInvalidate(PreparingView(display.first), local[c].ident)
            /\ activeIdentity' = NoIdentity
    /\ UNCHANGED <<ops, requestVars, activeStop, finalizing, cycleCancel,
                   lifeVars, planVars, publicationVars, stopVars, todo, local,
                   asleep, sweep, history>>

\* requestStop on the StopSource a thread captured; one of an earlier cycle has
\* nobody listening any more.
RequestStop(stop) ==
    cycleStopped' = (cycleStopped \/ (stop # NoStop /\ stop = sweep.seq))

SettleSignal(c) ==
    /\ At(c, "signal")
    /\ RequestStop(local[c].stop)
    /\ asleep' = {}
    /\ Go(c, "idle")
    /\ local' = [local EXCEPT ![c] = NoLocal]
    /\ UNCHANGED <<ops, sharedVars, viewVars, workerStop, todo, sweep,
                   history>>

-------------------------------------------------------------------------------
(* The worker.                                                              *)

\* run: while (!token.stopRequested()), also where it paces between sweeps.
CheckStop ==
    /\ At(Worker, "loop")
    /\ Go(Worker, IF workerStop THEN "finish" ELSE "prepare")
    /\ UNCHANGED <<ops, sharedVars, viewVars, stopVars, todo, local, asleep,
                   sweep, history>>

\* The predicate of the wait in prepareCycle under plan p.
MayLeaveHold(p) == workerStop \/ pendingOp # NoOp \/ p.mode = "Continuous"

\* Faulty variant: one sweep too few.
RoundsLess(p) == IF p.mode = "Single" THEN p.count - 1 ELSE 0

\* The number of sweeps a request runs under plan p.
RoundsOf(p) == IF p.mode = "Single" THEN p.count ELSE 1

\* The end of prepareCycle: give up, or promote a queued request and own a
\* fresh StopSource; a refused markRunning throws.
EnterCycle(p) ==
    IF workerStop
    THEN /\ Go(Worker, "finish")
         /\ UNCHANGED <<ops, requestVars, activeStop, goal>>
    ELSE IF pendingOp # NoOp /\ ~CanMarkRunning(ops[pendingOp])
    THEN /\ Go(Worker, "throw")
         /\ UNCHANGED <<ops, requestVars, activeStop, goal>>
    ELSE /\ Go(Worker, "start")
         /\ activeStop' = sweep.seq
         /\ pendingOp' = NoOp
         /\ IF pendingOp = NoOp
            THEN UNCHANGED <<ops, activeRequest, goal>>
            ELSE /\ ops' = [ops EXCEPT ![pendingOp] = "Running"]
                 /\ activeRequest' = [op |-> pendingOp, left |-> RoundsOf(p)]
                 /\ goal' = [goal EXCEPT ![pendingOp] =
                                IF p.mode = "Single" THEN p.count ELSE 1]

\* The plan and the view prepareCycle continues with at this boundary.
BoundaryPlan == IF HasPending THEN pending.plan ELSE plan
Resting == activeRequest = NoRequest /\ BoundaryPlan.mode = "Single"

\* Apply the pending configuration, or refresh the Hold view of a worker that
\* has nothing to do; a Failed view is kept.
AtBoundary ==
    IF HasPending THEN Apply(pending)
    ELSE /\ UNCHANGED <<plan, pending, publicationVars>>
         /\ IF Resting /\ display.phase # "Failed"
            THEN ShowUpdate(HoldView(display.first))
            ELSE UNCHANGED viewVars

PrepareCycle ==
    /\ At(Worker, "prepare")
    /\ IF HasPending /\ ~CommitAccepted(pending)
       THEN /\ Go(Worker, "throw")
            /\ UNCHANGED <<ops, requestVars, activeStop, goal, plan, pending,
                           publicationVars, viewVars, asleep>>
       ELSE /\ AtBoundary
            /\ IF Resting /\ ~MayLeaveHold(BoundaryPlan)
               THEN /\ Go(Worker, "held")
                    /\ asleep' = asleep \cup {Worker}
                    /\ UNCHANGED <<ops, requestVars, activeStop, goal>>
               ELSE EnterCycle(BoundaryPlan) /\ UNCHANGED asleep
    /\ UNCHANGED <<activeIdentity, finalizing, cycleCancel, lifeVars,
                   configured, stopVars, todo, local, sweep, discarded,
                   rounds>>

\* The wait of prepareCycle returns with the plan it went to sleep with, or
\* with the one commitConfiguration applied meanwhile.
WakeHeld ==
    /\ At(Worker, "held") /\ Worker \notin asleep
    /\ IF MayLeaveHold(plan)
       THEN EnterCycle(plan) /\ UNCHANGED asleep
       ELSE /\ asleep' = asleep \cup {Worker}
            /\ UNCHANGED <<ops, requestVars, activeStop, goal, pc>>
    /\ UNCHANGED <<activeIdentity, finalizing, cycleCancel, lifeVars, planVars,
                   publicationVars, viewVars, stopVars, todo, local, sweep,
                   discarded, rounds>>

\* A condition variable may also wake without a notification.
SpuriousWake ==
    /\ ~crashed /\ asleep # {}
    /\ asleep' = {}
    /\ UNCHANGED <<ops, sharedVars, viewVars, stopVars, pc, todo, local, sweep,
                   history>>

\* Bound: sweeps nobody asked for stop being explored after FreeSweeps.
MayCapture == \/ sweep.seq <= FreeSweeps
              \/ activeRequest # NoRequest \/ pendingOp # NoOp
              \/ HasPending \/ workerStop

CaptureView == View("Preparing", sweep.seq, 0, display.first)

\* capture takes its identity from the applied plan and shows Preparing.
BeginCapture ==
    LET ident == [gen |-> plan.gen, seq |-> sweep.seq] IN
    /\ At(Worker, "start") /\ MayCapture
    /\ activeIdentity' = ident
    /\ sweep' = [sweep EXCEPT !.ident = ident, !.emitted = 0, !.rejected = FALSE]
    /\ ShowUpdate(CaptureView)
    /\ Go(Worker, "source")
    /\ UNCHANGED <<ops, requestVars, activeStop, finalizing, cycleCancel,
                   lifeVars, planVars, publicationVars, stopVars, todo, local,
                   asleep, history>>

\* publishForRuntime accepts the preview of the sweep it already shows, or of a
\* later one of the same generation.
PreviewAccepted ==
    /\ previews.gen = sweep.ident.gen
    /\ previews.ident = sweep.ident \/ sweep.seq > previews.last

\* observePreviewRange of one complete range.  The assembler may have nothing
\* to show yet, a preview, or an error; a sweep whose preview was rejected keeps
\* reporting progress.
ObserveRange ==
    LET view == View("Sweeping", sweep.seq, display.done + 1, display.first) IN
    /\ At(Worker, "source") /\ sweep.emitted < Points
    /\ IF activeIdentity # sweep.ident
       THEN /\ sweep' = [sweep EXCEPT !.emitted = @ + 1]
            /\ UNCHANGED viewVars
       ELSE \/ /\ ShowUpdate(view)
               /\ sweep' = [sweep EXCEPT !.emitted = @ + 1]
            \/ /\ ~sweep.rejected /\ PreviewAccepted
               /\ display' = view
               /\ previews' = [previews EXCEPT !.ident = sweep.ident,
                                  !.last = sweep.seq,
                                  !.status = StatusOf(plan, view)]
               /\ crashed' = FALSE
               /\ sweep' = [sweep EXCEPT !.emitted = @ + 1]
            \/ /\ ~sweep.rejected
               /\ ShowInvalidate(view, sweep.ident)
               /\ sweep' = [sweep EXCEPT !.emitted = @ + 1, !.rejected = TRUE]
    /\ UNCHANGED <<ops, sharedVars, stopVars, threadVars, history>>

\* The worker's stop request reaches the cycle through its StopCallback.
CycleStopRequested == cycleStopped \/ workerStop

\* The source returned and the cycle's stop request is looked at: canceled, a
\* complete payload, or a FrameError.
SourceReturns ==
    /\ At(Worker, "source")
    /\ IF CycleStopRequested
       THEN Go(Worker, "cancel") /\ UNCHANGED viewVars
       ELSE \/ /\ sweep.emitted = Points
               /\ Go(Worker, "claim")
               /\ ShowUpdate(View("Calculation", sweep.seq, Points, display.first))
            \/ /\ SourceMayFail
               /\ Go(Worker, "reject")
               /\ UNCHANGED viewVars
    /\ UNCHANGED <<ops, sharedVars, stopVars, todo, local, asleep, sweep,
                   history>>

SourceThrows ==
    /\ SourceMayThrow
    /\ At(Worker, "source")
    /\ Go(Worker, "throw")
    /\ UNCHANGED <<ops, sharedVars, viewVars, stopVars, todo, local, asleep,
                   sweep, history>>

\* Faulty variant: a discarded sweep may publish.
PublishAnyway == TRUE

\* claimPublication: a sweep that a Restart or the owner discarded may not
\* publish; from here on a replacement waits for the next boundary.
MayPublish == ~cycleCancel
ClaimPublication ==
    /\ At(Worker, "claim")
    /\ finalizing' = MayPublish
    /\ Go(Worker, IF MayPublish THEN "publish" ELSE "cancel")
    /\ UNCHANGED <<ops, requestVars, activeStop, activeIdentity, cycleCancel,
                   lifeVars, planVars, publicationVars, viewVars, stopVars,
                   todo, local, asleep, sweep, history>>

\* buildTraceDisplayFrameSet rejects the payload before the claim.
BuildFails ==
    /\ SourceMayFail
    /\ At(Worker, "claim")
    /\ Go(Worker, "reject")
    /\ UNCHANGED <<ops, sharedVars, viewVars, stopVars, todo, local, asleep,
                   sweep, history>>

\* Faulty variant: the generation is not compared under the catalog's gate.
PublicationUnchecked == TRUE
PublicationCurrent == plan.gen = catalog.gen

\* publishIfCurrent: a plan of an older generation retires the runtime.
Publish ==
    /\ At(Worker, "publish")
    /\ \/ /\ ~PublicationCurrent
          /\ Go(Worker, "retire")
          /\ UNCHANGED <<repository, rounds>>
       \/ /\ RepositoryMayReject /\ PublicationCurrent
          /\ Go(Worker, "reject")
          /\ UNCHANGED <<repository, rounds>>
       \/ /\ PublicationCurrent
          /\ repository' = [repository EXCEPT !.frame =
                               [gen |-> plan.gen, rev |-> plan.rev,
                                seq |-> sweep.seq]]
          /\ rounds' = [o \in OpIds |->
                           IF o = activeRequest.op THEN rounds[o] + 1
                           ELSE rounds[o]]
          /\ Go(Worker, "complete")
    /\ UNCHANGED <<ops, requestVars, cycleVars, lifeVars, planVars, catalog,
                   viewVars, stopVars, todo, local, asleep, sweep, discarded,
                   goal>>

\* Faulty variant: the publication stays claimed.
LeaveCycleClaimed(o, outcome) ==
    /\ activeStop' = NoStop
    /\ activeIdentity' = NoIdentity
    /\ UNCHANGED finalizing
    /\ cycleCancel' = FALSE
    /\ sweep' = [sweep EXCEPT !.op = o, !.outcome = outcome]

\* The worker leaves its cycle and takes operation o with it to complete it
\* outside the lock.
LeaveCycle(o, outcome) ==
    /\ activeStop' = NoStop
    /\ activeIdentity' = NoIdentity
    /\ finalizing' = FALSE
    /\ cycleCancel' = FALSE
    /\ sweep' = [sweep EXCEPT !.op = o, !.outcome = outcome]

\* completeRequestedSweep: one round less; the last one completes the request.
CompleteRound ==
    LET left == activeRequest.left - 1
        rest == IF activeRequest = NoRequest \/ left = 0 THEN NoRequest
                ELSE [activeRequest EXCEPT !.left = left]
        hold == plan.mode = "Single" /\ rest = NoRequest
    IN  /\ At(Worker, "complete")
        /\ LeaveCycle(IF rest = NoRequest THEN activeRequest.op ELSE NoOp,
                      "Succeeded")
        /\ activeRequest' = rest
        /\ ShowInvalidate(BoundaryView(hold, FALSE), sweep.ident)
        /\ asleep' = {}
        /\ Go(Worker, "settle")
        /\ UNCHANGED <<ops, pendingOp, lifeVars, planVars, publicationVars,
                       stopVars, todo, local, history>>

\* cancelActiveAfterSource, once the source has stopped and with no publication
\* claimed.  Its notification follows the completion, see SettleOperation.
CancelAfterSource ==
    /\ At(Worker, "cancel")
    /\ LeaveCycle(activeRequest.op, "Canceled")
    /\ activeRequest' = NoRequest
    /\ ShowInvalidate(BoundaryView(plan.mode = "Single" /\ pendingOp = NoOp,
                                   display.first), sweep.ident)
    /\ Go(Worker, "settle")
    /\ UNCHANGED <<ops, pendingOp, lifeVars, planVars, publicationVars,
                   stopVars, todo, local, asleep, history>>

\* reject: the failure is shown, the retained frame set stays.
Reject ==
    /\ At(Worker, "reject")
    /\ ShowInvalidate(View("Failed", sweep.seq, display.done, display.first),
                      sweep.ident)
    /\ Go(Worker, "fail")
    /\ UNCHANGED <<ops, sharedVars, stopVars, todo, local, asleep, sweep,
                   history>>

\* failRequestedSweep: a replaced request is canceled, not failed.
FailRequest ==
    /\ At(Worker, "fail")
    /\ LeaveCycle(activeRequest.op, IF cycleCancel THEN "Canceled" ELSE "Failed")
    /\ activeRequest' = NoRequest
    /\ asleep' = {}
    /\ Go(Worker, "settle")
    /\ UNCHANGED <<ops, pendingOp, lifeVars, planVars, publicationVars,
                   viewVars, stopVars, todo, local, history>>

\* requireTransition(complete) outside the lock: a refused transition throws.
SettleOperation ==
    /\ At(Worker, "settle")
    /\ IF sweep.op = NoOp \/ CanComplete(ops[sweep.op], sweep.outcome)
       THEN /\ ops' = [o \in OpIds |->
                          IF o = sweep.op THEN sweep.outcome ELSE ops[o]]
            /\ asleep' = IF sweep.outcome = "Canceled" THEN {} ELSE asleep
            /\ Go(Worker, "next")
       ELSE /\ Go(Worker, "throw")
            /\ UNCHANGED <<ops, asleep>>
    /\ UNCHANGED <<sharedVars, viewVars, stopVars, todo, local, sweep,
                   history>>

\* run, after capture: stop, or go on with a new sweep id and StopSource.
NextSweep ==
    /\ At(Worker, "next")
    /\ IF workerStop
       THEN /\ Go(Worker, "finish")
            /\ UNCHANGED <<sweep, cycleStopped>>
       ELSE /\ Go(Worker, "loop")
            /\ sweep' = [sweep EXCEPT !.seq = @ + 1, !.op = NoOp]
            /\ cycleStopped' = FALSE
    /\ UNCHANGED <<ops, sharedVars, viewVars, workerStop, todo, local, asleep,
                   history>>

\* retireAfterSource: the runtime's plan is of an older generation for good.
Retire ==
    /\ At(Worker, "retire")
    /\ state' = "Retired"
    /\ LeaveCycle(NoOp, "Canceled")
    /\ todo' = [todo EXCEPT ![Worker] = {pendingOp, activeRequest.op} \ {NoOp}]
    /\ pendingOp' = NoOp
    /\ activeRequest' = NoRequest
    /\ ShowInvalidate(HoldView(display.first), sweep.ident)
    /\ asleep' = {}
    /\ Go(Worker, "detach")
    /\ UNCHANGED <<ops, closed, planVars, publicationVars, stopVars, local,
                   history>>

Finish ==
    /\ At(Worker, "finish")
    /\ Go(Worker, "done")
    /\ IF state = "Running"
       THEN state' = "Stopped" /\ ShowUpdate(HoldView(display.first))
       ELSE UNCHANGED <<state, viewVars>>
    /\ UNCHANGED <<ops, requestVars, cycleVars, closed, planVars,
                   publicationVars, stopVars, todo, local, asleep, sweep,
                   history>>

-------------------------------------------------------------------------------
(* A terminal failure, on the worker after an exception or on the owner when *)
(* its stop met a refused transition.                                        *)

FailTerminal(t) ==
    LET id == IF activeIdentity = NoIdentity THEN display.sweep
              ELSE activeIdentity.seq
        view == View("Failed", id, display.done, display.first)
    IN  /\ At(t, "throw")
        /\ closed' = TRUE
        /\ activeStop' = NoStop
        /\ activeIdentity' = NoIdentity
        /\ finalizing' = FALSE
        /\ cycleCancel' = FALSE
        /\ todo' = [todo EXCEPT ![t] = {pendingOp, activeRequest.op} \ {NoOp}]
        /\ pendingOp' = NoOp
        /\ activeRequest' = NoRequest
        /\ IF activeIdentity = NoIdentity THEN ShowUpdate(view)
           ELSE ShowInvalidate(view, activeIdentity)
        /\ asleep' = {}
        /\ Go(t, "failing")
        /\ UNCHANGED <<ops, state, planVars, publicationVars, stopVars, local,
                       sweep, history>>

\* settleTerminalFailure of each, and only then the Failed state.
FailSettle(t) ==
    /\ At(t, "failing")
    /\ ops' = [o \in OpIds |->
                  IF o \in todo[t] THEN FailureState(ops[o]) ELSE ops[o]]
    /\ todo' = [todo EXCEPT ![t] = {}]
    /\ state' = "Failed"
    /\ asleep' = {}
    /\ Go(t, "done")
    /\ UNCHANGED <<requestVars, cycleVars, closed, planVars, publicationVars,
                   viewVars, stopVars, local, sweep, history>>

-------------------------------------------------------------------------------
(* stop.  The owner calls it once no command thread is inside the runtime:  *)
(* the composition root destroys the servers and the CommandBus first.      *)

StopCall ==
    /\ OwnerMayStop
    /\ At(Stopper, "idle") /\ \A c \in Clients : pc[c] = "idle"
    /\ Go(Stopper, "gate")
    /\ UNCHANGED <<ops, sharedVars, viewVars, stopVars, todo, local, asleep,
                   sweep, history>>

\* A publication that claimed its boundary finishes first.  The request of the
\* sweep in flight is noted here and asked to cancel after the lock is gone.
StopGate ==
    /\ At(Stopper, "gate") /\ Stopper \notin asleep
    /\ IF finalizing
       THEN /\ asleep' = asleep \cup {Stopper}
            /\ UNCHANGED <<requestVars, cycleCancel, todo, local, pc, discarded>>
       ELSE /\ todo' = [todo EXCEPT ![Stopper] = Detached]
            /\ local' = [local EXCEPT ![Stopper].stop = activeStop,
                                      ![Stopper].active = CanceledInFlight]
            /\ pendingOp' = NoOp
            /\ activeRequest' = IF activeStop = NoStop THEN NoRequest
                                ELSE activeRequest
            /\ cycleCancel' = (activeStop # NoStop)
            /\ Go(Stopper, "detach")
            /\ discarded' = Replaced
            /\ UNCHANGED asleep
    /\ UNCHANGED <<ops, activeStop, activeIdentity, finalizing, lifeVars,
                   planVars, publicationVars, viewVars, stopVars, sweep, rounds,
                   goal>>

StopRequestCancel ==
    LET o == local[Stopper].active IN
    /\ At(Stopper, "cancel")
    /\ Go(Stopper, "signal")
    /\ IF o = NoOp THEN UNCHANGED <<ops, local>>
       ELSE IF CanRequestCancel(ops[o])
       THEN ops' = [ops EXCEPT ![o] = "CancelRequested"] /\ UNCHANGED local
       ELSE local' = [local EXCEPT ![Stopper].fault = TRUE] /\ UNCHANGED ops
    /\ UNCHANGED <<sharedVars, viewVars, stopVars, todo, asleep, sweep,
                   history>>

StopSignal ==
    /\ At(Stopper, "signal")
    /\ RequestStop(local[Stopper].stop)
    /\ Go(Stopper, "token")
    /\ UNCHANGED <<ops, sharedVars, viewVars, workerStop, todo, local, asleep,
                   sweep, history>>

StopToken ==
    /\ At(Stopper, "token")
    /\ workerStop' = TRUE
    /\ Go(Stopper, "notify")
    /\ UNCHANGED <<ops, sharedVars, viewVars, cycleStopped, todo, local,
                   asleep, sweep, history>>

StopNotify ==
    /\ At(Stopper, "notify")
    /\ asleep' = {}
    /\ Go(Stopper, "join")
    /\ UNCHANGED <<ops, sharedVars, viewVars, stopVars, todo, local, sweep,
                   history>>

StopJoin ==
    /\ At(Stopper, "join") /\ At(Worker, "done")
    /\ pc' = [pc EXCEPT ![Stopper] =
                 IF local[Stopper].fault THEN "throw" ELSE "done"]
    /\ UNCHANGED <<ops, sharedVars, viewVars, stopVars, todo, local, asleep,
                   sweep, history>>

-------------------------------------------------------------------------------
\* History: the sweeps a Restart replaced before they claimed publication, the
\* frame sets published for each Operation, and the number it was to publish.
HistoryInit ==
    /\ discarded = {}
    /\ rounds = [o \in OpIds |-> 0]
    /\ goal = [o \in OpIds |-> 0]

\* The constructor.  The exchange was made from the same initial status.
Init ==
    /\ ops = [o \in OpIds |-> "Absent"]
    /\ plan = PlanOf(Initial, 1, 0)
    /\ pending = NoPending
    /\ configured = 0
    /\ pendingOp = NoOp /\ activeRequest = NoRequest
    /\ activeStop = NoStop /\ activeIdentity = NoIdentity
    /\ finalizing = FALSE /\ cycleCancel = FALSE
    /\ closed = FALSE /\ state = "Running"
    /\ display = InitialView(plan, FALSE)
    /\ catalog = [plan |-> 1, gen |-> 1]
    /\ repository = [gen |-> 1, frame |-> NoFrame]
    /\ previews = [gen |-> 1, status |-> StatusOf(plan, display),
                   ident |-> NoIdentity, last |-> NoSweep]
    /\ crashed = FALSE
    /\ pc = [t \in Threads |-> IF t = Worker THEN "loop" ELSE "idle"]
    /\ todo = [t \in Threads |-> {}]
    /\ local = [t \in Threads |-> NoLocal]
    /\ asleep = {}
    /\ sweep = [seq |-> 1, ident |-> NoIdentity, emitted |-> 0,
                rejected |-> FALSE, op |-> NoOp, outcome |-> "Succeeded"]
    /\ cycleStopped = FALSE /\ workerStop = FALSE
    /\ HistoryInit

Source == ObserveRange \/ SourceReturns \/ SourceThrows
WorkerNext ==
    \/ CheckStop \/ PrepareCycle \/ WakeHeld \/ BeginCapture \/ Source
    \/ BuildFails \/ ClaimPublication \/ Publish
    \/ CompleteRound \/ CancelAfterSource \/ Reject \/ FailRequest
    \/ SettleOperation \/ NextSweep \/ Retire \/ CancelDetached(Worker)
    \/ Finish \/ FailTerminal(Worker) \/ FailSettle(Worker)
Settle(c) == CancelDetached(c) \/ SettleInvalidate(c) \/ SettleSignal(c)
StopNext ==
    \/ StopGate \/ CancelDetached(Stopper) \/ StopRequestCancel
    \/ StopSignal \/ StopToken \/ StopNotify \/ StopJoin
    \/ FailTerminal(Stopper) \/ FailSettle(Stopper)

Next ==
    \/ WorkerNext
    \/ \E c \in Clients : PrepareRestart(c) \/ Settle(c)
    \/ \E settings \in Settings : CommitConfiguration(settings)
    \/ ForeignCommit
    \/ SpuriousWake
    \/ StopCall \/ StopNext

Spec == Init /\ [][Next]_vars

\* Every thread that can take a step eventually does: the threads are real and
\* no lock is held across a wait.  The source returns because its simulation
\* delivers a finite sweep.  Commands, stop and spurious wake-ups need not come.
Fairness ==
    /\ WF_vars(WorkerNext)
    /\ \A c \in Clients : WF_vars(Settle(c))
    /\ WF_vars(StopNext)

FairSpec == Spec /\ Fairness

-------------------------------------------------------------------------------
(* Properties.                                                              *)

Seqs == Nat \ {0}
Identities == [gen : Nat, seq : Nat]
Plans == [gen : Seqs, rev : Nat, mode : Modes, count : Counts, setup : Setups]
Requests == [op : OpIds, left : Seqs]
Phases == {"Hold", "Preparing", "Sweeping", "Calculation", "Failed"}
Views == [phase : Phases, sweep : Nat, done : Nat, first : BOOLEAN]
Statuses == [gen : Seqs, rev : Nat, view : Views]
Exchanges == [gen : Seqs, status : Statuses, ident : Identities, last : Nat]
Repositories == [gen : Seqs, frame : [gen : Nat, rev : Nat, seq : Nat]]
Locals == [ident : Identities, stop : Nat, active : OpIds \cup {NoOp},
           fault : BOOLEAN]
Sweeps == [seq : Seqs, ident : Identities, emitted : Nat, rejected : BOOLEAN,
           op : OpIds \cup {NoOp}, outcome : Terminal]
Steps == {"idle", "detach", "invalidate", "signal", "cancel", "gate", "token",
          "notify", "join", "loop", "prepare", "held", "start", "source",
          "claim", "publish", "complete", "reject", "fail", "settle", "next",
          "retire", "finish", "throw", "failing", "done"}

RequestsTypeOK ==
    /\ ops \in [OpIds -> OperationStates]
    /\ pendingOp \in OpIds \cup {NoOp}
    /\ activeRequest \in Requests \cup {NoRequest}
    /\ todo \in [Threads -> SUBSET OpIds]
PlansTypeOK ==
    /\ plan \in Plans
    /\ pending \in [base : Seqs, plan : Plans] \cup {NoPending}
    /\ configured \in Nat
    /\ catalog \in [plan : Seqs, gen : Seqs]
    /\ repository \in Repositories
FlagsTypeOK ==
    /\ activeStop \in Nat /\ activeIdentity \in Identities
    /\ finalizing \in BOOLEAN /\ cycleCancel \in BOOLEAN
    /\ cycleStopped \in BOOLEAN /\ workerStop \in BOOLEAN
    /\ closed \in BOOLEAN
    /\ state \in {"Running", "Stopped", "Retired", "Failed"}
ViewsTypeOK ==
    /\ display \in Views
    /\ previews \in Exchanges
    /\ crashed \in BOOLEAN
ThreadsTypeOK ==
    /\ pc \in [Threads -> Steps]
    /\ local \in [Threads -> Locals]
    /\ asleep \subseteq {Worker, Stopper}
    /\ sweep \in Sweeps
HistoryTypeOK ==
    /\ discarded \subseteq Nat
    /\ rounds \in [OpIds -> Nat] /\ goal \in [OpIds -> Nat]

\* Types of the runtime's state, of its collaborators' state and of the threads'
\* local variables.
TypeOK == /\ RequestsTypeOK /\ PlansTypeOK /\ FlagsTypeOK /\ ViewsTypeOK
          /\ ThreadsTypeOK /\ HistoryTypeOK

\* The worker holds its cycle's operation from leaving the cycle to the next one.
HeldByWorker ==
    IF pc[Worker] \in {"settle", "throw"} THEN {sweep.op} \ {NoOp} ELSE {}
HeldByRuntime == {pendingOp, activeRequest.op} \ {NoOp}

\* No two parties refer to the same Operation.
Unshared ==
    /\ pendingOp # NoOp => pendingOp # activeRequest.op
    /\ HeldByWorker \cap HeldByRuntime = {}
    /\ \A t \in Threads : todo[t] \cap (HeldByWorker \cup HeldByRuntime) = {}
    /\ \A t, u \in Threads : t # u => todo[t] \cap todo[u] = {}

\* Every Operation the runtime refers to is in the state the next call on it
\* needs: markRunning of the queued one, requestCancel and complete of the
\* active one and of detached ones are never refused, however the admissions,
\* settlements and the worker interleave; and none is referred to twice.
HeldOperations ==
    /\ pendingOp # NoOp => ops[pendingOp] = "Queued"
    /\ activeRequest # NoRequest =>
         ops[activeRequest.op] \in {"Running", "CancelRequested"}
    /\ \A t \in Threads : \A o \in todo[t] : ops[o] \in Live
    /\ Unshared

\* An accepted Operation is not orphaned (sweep_runtime.hpp, RestartAdmission):
\* until it is terminal somebody is left to complete it.
NoOrphan ==
    \A o \in OpIds : ops[o] \in Live =>
        \/ o \in HeldByRuntime \cup HeldByWorker
        \/ \E t \in Threads : o \in todo[t]

\* The runtime never closes itself over a refused Operation transition: only a
\* throwing source or a foreign commit makes it fail.
RuntimeKeepsRunning == ~closed /\ pc[Worker] # "throw"

\* The process is never terminated: a status or an invalidation that comes late
\* is turned down by its sweep, revision and generation, as
\* docs/znb-sweep-runtime-spec.md has it.  The code violates it.
NeverTerminates == ~crashed

\* The exchange's status checks and the generation commits terminate the process
\* in one step only: the settlement of a Restart whose sweep is of a generation
\* that has given way to another since the admission.
TerminatesOnlyLate ==
    [][crashed' /\ ~crashed =>
         \E c \in Clients : /\ pc[c] = "invalidate" /\ pc'[c] = "signal"
                            /\ local[c].ident.gen < plan.gen]_vars

\* A Succeeded Operation had exactly the number of frame sets published that
\* its plan asked for when it was promoted, and an active one is on its way
\* there; one that ran and ended otherwise had fewer.
RoundsPublished ==
    \A o \in OpIds :
        /\ ops[o] = "Succeeded" => rounds[o] = goal[o]
        /\ ops[o] \in {"Failed", "Canceled"} =>
             goal[o] = 0 \/ rounds[o] < goal[o]
        /\ o = activeRequest.op =>
             rounds[o] + activeRequest.left =
                 goal[o] + (IF pc[Worker] = "complete" THEN 1 ELSE 0)

\* A frame set is never published by a sweep that a Restart replaced before it
\* claimed its publication.
DiscardedNeverPublished ==
    [][repository'.frame # repository.frame /\ repository'.frame # NoFrame
         => repository'.frame.seq \notin discarded]_vars

\* Catalog, repository, exchange and the applied plan are of one generation,
\* and a pending plan was made from the plan the catalog still has.
OneGeneration ==
    /\ {repository.gen, previews.gen, plan.gen} = {catalog.gen}
    /\ HasPending => CommitAccepted(pending)

\* The exchange's copy of the status is the runtime's.
StatusIsCurrent == crashed \/ previews.status = StatusOf(plan, display)

InCycle == pc[Worker] \in {"start", "source", "claim", "publish", "complete",
                           "cancel", "reject", "fail", "retire"}

\* The applied plan does not change under a sweep in flight.
PlanStableDuringSweep == [][InCycle => plan' = plan]_vars

\* The first-sweep marker is up from the change of generation to the first
\* complete frame set of that generation.
FirstMarker ==
    pc[Worker] # "complete" =>
        (display.first <=> plan.gen > 1 /\ repository.frame = NoFrame)

\* The last complete frame set survives canceled, failed and restarted sweeps:
\* it gives way only to that of a later sweep, taken under the plan the sweep
\* began with, or to a change of generation.
LastCompleteRetained ==
    [][repository'.frame # repository.frame =>
         \/ repository'.gen > repository.gen
         \/ /\ repository'.frame.seq > repository.frame.seq
            /\ repository'.frame.gen = sweep.ident.gen
            /\ repository'.frame.rev = plan.rev]_vars

\* Whoever advances the generation, in whatever step of the worker: a frame set
\* of an earlier generation is never what readers find afterwards.
FrameIsCurrent ==
    repository.frame # NoFrame => repository.frame.gen = repository.gen

\* A preview is only retained for the sweep in flight: while the runtime works
\* none outlives its sweep.  (A terminal failure withdraws the active sweep's
\* only, and a late settlement may have cleared that.)
NoLeftoverPreview ==
    previews.ident # NoIdentity =>
        /\ previews.ident = sweep.ident
        /\ InCycle \/ pc[Worker] \in {"throw", "failing"} \/ state = "Failed"

\* While the sweep is still the active one its progress is what the source has
\* delivered, so that progress never exceeds the workload.
ProgressIsExact ==
    pc[Worker] = "source" /\ activeIdentity = sweep.ident =>
        display.done = sweep.emitted

\* A worker asleep in phase Hold, with no Restart and no stop about to wake it,
\* has applied the latest configuration, whether that was committed while it
\* slept, while it was about to sleep or while its last sweep ran.
HoldIsCurrent ==
    Worker \in asleep /\ display.phase = "Hold" /\ pendingOp = NoOp
    /\ pc[Stopper] = "idle"
        => crashed \/ plan.rev = configured

\* A Restart starts its sweep under the latest committed configuration, which
\* takes effect at the next safe boundary (docs/znb-sweep-runtime-spec.md).  The
\* code violates it.
PromotedUnderLatestPlan ==
    [][pc[Worker] \in {"prepare", "held"} /\ pc'[Worker] = "start"
         /\ pendingOp # NoOp => plan'.rev = configured']_vars

\* Every admitted Operation reaches a terminal state.
OperationsEnd == \A o \in OpIds : (ops[o] \in Live) ~> (ops[o] \in Terminal)

\* A committed configuration is applied at the next safe boundary
\* (docs/znb-sweep-runtime-spec.md).  The code violates it.
ConfigurationsApplied == \A r \in 1..MaxRevision :
    (configured = r) ~> (plan.rev >= r)

\* The worker waits with another phase than Hold on display: Failed after a failed
\* Single sweep, or Preparing after a Restart that settled late.
RestsOutsideHold == pc[Worker] = "held" /\ display.phase # "Hold"

\* What is left of it: a committed configuration is applied, unless the worker
\* comes to rest outside Hold for good (or the process has been terminated).
AppliedUnlessResting == \A r \in 1..MaxRevision :
    (configured = r) ~> (plan.rev >= r \/ crashed \/ []RestsOutsideHold)

\* stop returns and the worker is gone: it is never left waiting for a claimed
\* publication, and the worker never for a wake-up that does not come.
StopReturns ==
    (pc[Stopper] # "idle") ~> (pc[Stopper] = "done" /\ pc[Worker] = "done")

\* Once stop has returned no Operation waits for an outcome (ADR-0008: failure
\* and cancellation must reach a definite terminal state).  The code violates
\* it.
StopSettlesOperations ==
    pc[Stopper] = "done" => \A o \in OpIds : ops[o] \notin Live
===============================================================================
