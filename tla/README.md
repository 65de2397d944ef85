# TLA+ models of the VNA instrument server

The repository is the control program of a vector network analyzer: a C++ server
(`src/vna/`) that sweeps a capture source, projects the sweeps into traces and
publishes them to browsers (`src/frontend/`), under commands that arrive from
several threads.  This directory holds TLA+ models of its concurrent core, of the
paths a configuration and a sweep take through it, and of the browser that draws
them; configurations of the model checker TLC; and theorems checked by TLAPS.

Paths below are relative to `src/`; file names without a path are those of
`vna/core/sweep/src/runtime/` or `vna/core/control/src/operation/`.

## 1. The system

| Component | State it keeps | Operations | Talks to |
|---|---|---|---|
| **Sweep runtime** `vna/core/sweep/.../runtime` | applied plan, pending configuration, queued and active Single request, identity and stop source of the sweep in flight, claim of the publication, display status, life-cycle state | one worker thread: prepare a cycle, capture, publish, complete, cancel, reject, retire, fail; command threads: prepareRestart + settle, commitConfiguration; owner: stop | calls the Operation manager, catalog, preview exchange and capture source; is called by the command bus and by `main` |
| **Operation manager and completion fences** `vna/core/control/.../operation` | Operations and their states; subscriptions with what they wait for | create, markRunning, requestCancel, complete; captureFence, subscribe, cancel, destructor | calls subscribers' callbacks on the thread that completes |
| **Command bus** `vna/core/control/.../command` | state revision, instrument, display workspace, ring of idempotency entries | dispatch: lookup, authorize, prepare, execute, cache, settle after unlocking | runtime (configurations, Restart), control authority |
| **Instrument, display model, preset** `vna/core/instrument`, `vna/core/display/model`, `vna/core/control/.../preset` | channels, measurements; windows, traces with format and scale | create, update, remove, All S-Params | owned by the command bus |
| **Control authority** `vna/core/control/.../authority` | who may command: local, SCPI session attached, remote, revoking | attach, activate, detach, take local control | calls the session's revoker outside the lock |
| **Acquisition, preview assembler** `vna/core/acquisition`, `vna/core/sweep/.../preview` | ranges received so far | captureRawSweep; append, range by range | capture source; the runtime's capture callback |
| **Preview exchange** `vna/core/sweep/.../preview` | generation, copy of the runtime's status, preview of the sweep in flight, latest event and cursor | publish, update, invalidate, advanceGeneration, waitForNext | written by the runtime, read by the web streams |
| **Trace publication catalog, display frame repository** `vna/core/display/publication` | publication plan, generation, retained frame set, latest frame per trace, wait states | prepare, commit, publishIfCurrent, publish, discard, waitForNext, waitForNextSet, queries | written by the runtime, read by the web interface |
| **Projection, measurement, simulation backend** | none | floating-point arithmetic | runtime's capture and publication |
| **Web interface** `vna/interfaces/web` | listeners, sessions, handlers and workers of the streams | listen, accept, refuse, stream, stop; JSON codecs | waits on repository and exchange |
| **Stop tokens, joining thread** `vna/foundation/cpp-compat` | requested flag, registered callbacks | request, register, unregister | everywhere |
| **Server** `vna/apps/vna-server` | owns all of the above | start, stop in order | |
| **Browser** `frontend/src` | connection pair, state snapshot, what is drawn, what is pending | reducers, commands, refresh | HTTP and two WebSockets |
| **Single-sweep executor, legacy publishers** `vna/core/sweep/.../pipeline` | one slot and its worker | submit, cancel, stop | no longer composed by the server |

What is hard, and what has to hold:

* *Restart against everything.*  A Restart is admitted under the bus's and the
  runtime's mutex, but what it replaces is settled after both are released.  By
  then the worker may have canceled, completed, failed or published the old
  sweep, started the next or changed the configuration.  Every Operation must
  still reach exactly one terminal state, by transitions that are never refused:
  a refused transition throws and takes the whole runtime down.
* *Publication.*  A sweep claims its publication under the lock and publishes
  without it.  A replaced sweep must not publish; a claimed one may finish; the
  last complete frame set survives everything but a change of generation.
* *Configurations* are prepared against the plan of today and applied at a later
  sweep boundary, where catalog, repository, exchange and plan change generation
  together.  Until then others may replace them, and a generation must still
  stand for one thing.  The edits themselves go through two models whose ids refer
  to each other.
* *Status.*  The runtime's status and the exchange's copy are written in many
  places under two mutexes; the exchange terminates the process when they differ
  in identity.
* *Two paths to a curve.*  What the preview shows while a sweep runs and what the
  frame set shows at its end are computed by different code.
* *Fences.*  Completion, subscription, delivery and cancellation race on three
  kinds of mutex; a wake-up must not be lost and a canceled callback must not run.
* *The bus*: at most one execution per command id for as long as its entry is
  retained, one configuration transaction, authority checked before effects, a
  lease that outlives its revocation until the session has detached.
* *Waiters and streams.*  A waiter sleeps across publications, discards, changes of
  generation and stop requests without losing a wake-up or taking a later frame
  for the one it lost.  Shutdown goes through listener, handler, worker, stop
  token and wait, each on a thread of its own.
* *The browser* merges two streams that skip what is not the newest with snapshots
  that overtake them and each other.
* *Failure and stop* can hit any of these states.

`PROJECT.json` lists every component with its status and the hazards at their lines.

## 2. The modules

| Module | What it is |
|---|---|
| `Operations` | The transition table of one Operation, as pure operators used by `SweepRuntime` and `CompletionFence`. |
| `SweepRuntime` | The runtime with its collaborators: worker, command threads, owner. |
| `SweepRuntime_proofs` | Type correctness; the Operations the runtime refers to. |
| `SweepRuntimeCycle_proofs` | The sweep cycle: publication, rounds, plan and generation, preview, status, Hold. |
| `FenceContract` | What a completion fence promises: the abstract specification. |
| `CompletionFence` | OperationManager and fences as concurrent threads; implements `FenceContract`. |
| `CompletionFence_proofs` | Types, both invariants, and the implementation of the contract. |
| `CommandBus` | The command bus with its idempotency ring and the control authority. |
| `CommandBus_proofs` | The lease of the bus, its ring of answers, its revision, and who may command. |
| `Workspace` | The configuration, every command that edits it, and the publication plans made from it. |
| `Workspace_proofs` | The references of a configuration, All S-Params, what a generation stands for. |
| `FrameRepository` | The display frame repository with its readers, wait states and stop callbacks. |
| `FrameRepository_proofs` | The wait states of the readers, and what a wait may answer. |
| `DisplayStreams` | Listener, handlers, sessions and workers of the WebSocket streams, and `WebApi::stop`. |
| `DisplayStreams_proofs` | What is left of a connection while it ends and while the server stops. |
| `SweepPreview` | A sweep on both its ways: captureRawSweep, assembler and exchange; frame set and repository. |
| `LiveDisplay` | One browser, composed with the streams and the sweeps of `SweepPreview`. |
| `LiveDisplay_proofs` | The two paths of a sweep, and what the browser draws. |
| `MC*` and the `.cfg` files | Their instances for TLC. |

How they fit together: `CommandBus` treats a payload as one new value of the
configuration and `Workspace` says what that value is; what a Restart does after it
has been admitted, and when a configuration is applied, is `SweepRuntime`'s.
`SweepRuntime` in turn takes the preview and the frame set of a sweep as one thing
each; `SweepPreview` says what is in them, with one runtime thread and without
Operations.  `FrameRepository` is the repository down to its condition variables,
which `DisplayStreams` uses with updates that notify in one step.  `LiveDisplay`
EXTENDS `SweepPreview`: its server is that module's, step for step.

### SweepRuntime

The variables carry the names of the members (`plan`, `pending`, `pendingOp`,
`activeRequest`, `activeStop`, `activeIdentity`, `finalizing`, `cycleCancel`,
`closed`, `state`, `display`), then the collaborators' state (`ops`, `catalog`,
`repository`, `previews`), then per thread a program counter and its local
variables.  One action is one critical section of the runtime mutex or one call
made outside it:

| Actions | Code |
|---|---|
| `PrepareRestart`; `CancelDetached`, `SettleInvalidate`, `SettleSignal` | `sweep_runtime_restart.cpp`: admission under the locks; then `settleRestart` step by step |
| `CommitConfiguration`, `Apply` | `sweep_runtime_configuration.cpp`: prepare and commit under one hold of the mutex, at once in Hold |
| `CheckStop`, `PrepareCycle`, `WakeHeld`, `SpuriousWake` | `run`, `prepareCycle` and its wait |
| `BeginCapture`, `ObserveRange`, `SourceReturns`, `SourceThrows` | `capture`, `observePreviewRange`, the source |
| `BuildFails`, `ClaimPublication`, `Publish`, `CompleteRound` | `complete`, `claimPublication`, `publishIfCurrent`, `completeRequestedSweep` |
| `CancelAfterSource`, `Reject`, `FailRequest`, `SettleOperation`, `NextSweep`, `Retire`, `Finish` | the other ends of a cycle |
| `FailTerminal`, `FailSettle` | `failTerminal`: the state first, the Operations after the unlock |
| `StopCall` ... `StopJoin` | `stop`, one action per step outside the lock |
| `ForeignCommit` | another holder of the catalog advances the generation (environment) |

Abstractions, all deliberate:

* Samples, frequencies and settings are a `setup`; progress is counted in `Points`
  ranges per sweep; whether a built preview is accepted is a choice.
* `CancelDetached` merges requestCancel and complete of one detached Operation, and
  `FailSettle` those of all: no other thread can still refer to them, which is
  itself what `Unshared` (in `HeldOperations`) states and `HeldCorrect` proves.
* Sweep counters and `lastSweepFailure` are left out; the runtime never reads them.
* The exchange is modelled by what the runtime writes and the checks it makes; its
  events, cursors and waiters are in `SweepPreview` and `DisplayStreams`.
* `stop` begins when no command thread is inside the runtime, as `main.cpp`
  destroys the servers and the bus first.  Admission after stop is not modelled.
* `run` and `capture` read `plan_` without the mutex while a command thread may
  write it.  This is benign only if the plan never changes under a sweep;
  `PlanStableDuringSweep` checks exactly that.
* `discarded`, `rounds` and `goal` are history variables read by no action.

### CompletionFence

`ops`/`session` are the manager's map; `phase`, `outstanding`, `callbackThread`
are the fields of a subscription; `registered`, `shutdown` those of the
coordinator.  Subscriptions are numbered in the order of `subscribe`, which is the
coordinator's order.  `Complete` is `complete` up to the release of the manager's
mutex; `ClaimFirst`/`CompleteReturns` are one call of `claimNextTerminal`, one
action because the coordinator's mutex is held throughout; `BeginCallback`,
`EndCallback`, `Remove` are `deliver`.  `Subscribe` holds manager and coordinator
mutex; with nothing to wait for it goes on to deliver on the same thread.
`Cancel`/`CancelReturn` are cancelSubscription before and after its wait;
`Destroy`, `DestroySubscription` the destructor.  `MayCapture` bounds the fences;
the callbacks' only modelled effect is to cancel subscriptions
(`CallbackCancels`); a callback that completes further Operations is not modelled.

### CommandBus

`revision`, `config` (instrument and workspace), `entries`/`nextEntry` (the ring)
and `lease` are the bus's members; `runtime` is all the bus sees of the sweep
runtime: it accepts, refuses what it cannot sweep, or is closed.  `dispatch` holds
the bus's mutex from lookup to the storing of the answer, so each of its outcomes
is one action, guarded in the order of the code's checks: `Refuse` (instrument,
id reuse, control), `Replay`, `Conflict`, then by payload `Invalid`, `Unchanged`,
`Configure`, `ConfigureRefused`, `Restart`, `RestartRefused`.  Outside the mutex
remain `Settle` (its effects are those of `SweepRuntime`) and `Revoke`, the call of
a session's revoker by `takeLocalControl`.  A payload is one new value of the
configuration, a Restart, or invalid; an update to the same value succeeds without
a revision (`Unchanged`); which command is which in what configuration is `Workspace`'s matter.
The repository has no SCPI adapter yet: sessions follow
the contract beside `CommandBus` (`command_bus.hpp:120`), fresh identities and no
dispatch after detach.  Calls that fail or repeat what is there, and the ring's
counters, are left out.  `log`, `reply`, `appliedAt`, `seen`, `standing` and
`revoked` are history.

### Workspace

`state` is the instrument and the workspace of the bus, `applied` and `pending` the
plans.  A command is one action, because the bus holds its mutex from the candidate
to the commit: each operator (`CreateChannel` ... `EnsureAllSParameters`) gives the
outcome of the command's handler, `success` without a change, an error, or
a candidate, and `Command` commits a candidate if the catalog and the runtime
prepare a plan for it.  Ids count from 1 and only traces are removed, so an id is a place in
a sequence.  `Prepared` is `TracePublicationCatalog::prepare`: the targets, whether
they are materially those of the applied plan, and with them the generation, which
is the applied one or its successor whatever is pending; `Apply` is the sweep
boundary.  A sweep setting is a value; `Narrowed` is the cast of its bandwidth to
32 bits.  `named` is history: all that a generation has stood for.

Seen while modelling, none of it a violation of a stated property: `isValidSweep`
bounds neither points nor bandwidth, so a configuration can be accepted that
every later sweep fails on; a plan without traces fails every sweep, too; after
`RemoveTrace` and `CreateTrace` All S-Params succeeds on traces whose ids are not
those the second All S-Params expects, and is refused then (the Web decoder has no
`RemoveTrace`, so no browser can get there).  A scale command that changes nothing
commits a new revision in the code; the models keep the revision then, which no
property tells apart.

### FrameRepository

What is done under the repository's mutex is one action (`PublishSet`, `Publish`,
`AdvanceGeneration`, `Discard`, `Register`, `Release`, `Resolve`), except that a
reader holds the mutex from its predicate into its sleep (`Obtain`, `Decline`, then
`FallAsleep`); notifications after an unlock are actions of their own (`NotifyOne`).
A reader that comes through the query validates its binding between registration
and wait, without the mutex, and has a stop token: `Arm`, `RequestStop`,
`BeginCallback`, `RunCallback`, `Disarm` are `StopCallback` with its own mutex and
its wait for a callback that runs.  Wait states are objects shared between the map
and the readers (`entry`, `reader[r].state`), so one can outlive its erasure.  Both
compositions of the repository are in it: whole sets under generations, as the
server has it, and single frames with discards (`legacy`).  `lost` is history.

### DisplayStreams

Each connection has a handler thread and a worker thread, each listener and
`WebApi::stop` one more; the variables are their places and the members of
`DisplayFrameStream::Impl` and of its sessions.  The stop of a session runs
through three objects, and each hand-over is a step: `cancel` is the thread that
runs `cancelWorker` (the handler itself, or stop), `notify` the callback the
worker's wait has armed in the repository or the exchange.  httplib is external
and modelled from how it is used: it calls the start callback once it listens,
returns from listen after its handlers have returned, and `Server::stop` does
nothing unless it is running.  A client is a cursor; an event is a generation and
a number.

### SweepPreview

A setup maps traces to the source port their measurement needs and to their format;
a sample is the sweep and point it was measured at and what may be wrong with it (a
zero reference, a zero response).  `Deliver` is one chunk through
`captureRawSweep` and the runtime's observer: append to the assembler, publish the
preview, or reject the rest of the sweep's previews.  `Calculate`, `ProcessingFails`,
`Publish` are the path of the whole sweep.  Between two chunks Restarts and
configurations come.  The mode is Single and how many rounds are asked for is left
open; Continuous mode, failures of the source and all Operations are in
`SweepRuntime`, as is the settlement of a Restart as a step of its own: here it is one
step with the admission.

### LiveDisplay

`session` and `lanes` are the connection pair of `LiveDisplaySession`, `fetches`
the state requests in flight, `snapshot`, `display` and `pending` the refs and
variables of `App.vue`, `command` the command whose answer is on its way.  The
reducers of `displayFrameSetState.ts` are operators of the same shape.  A stream
sends the newest thing it has not sent and has at most one message on its way;
answers of the state handler say what was true when the request was served and
arrive at any time.  `late` is a frame set on its way when the pair was given up: the browser ignores it by the
connection's generation.  The other client only configures.  Of a status the browser's logic reads
whether the runtime is in Hold.  The mode is Single, as in `SweepPreview`.  The snapshot is
refreshed at a sweep boundary, after a command and by the session, and at no other time.

Operators marked "Faulty variant" in a module belong to no specification.  They are
the plausible bugs each property was tried against.

## 3. What the runs check

All bounds are CONSTANTS, named `Max...` (in `SweepRuntime` also `Points`,
`FreeSweeps`, `ForeignGeneration`) and bound what the environment does, never what
the code does in answer.  `CHECK_DEADLOCK FALSE` everywhere: in Hold with
nothing to do the worker rests for good, readers sleep for ever when nobody
publishes, and all commands are bounded.

| Run | Instance | Distinct states | Shows |
|---|---|---|---|
| `restart` | 2 clients, Continuous, source fails or throws, 2 Operations | 130 k | `HeldOperations`: no transition of an Operation is refused; `OperationsEnd` (liveness): every Operation ends, through terminal failure too; `DiscardedNeverPublished`; `StatusIsCurrent`, `NoLeftoverPreview`: what a client sees |
| `configuration` | 1 client, 2 setups, both modes, 1 Operation, 2 configurations, failing source, refusing repository | 343 k | `OneGeneration`, `HoldIsCurrent`, `PlanStableDuringSweep`, `LastCompleteRetained`; `TerminatesOnlyLate` and `AppliedUnlessResting` (liveness): how much of two promises is kept that the code breaks (section 4) |
| `stop` | Single, 1 or 2 rounds, stop at every point, failing and throwing source, foreign generation | 202 k | `RoundsPublished`: Succeeded means exactly the asked frame sets, any other outcome fewer; `FrameIsCurrent`; `StopReturns` (liveness) |
| `fences` | 3 threads, 2 Operations, 2 subscriptions, mutual and self cancel | 238 k | `NoLostFence`, `QuietOnceReleased`, `CancelReturns`, and `ImplementsContract`: the manager refines `FenceContract`, its liveness included |
| `bus` | 1 Web thread, 2 SCPI sessions, 1 thread that takes control, 8 commands, ring of 2, 4 answers | 269 k | `AtMostOnce`, `SameAnswer`: one effect and one answer per command while it is retained, across changes of control; `ExpectedIsActual`: a revision names one state; `LeaseUntilDetach` |
| `waits` | 2 traces, 2 readers of one of them, one with a stop token; 2 updates, 3 sequence numbers, 2 generations | 294 k | `WaitStatesAgree`, `NoFrameAfterLoss`; `WaitersReturn` (liveness) |
| `streams` | 2 clients, one of each stream, room for one session, 1 listener, stop | 271 k | `NothingOutlivesItsOwner`; `ShutdownReturns`, `StreamCatchesUp` (liveness) |
| `workspace` | 3 valid sweep settings, two of them one after narrowing, 2 formats, 3 configurations | 81 k | `ReferencesHold`, `AllSShowsAll`, `GenerationNamesOneIdentity` |
| `preview` | 2 ports, 4 points in chunks of 2, 4 setups, 3 sweeps, 2 bad samples | 208 k | `PathsAgree` |
| `display` | 1 browser and another client; 2 sweeps, 2 configurations, 1 lost connection or failed request, any 3 of them together | 2.2 M | `OneGenerationDrawn`, `AllSWhole`, `ScreenNeverGoesBack` |

*Why the bounds are enough.*  Two Restarts let one replace another that is queued,
promoted, finished or unsettled; two configurations let one find another pending,
three one that replaced another; two rounds give "between two rounds"; a ring of
two with four answers evicts an entry whose command runs again.  In `configuration`
one Restart, whose settlement may come after both configurations, is enough for a
late withdrawal and for the worker to rest outside Hold.  In `waits` two
updates drop a trace and bring it back while a reader sleeps, and two readers of
one trace are needed for one to erase the wait state of the other.  Both watch the
same trace: that no two traces share a wait state is what the theorem `WaitsCounted`
shows, not this run.  In `streams` the second
client is the one that is refused, or that connects while stop is at the
first; two generations and an event each put a client two events behind.  In
`preview` a port takes two chunks, so that a port's first chunk, a later one and
the change of the port all occur, before and after a bad sample, with crossed ports
(`Swapped`) and without a trace.  In `display` two sweeps are an older and a newer
curve and two configurations an All S and something that overtakes it; one lost
pair leaves a late message.  `MaxTogether` keeps the three from occurring all at
their bounds: each of the hazards listed for the browser takes at most three.

*Fairness.*  Each thread that can take a step eventually does: they are real
threads, none holds a lock across a wait for another one (a revoker is called
without a lock and returns), and the source returns because the simulation delivers
a finite sweep.  Weak fairness of the worker, of each thread's settlement, of stop,
of delivery and of a cancel, of each reader inside a call and the thread that stops
it, of each handler, stream worker, listener and the stopper says just that, and
in `stale_partial` that messages and answers arrive.  Nothing makes commands,
publications, clients, stop, a cancel, the completion of an Operation or a spurious
wake-up come; in `fences` callbacks return, and callbacks cancel in one direction
only (two that wait for each other deadlock, which the code leaves to its callers).

*Stated without a run.*  Some properties stand in the modules, hold in the instance
named, and are left out of the runs because another one there says more:
`ProgressIsExact` (`restart`; the exception "progress exceeds workload" in
`observePreviewRange` is unreachable while the sweep is the active one),
`FirstMarker` (`configuration`), `RuntimeKeepsRunning` (`restart` without a throwing
source), `OnlyController` and `TakenIsRevoked` (`bus`).

`NoLeftoverPreview` exempts a runtime that has failed: a Restart that settles late
clears the identity of a newer sweep, and the failure then has nothing to withdraw.

## 4. Known disagreements

The code breaks six of the stated properties.  Two have a run that TLC must find
violated; `PROJECT.json` quotes the sentences they contradict.

* `orphan` (`NoOrphan`): a Restart between the claim of a non-final round of a
  Single request and the next cycle asks the active Operation to cancel; the round
  succeeds, and `prepareCycle` overwrites `activeRequest_` with the new request.
  The old Operation stays CancelRequested for ever.
* `stale_partial` (`WithdrawnPartialGoes`): the browser drops its partial curve on an
  `invalidated` event only if the event is about the sweep it shows.  The stream
  sends the newest event only: a browser that missed the end of the sweep it shows
  and is told of the invalidation of the next keeps the old partial curve, in Hold
  for good.

TLC finds the other four violated in the same way, in an instance of `SweepRuntime`
with one client, one Operation, one range per sweep, everything that may fail or stop
switched off and `FreeSweeps` at 1, changed as named.  They have no run of their
own; for the first two the run `configuration`, in which they occur, checks how far the
promise is kept.

* `NeverTerminates` (Continuous, two setups, one configuration): a Restart that settles
  after a configuration changed the generation withdraws an identity of the old
  generation with a status of the new one (`sweep_runtime_restart.cpp:45`); the
  exchange calls `std::terminate` (`sweep_preview_status.cpp:86`), where
  `docs/znb-sweep-runtime-spec.md:155` has what is late turned down.
  `TerminatesOnlyLate` says, and `TerminationLate` proves, that this is the only way.
* `ConfigurationsApplied` (`FairSpec`, Single, the source may fail, one configuration):
  after a failed Single sweep the worker rests in phase Failed
  (`sweep_runtime_control.cpp:14`; `docs/znb-sweep-runtime-spec.md:203` has it go to
  Hold); a configuration committed then stays pending until somebody restarts, since only phase
  Hold applies at once, against line 224 of the document ("at the next safe boundary").
  A late settlement that writes Preparing over Hold (`sweep_runtime_restart.cpp:47`) has
  the same effect.  `AppliedUnlessResting` says that there is no third way, and
  `HoldIsCurrent` that it does not happen in phase Hold.
* `PromotedUnderLatestPlan` (Single, one configuration): a held worker applies the
  pending configuration before it waits, not after; a Restart that wakes it runs under
  the plan it went to sleep with if the configuration came in between
  (`docs/znb-sweep-runtime-spec.md:84`: under the latest committed plan).
* `StopSettlesOperations` (Continuous, stop): stop discards the sweep under the lock and
  asks its Operation to cancel after it (`sweep_runtime.cpp:58`); the worker completes
  the still Running Operation as Canceled, which is refused, and the Operation is left
  live, against line 20 of ADR-0008.

## 5. What is proved

TLAPS checks every theorem for any values of the constants, under the named
assumptions of the modules only: bounds are naturals, the worker and the owner are
not clients, outcomes are terminal states, the value that stands for no session is
none of them.

* `SweepRuntime_proofs!TypeCorrect`: `Spec => []TypeOK`, one lemma per action.
* `SweepRuntime_proofs!HeldCorrect`: `Spec => []HeldOperations`.
  `HeldOperations` is not inductive.  `HeldInv` adds that what the worker is about to
  complete is live (`CompletingLive`), that no Operation of the last cycle is left
  when one begins (`NothingCompleting`), and that nobody queues a request once stop
  has emptied the queue (`NoneQueuedAfterStop`): without it stop could ask a queued
  Operation to cancel.  The steps fall into three kinds, each a lemma: those that
  touch no Operation, those that settle detached ones, and those that leave the cycle.
* `CompletionFence_proofs`: `FenceTypes`, `FencesNotLost` (`Spec => []NoLostFence`),
  `CanceledQuiet` (`Spec => []QuietOnceReleased`) and `ContractImplemented`
  (`Spec => Contract!Spec`).  The inductive invariant `FenceInv` ties a thread inside
  `deliver` to the phase of what it delivers and back (`StepsAgree`,
  `ClaimedBySomebody`), says that a claim implies the end of all that was captured
  (`ClaimedEnded`), and that the destructor is alone (`Alone`).  `ContractImplemented`
  has one lemma per action: it ends an Operation, calls, returns, cancels,
  subscribes, or is a stutter of the contract.
* `CommandBus_proofs`.
  `LeaseCorrect` (`Spec => []LeaseUntilDetach`): that a revoker is
  called at most once rests on the threads about to call one, so `LeaseInv` adds
  where the owner of each kind of lease stands (`OwnerStands`) and that every such
  thread has a session of its own, taken over and not revoked yet (`RevokersOwed`).
  `EffectsOnce` (`Spec => AtMostOnce`) and `AnswersRepeat` (`Spec => SameAnswer`): both
  rest on the ring holding the last `Capacity` answers, so `RingInv` counts.  The age
  of a slot (`Age`) is its distance from the slot written next.  Each of the last answers is
  in the slot of its age (`LogRetained`), so is the key of each of the last effects
  (`EffectsRetained`), and no key is in two slots (`UniqueKeys`).
  `RevisionNamesState` (`Spec => ExpectedIsActual`) and `ControllerOnly` rest on `ControlInv`: what was seen with the revision of now is what is now.
* `Workspace_proofs`.  `GenerationsTell`: `PlansInv` says that nothing has been named beyond
  the applied generation, and that the pending plan is of its successor or is the same in
  identity.  `ReferencesCorrect`: `WorkspaceInv` (`Sound`) gives every trace a window and a
  measurement, every measurement a channel, and a scale where its format has one; one
  lemma per command.
  `AllSCorrect`: what `EnsureAllSParameters` leaves when it succeeds, from any
  configuration and anchor.
* `FrameRepository_proofs`: `RepositoryTypes`, `WaitsCounted`
  (`Spec => []WaitStatesAgree`), `NothingAfterLoss` (`Spec => []NoFrameAfterLoss`).
  `TypeOK` and `WaitStatesAgree` need each other: a count is a number because of who is
  counted, and no two traces share a wait state because one that nobody holds can
  always be found (`NotifyingFew`).  `LossShows` adds that a reader's count of discards
  tells when its trace was dropped, also from a wait state that was erased meanwhile.
* `DisplayStreams_proofs`: `StreamTypes`, `NothingOutlives`
  (`Spec => []NothingOutlivesItsOwner`).  `StreamInv` relates a handler's place to its
  session, worker, stop callback and slot in the registry, and the stopper's place to
  what it has already emptied.
* `SweepRuntimeCycle_proofs`, on `TypeCorrect` and `HeldCorrect`:
  `FrameCurrent`, `DiscardedQuiet`, `PlanStable`, `CompleteRetained` from `CycleInv` (what
  the identity, the claim and the generation are while a sweep is in flight, and that a
  discarded sweep has no claim);
  `RoundsCounted` from `RoundsInv` (nothing is published for an Operation that has not
  run, and one about to succeed has had its rounds) and `ShortUnlessSuccess` (one that
  has had its rounds is on its way to succeed, and nothing comes between);
  `PreviewWithdrawn` from `PreviewStands`;
  `HoldApplied` (`HoldIsCurrent`) from `RestStands` and `LatestStands` (nothing is
  pending for a worker that waits in Hold undisturbed, and the latest configuration is
  the pending one or else the applied one).
  These hold whoever else commits to the catalog.  Three need that nobody does
  (`SoleOwner`, as `main.cpp` composes the server: the foreign commit is the
  environment's, for the checks that guard against it): `GenerationsTogether`
  (`OneGeneration`), `StatusReaches` (`StatusIsCurrent`) and `TerminationLate`
  (`TerminatesOnlyLate`).  The last rests on `ViewStands` (every status shown is valid)
  and `LateSettles` (a Restart that has yet to settle was admitted under the applied
  generation or an earlier one), and leaves just the step that violates
  `NeverTerminates`.

* `LiveDisplay_proofs`, from the samples to the screen.
  `PathsMeet` (`PreviewSpec => []PathsAgree`): in `PreviewInv` the exchange is of the
  plan's generation and shows the worker's sweep or none (`ExchangeStands`), points are captured in order
  (`CaptureStands`), and while nothing of a sweep was bad the assembler holds the
  samples of just the traces whose port was begun, and the exchange retains that
  (`Assembling`).  That the exchange's checks never turn such a preview down is proved
  (`PreviewAccepted`), and that a bad sample of an earlier chunk stays bad for the whole
  (`BadStays`).
  `OneGeneration`, `AllSAtOnce` and `NeverBack` (`Spec => []OneGenerationDrawn`,
  `AllSWhole`, `ScreenNeverGoesBack`) rest on `LiveInv`.  What is retained, told and
  published carries the sweep it was measured in (`SweepsTold`); a message on its way
  says of each curve what the server knew of it (`MessagesTold`); after All S nothing is
  drawn (`NothingUnderAllS`); and what is drawn is no newer than the frame set on its
  way, which is no newer than the repository's or, when that has none, than the sweep
  in flight (`Ordered`): this is what survives reconnects and generations.  The streams'
  and the reducers' updates each have a lemma; answers may come in any order.

The model was changed for the proofs in three ways.  `AcceptPreviewEvent` compares the
generation before it looks at the type, as its source does: written as arms of
one `CASE` the order was left to the evaluator.  Assumptions that the code justifies
and the instances satisfied are stated now: commands have a payload of the
configuration's values and `NoEntry` is none of the ring's entries; the value for no
scale is no valid scale; there is a trace, and a generation, for the repository to
have; listeners are finite; what a trace measures has a source port that is swept.  And
`FrameRepository` takes a fresh wait state from `1..(2 * Cardinality(Traces) +
Cardinality(Readers))` instead of counting upwards.

Every invariant and every action property that a passing run checks is proved, those of
the runtime that need it under `SoleOwner`.  Only model-checked: all liveness, which TLAPS does not reach; what section 3 states without a
run, except `OnlyController`, which is proved.

## 6. Not modelled, and the plan

Not modelled:

* `ContinuousAcquisition`, `SingleSweepExecutor` and the legacy publishers: the server
  no longer composes them, only tests do.
* JSON codecs, decoders, the business log, paths (formatting, parsing and I/O).  The
  HTTP handlers of single frames and Operations: one call, one answer, no state.
* The values of projection, measurement and the simulation: floating-point
  arithmetic without state.  What can fail in them is in `SweepPreview`.
* Of the browser: commands that only send and refresh (channel settings, sweep
  control, scale), All S that changes nothing, leaving the page, and the Vue
  components (rendering).
* Admission of a Restart after stop (section 2), callbacks of fences that complete
  further Operations, callbacks on two threads that cancel each other.
* Build and packaging.

Next, in this order:

1. The composition of `CommandBus` with `SweepRuntime`, where Restart and
   configuration become steps of dispatch: the revision the bus answers with is the
   one the runtime's plan reaches.
2. `RuntimeKeepsRunning` in Continuous mode without throwing sources, for TLC.
3. `Operations`: that what the runtime and the fences do to an Operation are steps of
   one life cycle, as a refinement of a common abstract specification.
