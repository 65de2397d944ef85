------------------------------ MODULE LiveDisplay ------------------------------
(***************************************************************************)
(* One browser and what it draws (App.vue, liveDisplaySession.ts,          *)
(* displayFrameSetState.ts), composed with the sweeps of SweepPreview and  *)
(* with the two stream handlers of the Web interface.                      *)
(*                                                                         *)
(* A stream sends the newest thing it has not sent yet and skips the rest; *)
(* a lane is one WebSocket with at most one message on its way.  Its       *)
(* baseline refuses nothing here: a stream's cursor only moves forward.    *)
(* State snapshots travel by other connections, so their answers overtake, *)
(* and are overtaken by, each other and the messages of the lanes; what an *)
(* answer says is read when the request is made.                           *)
(*                                                                         *)
(* Of the commands the two that change what a trace is, and All S, are     *)
(* modelled; another client may Configure.                                 *)
(***************************************************************************)
EXTENDS SweepPreview

CONSTANTS OtherClients,  \* are there other clients?
          MaxLosses,     \* bound on lost connections and failed requests
          MaxTogether    \* bound on these, sweeps and configurations together
ASSUME BrowserAssumption ==
    OtherClients \in BOOLEAN /\ MaxLosses \in Nat /\ MaxTogether \in Nat

VARIABLES session,    \* LiveDisplaySession: "refreshing", "open", "waiting"
          lanes,      \* per stream: whether there is something newer than what
                      \* was sent, and what is on its way
          late,       \* the frame set on its way when the pair was given up
          fetches,    \* refreshState calls in flight, by who wants them
          snapshot,   \* state.value
          display,    \* display.value
          pending,    \* pendingFrameTraceId, pendingAllSParametersRevision and
                      \* refreshedSweepBoundaryKey
          command,    \* the command whose answer is on its way
          losses

browserVars == <<session, lanes, late, fetches, snapshot, display, pending, command, losses>>
vars == <<previewVars, browserVars>>

Callers == {"session", "command", "boundary"}
NoTrace == "no trace"
Nothing == [type |-> "nothing"]
NoFetch == [type |-> "none"]
\* The state handler's answer: the bus's state, the runtime's plan.
Answer == [type |-> "answer", rev |-> state.rev, setup |-> state.setup,
           gen |-> plan.gen, applied |-> plan.rev]
NoSnapshot == [rev |-> 0]
NoPartial == [ident |-> Nobody, rev |-> 0, traces |-> <<>>]
NoStatus == [held |-> FALSE]
NoCommand == [type |-> "none"]
EmptyDisplay ==
    [gen |-> 0, complete |-> <<>>, partial |-> NoPartial, status |-> NoStatus]
NewPair == [complete |-> [news |-> published # NoSet, message |-> Nothing],
            preview  |-> [news |-> TRUE, message |-> Nothing]]
NoPair == [complete |-> [news |-> FALSE, message |-> Nothing],
           preview  |-> [news |-> FALSE, message |-> Nothing]]

Only(f, S) == [x \in DOMAIN f \cap S |-> f[x]]

-------------------------------------------------------------------------------
(* The streams.                                                             *)

\* What a message says of a trace: how its samples were made, of which sweep
\* they are and how many there are.
Curve(gen, rev, t, samples) ==
    [look |-> plan.setup[t], gen |-> gen, rev |-> rev, sweep |-> samples[1].sweep,
     points |-> Len(samples)]

\* Only frame sets and previews of the plan in force are ever there to be sent.
Curves(gen, rev, traces) == [t \in DOMAIN traces |-> Curve(gen, rev, t, traces[t])]

Together == sweep.id + (state.rev - 1) + losses

\* A step of the server, and what it gives the streams to send.
ServerStep(step) ==
    /\ step
    /\ sweep'.id + (state'.rev - 1) + losses <= MaxTogether
    /\ lanes' = [lanes EXCEPT
         !.complete.news = /\ published' # NoSet
                           /\ @ \/ (session = "open" /\ published' # published),
         !.preview.news = @ \/ (session = "open" /\ exchange' # exchange)]

StreamComplete ==
    /\ session = "open" /\ lanes.complete.message = Nothing
    /\ lanes.complete.news
    /\ lanes' = [lanes EXCEPT !.complete =
         [news |-> FALSE,
          message |-> [type |-> "set", gen |-> published.gen, rev |-> published.rev,
                       curves |-> Curves(published.gen, published.rev, published.frames)]]]
    /\ UNCHANGED <<previewVars, session, late, fetches, snapshot, display, pending, command, losses>>

\* Of a status the browser's logic reads whether the runtime is in Hold.
Told(st) == [gen |-> st.gen, rev |-> st.rev, held |-> st.phase = "hold"]

StreamPreview ==
    /\ session = "open" /\ lanes.preview.message = Nothing
    /\ lanes.preview.news
    /\ LET event == exchange.event IN
       lanes' = [lanes EXCEPT !.preview =
         [news |-> FALSE,
          message |-> [type |-> event.type, ident |-> event.ident,
                       rev |-> event.preview.rev, active |-> event.active,
                       curves |-> Curves(event.ident.gen, event.preview.rev,
                                        event.preview.traces),
                       status |-> Told(event.status)]]]
    /\ UNCHANGED <<previewVars, session, late, fetches, snapshot, display, pending, command, losses>>

-------------------------------------------------------------------------------
(* The reducers of displayFrameSetState.ts.                                 *)

BelongsToSnapshot(curves, setup, t) ==
    t \in DOMAIN setup /\ curves[t].look = setup[t]

Belonging(curves, snap) ==
    Only(curves, {t \in DOMAIN curves : BelongsToSnapshot(curves, snap.setup, t)})

AcceptComplete(set) ==
    IF set.gen < display.gen THEN display
    ELSE LET changed == set.gen > display.gen IN
         [gen |-> set.gen, complete |-> Belonging(set.curves, snapshot),
          partial |-> IF changed THEN NoPartial ELSE display.partial,
          status |-> IF changed THEN NoStatus ELSE display.status]

CompatibleRevision(rev) == rev \in {snapshot.rev, snapshot.applied}

\* currentPartial with projectionAxis: the configured axis, the axis of the same
\* sweep's earlier partial, or the points of complete frames.
AcceptsPartial(event) ==
    /\ CompatibleRevision(event.rev)
    /\ \A t \in DOMAIN event.curves : BelongsToSnapshot(event.curves, snapshot.setup, t)
    /\ \/ event.rev = snapshot.rev
       \/ display.partial.ident = event.ident /\ display.partial.rev = event.rev
       \/ \A t \in DOMAIN event.curves :
            /\ t \in DOMAIN display.complete
            /\ display.complete[t].gen = event.ident.gen
            /\ display.complete[t].rev = event.rev

EventGeneration(event) ==
    IF event.type \in {"status", "generationAdvanced"}
    THEN event.status.gen ELSE event.ident.gen

\* Faulty variant: what is drawn survives into the next generation.
BaseKept(event) == [display EXCEPT !.gen = EventGeneration(event)]
Base(event) ==
    IF EventGeneration(event) > display.gen
    THEN [display EXCEPT !.gen = EventGeneration(event), !.complete = <<>>,
                         !.partial = NoPartial]
    ELSE display

AcceptAvailable(event) ==
    IF AcceptsPartial(event)
    THEN [Base(event) EXCEPT
            !.partial = [ident |-> event.ident, rev |-> event.rev, traces |-> event.curves],
            !.status = event.status]
    ELSE display

AcceptAdvanced(event) ==
    [Base(event) EXCEPT !.complete = <<>>, !.partial = NoPartial, !.status = event.status]

AcceptInvalidated(event) ==
    [Base(event) EXCEPT !.partial = IF @.ident = event.ident THEN NoPartial ELSE @,
                        !.status = event.status]

AcceptStatus(event) ==
    [Base(event) EXCEPT !.partial = IF @.ident = event.active THEN @ ELSE NoPartial,
                        !.status = event.status]

\* acceptSweepPreviewEvent.
AcceptPreviewEvent(event) ==
    IF EventGeneration(event) < display.gen THEN display
    ELSE CASE event.type = "available" -> AcceptAvailable(event)
           [] event.type = "generationAdvanced" -> AcceptAdvanced(event)
           [] event.type = "invalidated" -> AcceptInvalidated(event)
           [] OTHER -> AcceptStatus(event)

\* retainLiveDisplayForSnapshot.
Retain(snap) ==
    LET same == display.gen = snap.gen
        kept == Belonging(display.partial.traces, snap)
    IN  [gen |-> snap.gen,
         complete |-> IF same THEN Belonging(display.complete, snap) ELSE <<>>,
         partial |-> IF /\ same /\ DOMAIN kept # {}
                        /\ display.partial.rev \in {snap.rev, snap.applied}
                     THEN [display.partial EXCEPT !.traces = kept] ELSE NoPartial,
         status |-> IF same THEN display.status ELSE NoStatus]

Cleared(shown) == [shown EXCEPT !.complete = <<>>, !.partial = NoPartial]

WithoutTrace(shown, t) ==
    LET traces == Only(shown.partial.traces, DOMAIN shown.partial.traces \ {t}) IN
    [shown EXCEPT
        !.complete = Only(@, DOMAIN @ \ {t}),
        !.partial = IF DOMAIN traces = {} THEN NoPartial ELSE [@ EXCEPT !.traces = traces]]

-------------------------------------------------------------------------------
(* Messages arrive (replaceFrameSet, replacePreview).                       *)

\* Faulty variant: the revision alone counts.
IsNewEnough(set) == snapshot.rev >= pending.allS

\* replaceCompleteDisplayFramesForSnapshot: all of the snapshot's traces, no
\* other, under its revision.
IsWhole(set) ==
    /\ snapshot.rev >= pending.allS /\ set.rev = snapshot.rev
    /\ DOMAIN set.curves = DOMAIN snapshot.setup
    /\ \A t \in DOMAIN set.curves : BelongsToSnapshot(set.curves, snapshot.setup, t)

FrameSetDrawn(set) ==
    IF pending.allS = 0
    THEN /\ display' = WithoutTrace(AcceptComplete(set), pending.trace)
         /\ UNCHANGED pending
    ELSE IF IsWhole(set)
    THEN /\ display' = [display EXCEPT !.gen = set.gen, !.complete = set.curves,
                                       !.partial = NoPartial]
         /\ pending' = [pending EXCEPT !.allS = 0]
    ELSE UNCHANGED <<display, pending>>

ReceiveSet ==
    /\ lanes.complete.message # Nothing
    /\ lanes' = [lanes EXCEPT !.complete.message = Nothing]
    /\ FrameSetDrawn(lanes.complete.message)
    /\ UNCHANGED <<previewVars, session, late, fetches, snapshot, command, losses>>

\* The end of a Single sweep, told for the first time: sweepBoundaryKey.
Key(event) == <<event.status.gen, event.status.rev>>
AtSweepBoundary(event) ==
    /\ event.status.held /\ ~display.status.held
    /\ event.status.gen = AcceptPreviewEvent(event).gen
    /\ pending.boundary # Key(event)

ReceivePreview ==
    LET event == lanes.preview.message IN
    /\ event # Nothing
    /\ lanes' = [lanes EXCEPT !.preview.message = Nothing]
    /\ display' = AcceptPreviewEvent(event)
    /\ IF AtSweepBoundary(event)
       THEN /\ \A c \in Callers : fetches[c] = NoFetch  \* bound: such a refresh is alone
            /\ fetches' = [fetches EXCEPT !.boundary = Answer]
            /\ pending' = [pending EXCEPT !.boundary = Key(event)]
       ELSE UNCHANGED <<fetches, pending>>
    /\ UNCHANGED <<previewVars, session, late, snapshot, command, losses>>

\* Faulty variant: what arrives late is taken for what arrives.
LateSetDrawn(set) == FrameSetDrawn(set)

\* isCurrent: a message of a pair that was given up is not looked at.
LateSetIgnored(set) == UNCHANGED <<display, pending>>

ReceiveLate ==
    /\ late # Nothing
    /\ late' = Nothing
    /\ LateSetIgnored(late)
    /\ UNCHANGED <<previewVars, session, lanes, fetches, snapshot, command, losses>>

-------------------------------------------------------------------------------
(* State snapshots (refreshState).                                          *)

\* The session opens its two sockets when its own refresh has succeeded.
Refreshed(c) ==
    /\ fetches[c].type = "answer"
    /\ snapshot' = fetches[c]
    /\ display' = IF pending.allS = 0 THEN Retain(fetches[c]) ELSE Cleared(display)
    /\ pending' = [pending EXCEPT !.trace = NoTrace]
    /\ fetches' = [fetches EXCEPT ![c] = NoFetch]
    /\ IF c = "session" THEN session' = "open" /\ lanes' = NewPair
       ELSE UNCHANGED <<session, lanes>>
    /\ UNCHANGED <<previewVars, late, command, losses>>

RefreshFails(c) ==
    /\ fetches[c] # NoFetch /\ losses < MaxLosses /\ Together < MaxTogether
    /\ losses' = losses + 1
    /\ fetches' = [fetches EXCEPT ![c] = NoFetch]
    /\ session' = IF c = "session" THEN "waiting" ELSE session
    /\ UNCHANGED <<previewVars, lanes, late, snapshot, display, pending, command>>

-------------------------------------------------------------------------------
(* The session.                                                             *)

Connect ==
    /\ session = "waiting"
    /\ session' = "refreshing"
    /\ fetches' = [fetches EXCEPT !.session = Answer]
    /\ UNCHANGED <<previewVars, lanes, late, snapshot, display, pending, command, losses>>

\* Either socket closes, or does not open: the pair is given up.
Disconnected ==
    /\ session = "open" /\ losses < MaxLosses /\ Together < MaxTogether /\ late = Nothing
    /\ losses' = losses + 1
    /\ session' = "waiting" /\ lanes' = NoPair
    /\ late' = lanes.complete.message
    /\ UNCHANGED <<previewVars, fetches, snapshot, display, pending, command>>

-------------------------------------------------------------------------------
(* Commands of this browser.                                                *)

\* runCommand: one at a time, under the revision of the snapshot; any other
\* revision is refused and changes nothing.
MayCommand ==
    /\ command = NoCommand /\ fetches.command = NoFetch
    /\ snapshot # NoSnapshot /\ snapshot.rev = state.rev

\* handleUpdateTraceFormat, handleUpdateTraceMeasurementType.
Reshape(t, setup) ==
    /\ MayCommand
    /\ DOMAIN setup = DOMAIN state.setup
    /\ {u \in DOMAIN setup : setup[u] # state.setup[u]} = {t}
    /\ ServerStep(Configure(setup))
    /\ command' = [type |-> "reshape", trace |-> t]
    /\ UNCHANGED <<session, late, fetches, snapshot, display, pending, losses>>

\* handleEnsureAllSParameters.
EnsureAllS(setup) ==
    /\ MayCommand
    /\ DOMAIN state.setup \subseteq DOMAIN setup /\ DOMAIN setup # DOMAIN state.setup
    /\ ServerStep(Configure(setup))
    /\ command' = [type |-> "all s", rev |-> state.rev + 1]
    /\ UNCHANGED <<session, late, fetches, snapshot, display, pending, losses>>

\* handleRestartSweep.
RestartSweep ==
    /\ MayCommand /\ Together < MaxTogether
    /\ ServerStep(Restart)
    /\ command' = [type |-> "restart"]
    /\ UNCHANGED <<session, late, fetches, snapshot, display, pending, losses>>

Answered ==
    /\ command # NoCommand
    /\ command' = NoCommand
    /\ fetches' = [fetches EXCEPT !.command = Answer]
    /\ CASE command.type = "reshape" ->
              /\ pending' = [pending EXCEPT !.trace = command.trace]
              /\ display' = WithoutTrace(display, command.trace)
         [] command.type = "all s" ->
              /\ pending' = [pending EXCEPT !.allS = command.rev]
              /\ display' = Cleared(display)
         [] OTHER -> UNCHANGED <<pending, display>>
    /\ UNCHANGED <<previewVars, session, lanes, late, snapshot, losses>>

-------------------------------------------------------------------------------
Init ==
    /\ PreviewInit
    /\ session = "waiting" /\ lanes = NoPair /\ late = Nothing
    /\ fetches = [c \in Callers |-> NoFetch]
    /\ snapshot = NoSnapshot /\ display = EmptyDisplay
    /\ pending = [trace |-> NoTrace, allS |-> 0, boundary |-> <<0, 0>>]
    /\ command = NoCommand /\ losses = 0

Quiet == UNCHANGED <<session, late, fetches, snapshot, display, pending, command, losses>>
Worker == ServerStep(WorkerStep) /\ Quiet
OtherClient ==
    /\ OtherClients
    /\ ServerStep(\E setup \in Setups : Configure(setup))
    /\ Quiet

Browser ==
    \/ StreamComplete \/ StreamPreview
    \/ ReceiveSet \/ ReceivePreview \/ ReceiveLate
    \/ Connect \/ Disconnected
    \/ \E c \in Callers : Refreshed(c) \/ RefreshFails(c)
    \/ \E setup \in Setups : \/ \E t \in DOMAIN setup : Reshape(t, setup)
                             \/ EnsureAllS(setup)
    \/ RestartSweep \/ Answered

Next == Worker \/ OtherClient \/ Browser
Spec == Init /\ [][Next]_vars

-------------------------------------------------------------------------------
\* Everything on the screen is of one generation and belongs to the traces of
\* the snapshot it is drawn over; the partial curves are of one sweep.
OneGenerationDrawn ==
    /\ \A t \in DOMAIN display.complete :
         /\ display.complete[t].gen = display.gen
         /\ BelongsToSnapshot(display.complete, snapshot.setup, t)
    /\ \A t \in DOMAIN display.partial.traces :
         /\ display.partial.ident.gen = display.gen
         /\ display.partial.traces[t].sweep = display.partial.ident.sweep
         /\ display.partial.traces[t].look = snapshot.setup[t]

\* From the answer to All S to its first whole frame set no complete curve is
\* drawn, and that set shows every trace of the snapshot as the command left it,
\* all of one sweep.
AllSWhole ==
    [][pending.allS # 0 /\ display'.complete # <<>> =>
         /\ DOMAIN display'.complete = DOMAIN snapshot'.setup
         /\ \A t, u \in DOMAIN display'.complete :
              /\ display'.complete[t].rev >= pending.allS
              /\ display'.complete[t].look = snapshot'.setup[t]
              /\ display'.complete[t].sweep = display'.complete[u].sweep]_vars

\* A complete curve is never replaced by one of an earlier sweep, whatever
\* connections were lost in between.
ScreenNeverGoesBack ==
    [][\A t \in DOMAIN display.complete \cap DOMAIN display'.complete :
         display'.complete[t].sweep >= display.complete[t].sweep]_vars

-------------------------------------------------------------------------------
(* Every step that does not depend on a user, a failure or another client   *)
(* is taken: the threads run, messages and answers arrive.                  *)

FairSpec ==
    /\ Spec
    /\ WF_vars(Worker)
    /\ WF_vars(StreamComplete) /\ WF_vars(StreamPreview)
    /\ WF_vars(ReceiveSet) /\ WF_vars(ReceivePreview)
    /\ WF_vars(Connect) /\ WF_vars(Answered)
    /\ \A c \in Callers : WF_vars(Refreshed(c))

\* A partial curve of a sweep that was withdrawn, or has ended, disappears.
WithdrawnPartialGoes ==
    (display.partial # NoPartial /\ display.partial.ident # exchange.active)
        ~> (display.partial = NoPartial \/ display.partial.ident = exchange.active)
===============================================================================
