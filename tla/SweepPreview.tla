----------------------------- MODULE SweepPreview -----------------------------
(***************************************************************************)
(* How a sweep becomes curves, twice: chunk by chunk, through the preview  *)
(* assembler, into the SweepPreviewExchange, and once more as a whole,     *)
(* through buildTraceDisplayFrameSet, into the repository.  The two paths  *)
(* share the range synthesizer and the projectors and nothing else.        *)
(* (captureRawSweep, SweepPreviewAssembler, sweep_preview_validation,      *)
(* SweepPreviewExchange, and what SweepRuntime's worker calls of them.)    *)
(*                                                                         *)
(* A setup says what is displayed: for each trace the source port its      *)
(* measurement needs and the format it is projected to.  A sample is the   *)
(* sweep and the point it was measured at and what a computation may find  *)
(* wrong with it.  The mode is Single; who restarts, and how many rounds   *)
(* are asked for, is left open (SweepRuntime has the Operations).          *)
(***************************************************************************)
EXTENDS Naturals, SequencesExt

CONSTANTS Sources,       \* sequence of the source ports, in sweep order
          Points,        \* points of the frequency axis
          ChunkPoints,   \* maximumPointsPerChunk
          Setups, InitialSetup,
          MaxSweeps, MaxRevision, MaxBad   \* bounds

ASSUME PreviewAssumption ==
    /\ Points \in Nat /\ Points >= 2 /\ ChunkPoints \in Nat \ {0}
    /\ InitialSetup \in Setups
    /\ MaxSweeps \in Nat /\ MaxRevision \in Nat /\ MaxBad \in Nat

VARIABLES state,      \* the command bus: revision and setup
          plan,       \* the runtime's plan_: generation, revision and setup
          sweep,      \* the worker's sweep
          assembler,  \* SweepPreviewAssembler and previewRejected
          status,     \* the runtime's display status
          exchange,   \* SweepPreviewExchange
          published,  \* the repository's latest frame set
          bad         \* bad samples so far

previewVars ==
    <<state, plan, sweep, assembler, status, exchange, published, bad>>

Identity == [gen |-> plan.gen, sweep |-> sweep.id]
Nobody == [gen |-> 0, sweep |-> 0]      \* an optional identity without a value
NoPreview == [ident |-> Nobody, rev |-> 0, traces |-> <<>>]
NoSet == [gen |-> 0, seq |-> 0, rev |-> 0, frames |-> <<>>]
Ports == {Sources[i] : i \in DOMAIN Sources}

\* A measurement is one of S11 to S22, and both ports are swept.
ASSUME SourcesAssumption ==
    /\ Sources \in Seq(Ports)
    /\ \A setup \in Setups : \A t \in DOMAIN setup : setup[t].source \in Ports

Workload == Points * Len(Sources)

-------------------------------------------------------------------------------
(* Synthesis and projection of a range of samples.                          *)

Measured(setup, source) == {t \in DOMAIN setup : setup[t].source = source}

\* synthesizeSParameterRanges divides by the reference only for the
\* measurements of this source port.
Synthesizes(setup, source, samples) ==
    \A t \in Measured(setup, source) :
        \A i \in DOMAIN samples : samples[i].quality # "zero reference"

\* projectTraceSamples: the logarithm of a zero response is not finite.
Projects(format, samples) ==
    format = "log" => \A i \in DOMAIN samples : samples[i].quality # "zero response"

-------------------------------------------------------------------------------
(* The assembler.                                                           *)

EmptyAssembler == [raw |-> [p \in Ports |-> 0], traces |-> <<>>, rejected |-> FALSE]

InOrder(range) == range.first = assembler.raw[range.source]

Appended(traces, setup, range) ==
    LET affected == Measured(setup, range.source) IN
    [t \in DOMAIN traces \cup affected |->
        IF t \notin affected THEN traces[t]
        ELSE (IF t \in DOMAIN traces THEN traces[t] ELSE <<>>) \o range.samples]

\* A range that cannot be assembled leaves raw progress and traces alone.
Assembles(range) ==
    LET affected == Measured(plan.setup, range.source) IN
    /\ InOrder(range)
    /\ Synthesizes(plan.setup, range.source, range.samples)
    /\ \A t \in affected :
         /\ Projects(plan.setup[t].format, range.samples)
         /\ t \in DOMAIN assembler.traces \/ range.first = 0

\* Faulty variant: a chunk replaces the ones before it.
AssembledAlone(range) ==
    [assembler EXCEPT
        !.raw[range.source] = @ + Len(range.samples),
        !.traces = Appended(<<>>, plan.setup, range)]

Assembled(range) ==
    [assembler EXCEPT
        !.raw[range.source] = @ + Len(range.samples),
        !.traces = Appended(@, plan.setup, range)]

Preview(assembled) ==
    [ident |-> [gen |-> plan.gen, sweep |-> sweep.id],
     rev |-> plan.rev, traces |-> assembled.traces]

-------------------------------------------------------------------------------
(* The exchange.                                                            *)

Event(type, ident, preview, st) ==
    [type |-> type, ident |-> ident, preview |-> preview, status |-> st,
     active |-> preview.ident]

\* The cursor that numbers the events is left out: an event that follows
\* another always differs from it.
Emit(ex, event) == [ex EXCEPT !.event = event]

Increasing(samples) ==
    \A i \in 1..(Len(samples) - 1) : samples[i].point < samples[i + 1].point

ValidTrace(samples) == Len(samples) \in 1..Points /\ Increasing(samples)

ValidPreview(preview) ==
    /\ DOMAIN preview.traces # {}
    /\ \A t \in DOMAIN preview.traces : ValidTrace(preview.traces[t])

SamePrefix(current, next, t) ==
    t \in DOMAIN next.traces /\ IsPrefix(current.traces[t], next.traces[t])

IsCumulativeExtension(current, next) ==
    /\ current.ident = next.ident /\ current.rev = next.rev
    /\ \A t \in DOMAIN current.traces : SamePrefix(current, next, t)

\* publishImpl: what it refuses.
Accepts(preview, st) ==
    LET continuing == exchange.active = preview.ident IN
    /\ ValidPreview(preview)
    /\ preview.ident.gen = exchange.gen
    /\ continuing /\ exchange.current # NoPreview =>
         IsCumulativeExtension(exchange.current, preview)
    /\ ~continuing => preview.ident.sweep > exchange.last
    /\ st.gen = preview.ident.gen /\ st.rev = preview.rev
    /\ st.sweep = preview.ident.sweep

Shown(preview, st) ==
    Emit([exchange EXCEPT !.active = preview.ident, !.last = preview.ident.sweep,
                          !.current = preview, !.status = st],
         Event("available", preview.ident, preview, st))

\* The event that tells of a status alone: it carries the current preview, if
\* there is one.
StatusEvent(st) ==
    IF exchange.current = NoPreview
    THEN Event("status", Nobody, NoPreview, st)
    ELSE Event("available", exchange.current.ident, exchange.current, st)

UpdateForRuntime(st) ==
    IF st.gen # exchange.gen \/ st = exchange.status THEN exchange
    ELSE Emit([exchange EXCEPT !.status = st], StatusEvent(st))

InvalidateForRuntime(ident, st) ==
    IF exchange.gen # ident.gen THEN exchange
    ELSE IF exchange.active = ident
         THEN Emit([exchange EXCEPT !.active = Nobody, !.current = NoPreview,
                                    !.status = st],
                   Event("invalidated", ident, NoPreview, st))
         ELSE UpdateForRuntime(st)

Advanced(gen, st) ==
    Emit([exchange EXCEPT !.gen = gen, !.status = st, !.active = Nobody,
                          !.current = NoPreview],
         Event("generationAdvanced", Nobody, NoPreview, st))

-------------------------------------------------------------------------------
(* Configuration.                                                           *)

Status(p, phase, id, done) ==
    [gen |-> p.gen, rev |-> p.rev, phase |-> phase, sweep |-> id, done |-> done]
HoldStatus(p) == Status(p, "hold", 0, Workload)
PreparingStatus(id) == Status(plan, "preparing", id, 0)

Show(st) == status' = st /\ exchange' = UpdateForRuntime(st)
Withdraw(st) == status' = st /\ exchange' = InvalidateForRuntime(Identity, st)

HasPending == state.rev # plan.rev

\* applyPendingConfiguration: a setup that differs materially opens the next
\* generation in the repository and in the exchange, in one transaction.
Apply(rev, setup) ==
    LET changed == setup # plan.setup
        next    == [gen |-> plan.gen + (IF changed THEN 1 ELSE 0),
                    rev |-> rev, setup |-> setup]
        st      == HoldStatus(next)
    IN  /\ plan' = next /\ status' = st
        /\ published' = IF changed THEN NoSet ELSE published
        /\ exchange' = IF changed THEN Advanced(next.gen, st) ELSE UpdateForRuntime(st)

\* A command of any client; commitConfiguration applies it at once in Hold.
Configure(setup) ==
    /\ state.rev < MaxRevision
    /\ state' = [rev |-> state.rev + 1, setup |-> setup]
    /\ IF status.phase = "hold" /\ ~sweep.asked /\ ~sweep.more
       THEN Apply(state.rev + 1, setup)
       ELSE UNCHANGED <<plan, status, published, exchange>>
    /\ UNCHANGED <<sweep, assembler, bad>>

-------------------------------------------------------------------------------
(* The worker.                                                              *)

At(pc) == sweep.pc = pc
Go(pc) == sweep' = [sweep EXCEPT !.pc = pc]

\* A cycle has a StopSource of its own; a Restart that waits for it becomes the
\* active request.
EnterCycle == sweep' = [sweep EXCEPT !.pc = "prepared", !.stop = FALSE,
                                     !.asked = FALSE, !.more = TRUE]

\* prepareCycle up to its wait.
PrepareCycle ==
    /\ At("boundary")
    /\ IF HasPending THEN Apply(state.rev, state.setup)
       ELSE /\ IF sweep.more \/ status.phase = "failed"
               THEN UNCHANGED <<status, exchange>> ELSE Show(HoldStatus(plan))
            /\ UNCHANGED <<plan, published>>
    /\ IF sweep.more \/ sweep.asked THEN EnterCycle ELSE Go("held")
    /\ UNCHANGED <<state, assembler, bad>>

\* A Restart ends the wait.
Promote ==
    /\ At("held") /\ sweep.asked
    /\ EnterCycle
    /\ UNCHANGED <<state, plan, assembler, status, exchange, published, bad>>

\* capture: a new identity and a new assembler.
BeginCapture ==
    /\ At("prepared") /\ sweep.id < MaxSweeps
    /\ sweep' = [sweep EXCEPT !.pc = "source", !.id = @ + 1,
                              !.active = TRUE, !.samples = [p \in Ports |-> <<>>]]
    /\ assembler' = EmptyAssembler
    /\ Show(PreparingStatus(sweep.id + 1))
    /\ UNCHANGED <<state, plan, published, bad>>

\* captureRawSweep finishes one source port before it turns to the next.
Unfinished == {i \in DOMAIN Sources : Len(sweep.samples[Sources[i]]) < Points}
Source == Sources[CHOOSE i \in Unfinished : \A j \in Unfinished : i <= j]

Least(a, b) == IF a < b THEN a ELSE b

\* The samples of one range; the quality is that of the last one.
Produced(first, count, quality) ==
    [i \in 1..count |-> [sweep |-> sweep.id, point |-> first + i,
                        quality |-> IF i = count THEN quality ELSE "good"]]

Chunk(quality) ==
    LET first == Len(sweep.samples[Source]) IN
    [source |-> Source, first |-> first,
     samples |-> Produced(first, Least(Points - first, ChunkPoints), quality)]

\* A sweep whose preview is rejected keeps reporting progress.
Rejects(st) ==
    /\ assembler' = [assembler EXCEPT !.rejected = TRUE]
    /\ Withdraw(st)

\* observePreviewRange.
Observe(range) ==
    LET st == Status(plan, "sweeping", sweep.id, status.done + Len(range.samples))
        assembled == Assembled(range)
        pending   == Measured(plan.setup, range.source) = {}
    IN  \/ /\ assembler.rejected
           /\ UNCHANGED assembler
           /\ IF sweep.active THEN Show(st) ELSE UNCHANGED <<status, exchange>>
        \/ /\ ~assembler.rejected /\ ~sweep.active
           /\ assembler' = IF Assembles(range) THEN assembled ELSE assembler
           /\ UNCHANGED <<status, exchange>>
        \/ /\ ~assembler.rejected /\ sweep.active /\ ~Assembles(range)
           /\ Rejects(st)
        \/ /\ ~assembler.rejected /\ sweep.active /\ Assembles(range)
           /\ IF pending THEN assembler' = assembled /\ Show(st)
              ELSE IF Accepts(Preview(assembled), st)
              THEN /\ assembler' = assembled /\ status' = st
                   /\ exchange' = Shown(Preview(assembled), st)
              ELSE Rejects(st)

\* captureSourceState: one chunk is produced, validated, kept and observed.
Deliver(quality) ==
    /\ At("source") /\ ~sweep.stop /\ Unfinished # {}
    /\ quality # "good" => bad < MaxBad
    /\ bad' = IF quality = "good" THEN bad ELSE bad + 1
    /\ sweep' = [sweep EXCEPT !.samples[Source] = @ \o Chunk(quality).samples]
    /\ Observe(Chunk(quality))
    /\ UNCHANGED <<state, plan, published>>

\* reject and failRequestedSweep.
Fails ==
    /\ Withdraw(Status(plan, "failed", sweep.id, status.done))
    /\ sweep' = [sweep EXCEPT !.pc = "boundary", !.active = FALSE, !.more = FALSE]

\* The producer reports an error, or a sample that is not finite.
CaptureFails ==
    /\ At("source") /\ ~sweep.stop /\ Unfinished # {} /\ bad < MaxBad
    /\ bad' = bad + 1
    /\ Fails
    /\ UNCHANGED <<state, plan, assembler, published>>

\* cancelActiveAfterSource: the stop was seen, or publication can no longer be
\* claimed.
Cancels ==
    /\ At("source") \/ At("calculate")
    /\ sweep.stop
    /\ sweep' = [sweep EXCEPT !.pc = "boundary", !.active = FALSE, !.more = FALSE]
    /\ Withdraw(IF sweep.asked THEN PreparingStatus(0) ELSE HoldStatus(plan))
    /\ UNCHANGED <<state, plan, assembler, published, bad>>

Calculate ==
    /\ At("source") /\ ~sweep.stop /\ Unfinished = {}
    /\ Go("calculate")
    /\ Show(Status(plan, "calculation", sweep.id, Workload))
    /\ UNCHANGED <<state, plan, assembler, published, bad>>

\* synthesizeSParameters: every measurement of the plan, or nothing.
SynthesizesAll ==
    /\ \A port \in Ports : Synthesizes(plan.setup, port, sweep.samples[port])
    /\ \A t \in DOMAIN plan.setup : plan.setup[t].source \in Ports

\* buildTraceDisplayFrameSet: every trace, or nothing.
Builds ==
    /\ SynthesizesAll
    /\ \A t \in DOMAIN plan.setup :
         Projects(plan.setup[t].format, sweep.samples[plan.setup[t].source])

FrameSet ==
    [gen |-> plan.gen, seq |-> sweep.id, rev |-> plan.rev,
     frames |-> [t \in DOMAIN plan.setup |-> sweep.samples[plan.setup[t].source]]]

ProcessingFails ==
    /\ At("calculate") /\ ~Builds
    /\ Fails
    /\ UNCHANGED <<state, plan, assembler, published, bad>>

ValidFrame(samples) == Len(samples) \in 2..Points /\ Increasing(samples)

\* validateTraceDisplayFrameSet; a plan without traces builds an empty set.
ValidSet(set) ==
    /\ DOMAIN set.frames # {}
    /\ \A t \in DOMAIN set.frames : ValidFrame(set.frames[t])

\* claimPublication and publishIfCurrent.
Publish ==
    /\ At("calculate") /\ Builds /\ ~sweep.stop /\ ValidSet(FrameSet)
    /\ published' = FrameSet
    /\ Go("published")
    /\ UNCHANGED <<state, plan, assembler, status, exchange, bad>>

PublicationFails ==
    /\ At("calculate") /\ Builds /\ ~sweep.stop /\ ~ValidSet(FrameSet)
    /\ Fails
    /\ UNCHANGED <<state, plan, assembler, published, bad>>

\* completeRequestedSweep: the request is served, or has rounds left.
Complete ==
    /\ At("published")
    /\ \E more \in BOOLEAN :
         /\ sweep' = [sweep EXCEPT !.pc = "boundary", !.active = FALSE,
                                   !.more = more]
         /\ Withdraw(IF more THEN PreparingStatus(0) ELSE HoldStatus(plan))
    /\ UNCHANGED <<state, plan, assembler, published, bad>>

-------------------------------------------------------------------------------
(* A Restart: it withdraws the sweep in flight and asks its cycle to stop.  *)

Restart ==
    /\ ~sweep.asked /\ sweep.id < MaxSweeps
    /\ LET running == sweep.pc \in {"prepared", "source", "calculate", "published"} IN
         /\ sweep' = [sweep EXCEPT !.asked = TRUE, !.active = FALSE,
                                   !.more = @ /\ running, !.stop = @ \/ running]
         /\ IF sweep.active THEN Withdraw(PreparingStatus(0))
            ELSE UNCHANGED <<status, exchange>>
    /\ UNCHANGED <<state, plan, assembler, published, bad>>

-------------------------------------------------------------------------------
PreviewInit ==
    /\ state = [rev |-> 1, setup |-> InitialSetup]
    /\ plan = [gen |-> 1, rev |-> 1, setup |-> InitialSetup]
    /\ sweep = [pc |-> "held", id |-> 0, samples |-> [p \in Ports |-> <<>>],
                active |-> FALSE, asked |-> FALSE, more |-> FALSE, stop |-> FALSE]
    /\ assembler = EmptyAssembler
    /\ status = HoldStatus(plan)
    /\ exchange = [gen |-> 1, status |-> HoldStatus(plan), active |-> Nobody,
                   current |-> NoPreview, last |-> 0,
                   event |-> [type |-> "status", ident |-> Nobody,
                              preview |-> NoPreview, status |-> HoldStatus(plan),
                              active |-> Nobody]]
    /\ published = NoSet /\ bad = 0

WorkerStep ==
    \/ PrepareCycle \/ Promote \/ BeginCapture
    \/ \E quality \in {"good", "zero reference", "zero response"} : Deliver(quality)
    \/ CaptureFails \/ Cancels \/ Calculate
    \/ ProcessingFails \/ Publish \/ PublicationFails \/ Complete

PreviewNext == WorkerStep \/ Restart \/ \E setup \in Setups : Configure(setup)
PreviewSpec == PreviewInit /\ [][PreviewNext]_previewVars

\* The chunks and the whole agree: once a sweep that nobody withdrew has been
\* captured, its preview shows every sample of every trace if a frame set of it can
\* be published, and nothing of it is shown if not
\* (docs/znb-sweep-runtime-spec.md, section 6: the partial is the part of the sweep
\* that is already there).
PathsAgree ==
    At("calculate") /\ sweep.active =>
        IF Builds /\ ValidSet(FrameSet)
        THEN /\ exchange.current.ident = Identity
             /\ exchange.current.traces = FrameSet.frames
        ELSE exchange.current = NoPreview
===============================================================================
