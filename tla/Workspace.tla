------------------------------- MODULE Workspace -------------------------------
(***************************************************************************)
(* The configuration: Instrument (channels and measurements) and           *)
(* DisplayWorkspace (windows and traces), the commands of the bus that     *)
(* change them, and the publication plans made from them.                  *)
(*                                                                         *)
(* A command runs under the bus's mutex and is one action (idempotency,    *)
(* authority and expected revisions are CommandBus's).  It builds a        *)
(* candidate, the runtime prepares a plan for it, and both are committed   *)
(* or neither.  The plan waits in the runtime until a sweep boundary       *)
(* (SweepRuntime); until then the next command is prepared against the     *)
(* plan that is applied, and replaces the one that waits.                  *)
(*                                                                         *)
(* Channels, measurements and windows are never erased and ids count from  *)
(* 1, so an id is a place in a sequence; traces are erased.                *)
(***************************************************************************)
EXTENDS Integers, Sequences, FiniteSets

CONSTANTS
    Sweeps,        \* sweep settings that clients ask for
    ValidSweeps,   \* those isValidSweep accepts
    FactorySweep,
    Narrowed,      \* what the acquisition plan keeps of them (32-bit bandwidth)
    Formats,       \* trace formats, "LogMagnitude" among them
    Scales,        \* values asked for as scale per division
    ValidScales,   \* those validScale accepts
    DefaultScale,
    Counts,        \* sweep counts that clients ask for
    ValidCounts,   \* those between 1 and 100000
    MaxRevision    \* bound: configurations

NoScale == "none"

ASSUME WorkspaceAssumption ==
    /\ ValidSweeps \subseteq Sweeps /\ FactorySweep \in ValidSweeps
    /\ DOMAIN Narrowed = ValidSweeps
    /\ "LogMagnitude" \in Formats
    /\ ValidScales \subseteq Scales /\ DefaultScale \in ValidScales
    /\ NoScale \notin ValidScales
    /\ ValidCounts \subseteq Counts
    /\ MaxRevision \in Nat

VARIABLES
    state,     \* instrument_ and displayWorkspace_
    revision,  \* stateRevision_
    runtime,   \* whether the runtime still takes configurations
    applied,   \* the plan of the runtime and of the catalog
    pending,   \* pendingConfiguration_
    rejected,  \* history: the catalog has turned a command down
    named      \* history: what each generation has stood for

vars == <<state, revision, runtime, applied, pending, rejected, named>>

AcquisitionChannel == 1
Modes == {"Continuous", "Single"}
SParameters == <<"S11", "S12", "S21", "S22">>   \* kSParameters, in this order
Types == {SParameters[i] : i \in DOMAIN SParameters}
NoPlan == [generation |-> 0]

-------------------------------------------------------------------------------
(* Plans.                                                                   *)

Least(S) == CHOOSE x \in S : \A y \in S : x <= y

\* What resolveTarget finds wrong with a trace; it looks at every trace before
\* one of another channel is left out.
Corrupt(st, t) ==
    \/ st.traces[t].measurement \notin DOMAIN st.measurements
    \/ st.measurements[st.traces[t].measurement].channel \notin DOMAIN st.channels

Targeted(st) ==
    {t \in DOMAIN st.traces :
        st.measurements[st.traces[t].measurement].channel = AcquisitionChannel}

Targets(st) == [t \in Targeted(st) |->
    [measurement |-> st.traces[t].measurement,
     type        |-> st.measurements[st.traces[t].measurement].type,
     format      |-> st.traces[t].format]]

\* Faulty variant: traces are compared by their ids.
SameTraces(plan, targets) == DOMAIN plan.targets = DOMAIN targets
SameMaterialIdentity(plan, targets) == plan.targets = targets

Acquisition(st) == Narrowed[st.channels[AcquisitionChannel].sweep]

\* prepareConfiguration and TracePublicationCatalog::prepare.
Prepared(st) ==
    LET channel == st.channels[AcquisitionChannel]
        changed == \/ Acquisition(st) # applied.acquisition
                   \/ ~SameMaterialIdentity(applied, Targets(st))
    IN  [generation  |-> applied.generation + (IF changed THEN 1 ELSE 0),
         targets     |-> Targets(st),
         acquisition |-> Acquisition(st),
         mode        |-> channel.mode,
         count       |-> channel.count]

-------------------------------------------------------------------------------
(* commitConfiguration.                                                     *)

\* What a command comes to: an answer that changes nothing, or a candidate.
Answer(outcome) == [outcome |-> outcome, candidate |-> state]
Nothing == Answer("success")
Candidate(st) == [outcome |-> "commit", candidate |-> st]

Answers(result) ==
    /\ result.outcome # "commit" \/ runtime = "Closed"
    /\ UNCHANGED vars

Rejects(result) ==
    /\ result.outcome = "commit" /\ runtime = "Running"
    /\ \E t \in DOMAIN result.candidate.traces : Corrupt(result.candidate, t)
    /\ rejected' = TRUE
    /\ UNCHANGED <<state, revision, runtime, applied, pending, named>>

Commits(result) ==
    /\ result.outcome = "commit" /\ runtime = "Running" /\ revision < MaxRevision
    /\ \A t \in DOMAIN result.candidate.traces : ~Corrupt(result.candidate, t)
    /\ state' = result.candidate /\ revision' = revision + 1
    /\ pending' = Prepared(result.candidate)
    /\ UNCHANGED <<runtime, applied, named, rejected>>

Command(result) == Answers(result) \/ Rejects(result) \/ Commits(result)

Identity(plan) == <<plan.targets, plan.acquisition>>

\* The worker, at a sweep boundary: the catalog takes the plan over.
Apply ==
    /\ pending # NoPlan
    /\ applied' = pending /\ pending' = NoPlan
    /\ named' = [named EXCEPT ![pending.generation] = @ \cup {Identity(pending)}]
    /\ UNCHANGED <<state, revision, runtime, rejected>>

\* Environment: the runtime stops, retires or fails, for good.
RuntimeCloses ==
    /\ runtime = "Running" /\ runtime' = "Closed"
    /\ UNCHANGED <<state, revision, applied, pending, rejected, named>>

-------------------------------------------------------------------------------
(* Channels and measurements.                                               *)

Channel(sweep) == [sweep |-> sweep, mode |-> "Continuous", count |-> 1]

CreateChannel(sweep) ==
    IF sweep \notin ValidSweeps THEN Answer("InvalidSweepSettings")
    ELSE Candidate([state EXCEPT !.channels = Append(@, Channel(sweep))])

UpdateChannelSweep(c, sweep) ==
    LET known == c \in DOMAIN state.channels IN
    IF known /\ state.channels[c].sweep = sweep
    THEN Nothing
    ELSE IF sweep \notin ValidSweeps
    THEN Answer("InvalidSweepSettings")
    ELSE IF ~known THEN Answer("ChannelNotFound")
    ELSE Candidate([state EXCEPT !.channels[c].sweep = sweep])

UpdateChannelSweepControl(c, mode, count) ==
    IF count \notin ValidCounts THEN Answer("InvalidSweepSettings")
    ELSE IF c \notin DOMAIN state.channels
    THEN Answer("ChannelNotFound")
    ELSE IF state.channels[c].mode = mode /\ state.channels[c].count = count
    THEN Nothing
    ELSE Candidate([state EXCEPT !.channels[c].mode = mode, !.channels[c].count = count])

Measurement(c, type) == [channel |-> c, type |-> type]

CreateMeasurement(c, type) ==
    IF c \notin DOMAIN state.channels THEN Answer("ChannelNotFound")
    ELSE Candidate([state EXCEPT !.measurements = Append(@, Measurement(c, type))])

-------------------------------------------------------------------------------
(* Windows and traces.                                                      *)

DefaultScaleFor(format) == IF format = "LogMagnitude" THEN DefaultScale ELSE NoScale

Trace(w, m, format) ==
    [window |-> w, measurement |-> m, format |-> format,
     scale |-> DefaultScaleFor(format)]

CreateWindow == Candidate([state EXCEPT !.windows = @ + 1])

\* Faulty variant: the window is not looked for.
AnyWindow(w) == TRUE
HasWindow(w) == w \in 1..state.windows

CreateTrace(w, m, format) ==
    IF m \notin DOMAIN state.measurements THEN Answer("MeasurementNotFound")
    ELSE IF ~HasWindow(w) THEN Answer("WindowNotFound")
    ELSE Candidate([state EXCEPT
                    !.traces = [t \in DOMAIN @ \cup {state.nextTrace} |->
                        IF t = state.nextTrace THEN Trace(w, m, format) ELSE @[t]],
                    !.nextTrace = @ + 1])

UpdateTraceFormat(t, format) ==
    IF t \notin DOMAIN state.traces THEN Answer("TraceNotFound")
    ELSE IF state.traces[t].format = format THEN Nothing
    ELSE Candidate([state EXCEPT !.traces[t].format = format,
                              !.traces[t].scale = DefaultScaleFor(format)])

OfType(st, c, type) ==
    {m \in DOMAIN st.measurements : st.measurements[m] = Measurement(c, type)}

\* The measurement of a type, made when the channel has none.
WithType(st, c, type) ==
    IF OfType(st, c, type) # {} THEN st
    ELSE [st EXCEPT !.measurements = Append(@, Measurement(c, type))]

SetTraceMeasurementType(t, type) ==
    IF t \notin DOMAIN state.traces THEN Answer("TraceNotFound")
    ELSE LET current == state.measurements[state.traces[t].measurement]
             extended == WithType(state, current.channel, type)
         IN  IF current.type = type THEN Nothing
             ELSE Candidate([extended EXCEPT !.traces[t].measurement =
                             Least(OfType(extended, current.channel, type))])

UpdateTraceScale(t, value) ==
    IF t \notin DOMAIN state.traces THEN Answer("TraceNotFound")
    ELSE IF state.traces[t].scale = NoScale
    THEN Answer("ScaleNotSupportedForFormat")
    ELSE IF value \notin ValidScales
    THEN Answer("InvalidScalePerDivision")
    ELSE Candidate([state EXCEPT !.traces[t].scale = value])

RemoveTrace(t) ==
    IF t \notin DOMAIN state.traces THEN Answer("TraceNotFound")
    ELSE Candidate([state EXCEPT !.traces = [s \in DOMAIN @ \ {t} |-> @[s]]])

-------------------------------------------------------------------------------
(* EnsureAllSParameters.                                                    *)

HasUniqueTypes(c) == \A type \in Types : Cardinality(OfType(state, c, type)) <= 1

\* The four diagrams are there, under the ids they have after a factory preset.
IsComplete(c) ==
    /\ DOMAIN state.traces = DOMAIN SParameters /\ state.windows = Len(SParameters)
    /\ \A i \in DOMAIN SParameters :
        /\ state.traces[i].window = i
        /\ state.measurements[state.traces[i].measurement] = Measurement(c, SParameters[i])

\* Faulty variant: further windows are overlooked.
IsPresetTrace(t) ==
    /\ DOMAIN state.traces = {t} /\ state.traces[t].window = 1
    /\ state.traces[t].format = "LogMagnitude"
    /\ state.measurements[state.traces[t].measurement].type = "S21"

IsPresetShape(t) ==
    /\ state.windows = 1
    /\ DOMAIN state.traces = {t} /\ state.traces[t].window = 1
    /\ state.traces[t].format = "LogMagnitude"
    /\ state.measurements[state.traces[t].measurement].type = "S21"

\* appendCanonicalDiagrams: the measurements that are missing, the anchor on S11,
\* and a window with a trace for each of the others.
WithAllDiagrams(t, c) ==
    LET st == WithType(WithType(WithType(WithType(state,
                  c, "S11"), c, "S12"), c, "S21"), c, "S22")
        measurement(i) == Least(OfType(st, c, SParameters[i]))
        first == state.nextTrace
    IN  [st EXCEPT
            !.windows = @ + 3,
            !.traces = [s \in DOMAIN @ \cup first..(first + 2) |->
                IF s = t THEN [@[t] EXCEPT !.measurement = measurement(1)]
                ELSE LET i == s - first + 2 IN
                     Trace(state.windows + i - 1, measurement(i), "LogMagnitude")],
            !.nextTrace = @ + 3]

EnsureAllSParameters(t) ==
    IF t \notin DOMAIN state.traces THEN Answer("TraceNotFound")
    ELSE LET c == state.measurements[state.traces[t].measurement].channel IN
         IF Len(state.channels) # 1 \/ ~HasUniqueTypes(c)
         THEN Answer("TraceConfigurationRejected")
         ELSE IF IsComplete(c) THEN Nothing
         ELSE IF ~IsPresetShape(t)
         THEN Answer("TraceConfigurationRejected")
         ELSE Candidate(WithAllDiagrams(t, c))

-------------------------------------------------------------------------------
\* makeFactoryPreset, and the runtime's first plan.
Init ==
    /\ state = [channels |-> <<Channel(FactorySweep)>>,
                measurements |-> <<Measurement(AcquisitionChannel, "S21")>>,
                windows |-> 1,
                traces |-> <<Trace(1, 1, "LogMagnitude")>>,
                nextTrace |-> 2]
    /\ revision = 0 /\ runtime = "Running"
    /\ applied = [generation |-> 1, targets |-> Targets(state),
                  acquisition |-> Acquisition(state), mode |-> "Continuous", count |-> 1]
    /\ pending = NoPlan
    /\ rejected = FALSE
    /\ named = [g \in 1..(MaxRevision + 1) |-> IF g = 1 THEN {Identity(applied)} ELSE {}]

\* Ids asked for: one that is not there as well.
ChannelIds == 1..(Len(state.channels) + 1)
MeasurementIds == 1..(Len(state.measurements) + 1)
WindowIds == 1..(state.windows + 1)
TraceIds == 1..state.nextTrace

Next ==
    \/ \E sweep \in Sweeps : Command(CreateChannel(sweep))
    \/ \E c \in ChannelIds :
        \/ \E sweep \in Sweeps : Command(UpdateChannelSweep(c, sweep))
        \/ \E mode \in Modes, n \in Counts : Command(UpdateChannelSweepControl(c, mode, n))
        \/ \E type \in Types : Command(CreateMeasurement(c, type))
    \/ Command(CreateWindow)
    \/ \E w \in WindowIds, m \in MeasurementIds, f \in Formats : Command(CreateTrace(w, m, f))
    \/ \E t \in TraceIds :
        \/ \E f \in Formats : Command(UpdateTraceFormat(t, f))
        \/ \E type \in Types : Command(SetTraceMeasurementType(t, type))
        \/ \E v \in Scales : Command(UpdateTraceScale(t, v))
        \/ Command(RemoveTrace(t))
        \/ Command(EnsureAllSParameters(t))
    \/ Apply \/ RuntimeCloses

Spec == Init /\ [][Next]_vars

-------------------------------------------------------------------------------
(* Properties.                                                              *)

\* Whatever sequence of commands made it, a configuration has every window, every
\* measurement and every channel that is referred to in it, and a scale exactly
\* where the format has one: the catalog never finds it corrupt
\* (trace_publication_catalog.cpp:52) and never turns a command down.
ReferencesHold ==
    /\ \A t \in DOMAIN state.traces :
        /\ t < state.nextTrace
        /\ state.traces[t].window \in 1..state.windows
        /\ ~Corrupt(state, t)
        /\ state.traces[t].scale = NoScale <=> state.traces[t].format # "LogMagnitude"
    /\ ~rejected

ShowsAll(st) ==
    /\ st.windows = Len(SParameters)
    /\ \A i \in DOMAIN SParameters :
        LET shown == {t \in DOMAIN st.traces : st.traces[t].window = i} IN
        /\ Cardinality(shown) = 1
        /\ \A t \in shown : st.measurements[st.traces[t].measurement]
                               = Measurement(AcquisitionChannel, SParameters[i])

\* When All S-Params succeeds, in whatever configuration and for whatever anchor,
\* made now or found as it was, there are four windows with one trace each, S11,
\* S12, S21 and S22 of the acquisition channel in this order
\* (docs/znb-all-s-parameters-spec.md, section 4).
AllSShowsAll ==
    \A t \in DOMAIN state.traces :
        LET result == EnsureAllSParameters(t) IN
        result.outcome \in {"success", "commit"} => ShowsAll(result.candidate)

\* A generation stands for one set of targets and one acquisition, however often
\* configurations replaced each other before they were applied: frame sets,
\* previews and browsers tell what is current by the generation alone.
GenerationNamesOneIdentity == \A g \in DOMAIN named : Cardinality(named[g]) <= 1
===============================================================================
