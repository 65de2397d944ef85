---------------------------- MODULE Workspace_proofs ----------------------------
(***************************************************************************)
(* What holds of the configuration and of the plans, for any settings that *)
(* clients ask for and any number of commands.                             *)
(*                                                                         *)
(* ReferencesHold: each command keeps a configuration Sound, which adds to *)
(* the references of the traces those of the measurements (a trace can     *)
(* only be given a measurement whose channel is there) and the shapes of   *)
(* the records.  AllSShowsAll follows from Sound alone.                    *)
(*                                                                         *)
(* GenerationNamesOneIdentity: PlansInv adds that nothing is named by a    *)
(* generation not applied yet, that the applied one names the applied      *)
(* identity, and that a waiting plan of the same generation has it too.    *)
(***************************************************************************)
EXTENDS Workspace, FiniteSetTheorems, WellFoundedInduction, TLAPS

-------------------------------------------------------------------------------
(* Generations.                                                             *)

PlansInv ==
    /\ revision \in 0..MaxRevision
    /\ applied.generation \in 1..(MaxRevision + 1)
    /\ applied.generation + (IF pending = NoPlan THEN 0 ELSE 1) <= revision + 1
    /\ pending # NoPlan =>
           \/ pending.generation = applied.generation + 1
           \/ /\ pending.generation = applied.generation
              /\ Identity(pending) = Identity(applied)
    /\ DOMAIN named = 1..(MaxRevision + 1)
    /\ named = [g \in DOMAIN named |-> named[g]]
    /\ named[applied.generation] = {Identity(applied)}
    /\ \A g \in DOMAIN named :
           /\ g > applied.generation => named[g] = {}
           /\ \A x, y \in named[g] : x = y

LEMMA PlansInit == Init => PlansInv
<1>1. SUFFICES ASSUME Init PROVE PlansInv
  OBVIOUS
<1>2. /\ revision = 0 /\ applied.generation = 1 /\ pending = NoPlan
      /\ named = [g \in 1..(MaxRevision + 1) |-> IF g = 1 THEN {Identity(applied)} ELSE {}]
  BY <1>1 DEF Init
<1>3. MaxRevision \in Nat
  BY WorkspaceAssumption
<1>4. QED
  BY <1>2, <1>3 DEF PlansInv

\* A plan is prepared under the next generation exactly when it is another one.
LEMMA PreparedPlan ==
  ASSUME NEW st, applied.generation \in Nat \ {0}
  PROVE  /\ Prepared(st) # NoPlan
         /\ \/ Prepared(st).generation = applied.generation + 1
            \/ /\ Prepared(st).generation = applied.generation
               /\ Identity(Prepared(st)) = Identity(applied)
<1>1. Prepared(st).generation \in {applied.generation, applied.generation + 1}
  BY DEF Prepared
<1>2. Prepared(st) # NoPlan
  BY <1>1 DEF NoPlan
<1>3. Prepared(st).generation = applied.generation =>
          Identity(Prepared(st)) = Identity(applied)
  BY DEF Prepared, Identity, SameMaterialIdentity
<1>4. QED
  BY <1>1, <1>2, <1>3

LEMMA PlansCommits ==
  ASSUME PlansInv, NEW result, Commits(result) PROVE PlansInv'
<1>1. /\ revision < MaxRevision /\ revision' = revision + 1
      /\ pending' = Prepared(result.candidate)
      /\ UNCHANGED <<applied, named>>
  BY DEF Commits
<1>2. MaxRevision \in Nat
  BY WorkspaceAssumption
<1>3. applied.generation <= revision + 1
  BY <1>2 DEF PlansInv
<1>4. /\ pending' # NoPlan
      /\ \/ pending'.generation = applied.generation + 1
         \/ pending'.generation = applied.generation /\ Identity(pending') = Identity(applied)
  BY <1>1, <1>2, PreparedPlan DEF PlansInv
<1>5. QED
  BY <1>1, <1>2, <1>3, <1>4 DEF PlansInv, Identity, NoPlan

LEMMA PlansApply ==
  ASSUME PlansInv, Apply PROVE PlansInv'
<1>1. /\ pending # NoPlan
      /\ applied' = pending /\ pending' = NoPlan /\ revision' = revision
      /\ named' = [named EXCEPT ![pending.generation] = @ \cup {Identity(pending)}]
  BY DEF Apply
<1>2. MaxRevision \in Nat
  BY WorkspaceAssumption
<1>3. /\ pending.generation \in 1..(MaxRevision + 1) /\ pending.generation <= revision + 1
      /\ pending.generation \in DOMAIN named
  BY <1>1, <1>2 DEF PlansInv
<1>4. /\ DOMAIN named' = DOMAIN named
      /\ \A g \in DOMAIN named : named'[g] =
             IF g = pending.generation THEN named[g] \cup {Identity(pending)} ELSE named[g]
  BY <1>1, <1>3 DEF PlansInv
<1>5. named[pending.generation] \subseteq {Identity(pending)}
  BY <1>1, <1>2, <1>3 DEF PlansInv
<1>6. named'[pending.generation] = {Identity(pending)}
  BY <1>3, <1>4, <1>5
<1>7. \A g \in DOMAIN named' :
          /\ g > pending.generation => named'[g] = {}
          /\ \A x, y \in named'[g] : x = y
  BY <1>1, <1>2, <1>3, <1>4, <1>6 DEF PlansInv
<1>8. named' = [g \in DOMAIN named' |-> named'[g]]
  BY <1>1, <1>3 DEF PlansInv
<1>9. Identity(applied)' = Identity(pending)
  BY <1>1 DEF Identity
<1>10. pending' = NoPlan /\ applied'.generation = pending.generation
  BY <1>1
<1>11. QED
  BY <1>1, <1>2, <1>3, <1>4, <1>6, <1>7, <1>8, <1>9, <1>10 DEF PlansInv, NoPlan

LEMMA PlansUntouched ==
  ASSUME PlansInv, UNCHANGED <<revision, applied, pending, named>> PROVE PlansInv'
BY DEF PlansInv, Identity, NoPlan

\* Next is a command, Apply, or the end of the runtime.
IsCommand(result) ==
    \/ \E sweep \in Sweeps : result = CreateChannel(sweep)
    \/ \E c \in ChannelIds :
        \/ \E sweep \in Sweeps : result = UpdateChannelSweep(c, sweep)
        \/ \E mode \in Modes, n \in Counts : result = UpdateChannelSweepControl(c, mode, n)
        \/ \E type \in Types : result = CreateMeasurement(c, type)
    \/ result = CreateWindow
    \/ \E w \in WindowIds, m \in MeasurementIds, f \in Formats : result = CreateTrace(w, m, f)
    \/ \E t \in TraceIds :
        \/ \E f \in Formats : result = UpdateTraceFormat(t, f)
        \/ \E type \in Types : result = SetTraceMeasurementType(t, type)
        \/ \E v \in Scales : result = UpdateTraceScale(t, v)
        \/ result = RemoveTrace(t)
        \/ result = EnsureAllSParameters(t)

LEMMA StepKinds ==
  ASSUME [Next]_vars
  PROVE  \/ \E result : IsCommand(result) /\ Command(result)
         \/ Apply \/ RuntimeCloses \/ UNCHANGED vars
BY DEF Next, IsCommand

LEMMA PlansStep == PlansInv /\ [Next]_vars => PlansInv'
<1> SUFFICES ASSUME PlansInv, [Next]_vars PROVE PlansInv'
  OBVIOUS
<1>1. ASSUME NEW result, Command(result) PROVE PlansInv'
  <2>1. CASE Commits(result)
    BY <2>1, PlansCommits
  <2>2. CASE Answers(result) \/ Rejects(result)
    BY <2>2, PlansUntouched DEF Answers, Rejects, vars
  <2>3. QED
    BY <1>1, <2>1, <2>2 DEF Command
<1>2. CASE RuntimeCloses \/ UNCHANGED vars
  BY <1>2, PlansUntouched DEF RuntimeCloses, vars
<1>3. QED
  BY <1>1, <1>2, PlansApply, StepKinds

\* For any number of commands and however they replace each other before they are
\* applied, a generation stands for one set of targets and one acquisition
\* (TracePublicationCatalog::prepare).
THEOREM GenerationsTell == Spec => []GenerationNamesOneIdentity
<1>1. ASSUME PlansInv PROVE GenerationNamesOneIdentity
  <2>1. SUFFICES ASSUME NEW g \in DOMAIN named PROVE Cardinality(named[g]) <= 1
    BY DEF GenerationNamesOneIdentity
  <2>2. named[g] = {} \/ \E x : named[g] = {x}
    <3>1. \A x, y \in named[g] : x = y
      BY <1>1 DEF PlansInv
    <3>2. ASSUME NEW x \in named[g] PROVE named[g] = {x}
      BY <3>1
    <3>3. QED
      BY <3>2
  <2>3. QED
    <3>1. Cardinality({}) = 0 /\ \A x : Cardinality({x}) = 1
      BY FS_EmptySet, FS_Singleton
    <3>2. Cardinality(named[g]) \in {0, 1}
      BY <2>2, <3>1
    <3>3. QED
      BY <3>2
<1>2. QED
  BY <1>1, PlansInit, PlansStep, PTL DEF Spec
-------------------------------------------------------------------------------
(* Configurations.                                                          *)

ChannelRecords == [sweep : Sweeps, mode : Modes, count : Counts \cup {1}]
MeasurementRecords == [channel : Nat, type : Types]
TraceRecords == [window : Nat, measurement : Nat, format : Formats,
                 scale : ValidScales \cup {NoScale}]
TraceMaps == UNION {[ids -> TraceRecords] : ids \in SUBSET Nat}
Configurations ==
    [channels : Seq(ChannelRecords), measurements : Seq(MeasurementRecords),
     windows : Nat, traces : TraceMaps, nextTrace : Nat]

\* A trace is of a window and a measurement that are there.
TraceSound(st, trace) ==
    /\ trace.window \in 1..st.windows
    /\ trace.measurement \in DOMAIN st.measurements
    /\ trace.scale = NoScale <=> trace.format # "LogMagnitude"

Sound(st) ==
    /\ st \in Configurations
    /\ Len(st.channels) >= 1 /\ st.nextTrace >= 1
    /\ \A m \in DOMAIN st.measurements : st.measurements[m].channel \in DOMAIN st.channels
    /\ \A t \in DOMAIN st.traces : t < st.nextTrace /\ TraceSound(st, st.traces[t])

LEMMA TraceMapsAreMaps ==
  \A f : f \in TraceMaps <=>
      /\ DOMAIN f \subseteq Nat
      /\ f \in [DOMAIN f -> TraceRecords]
BY DEF TraceMaps

\* Every nonempty set of ids has a least one.
LEMMA LeastExists ==
  ASSUME NEW S \in SUBSET Nat, S # {}
  PROVE  Least(S) \in S
<1> DEFINE R == StrictSubsetOrdering(Nat)
           T == {0..x : x \in S}
<1>1. IsWellFoundedOn(R, FiniteSubsetsOf(Nat))
  BY FS_StrictSubsetOrderingWellFounded
<1>2. PICK x \in S : \A y \in S : ~ (<<0..y, 0..x>> \in R)
  <2>1. T \subseteq FiniteSubsetsOf(Nat) /\ T # {}
    <3>1. \A x \in S : 0..x \subseteq Nat /\ IsFiniteSet(0..x)
      BY FS_Interval
    <3>2. QED
      BY <3>1 DEF FiniteSubsetsOf
  <2>2. PICK i \in T : \A j \in T : ~ (<<j, i>> \in R)
    <3> HIDE DEF R, T
    <3>1. QED
      BY <1>1, <2>1, WFMin
  <2>3. QED
    BY <2>2
<1>3. \A y \in S : x <= y
  <2>1. SUFFICES ASSUME NEW y \in S, y < x PROVE FALSE
    OBVIOUS
  <2>2. 0..y \subseteq 0..x /\ x \in 0..x /\ x \notin 0..y
    BY <2>1
  <2>3. 0..y \in SUBSET Nat /\ 0..x \in SUBSET Nat
    OBVIOUS
  <2>4. <<0..y, 0..x>> \in R
    BY <2>2, <2>3 DEF StrictSubsetOrdering
  <2>5. QED
    BY <1>2, <2>4
<1>4. QED
  BY <1>3 DEF Least

LEMMA SoundIsIntact ==
  ASSUME NEW st, Sound(st), NEW t \in DOMAIN st.traces
  PROVE  ~Corrupt(st, t)
BY DEF Sound, TraceSound, Corrupt

LEMMA ScaleFits ==
  \A format \in Formats :
      /\ DefaultScaleFor(format) \in ValidScales \cup {NoScale}
      /\ DefaultScaleFor(format) = NoScale <=> format # "LogMagnitude"
BY WorkspaceAssumption DEF DefaultScaleFor

\* A command that only adds to channels, measurements and windows.
LEMMA SoundGrows ==
  ASSUME NEW st, Sound(st), NEW larger \in Configurations,
         DOMAIN st.channels \subseteq DOMAIN larger.channels,
         Len(larger.channels) >= 1,
         DOMAIN st.measurements \subseteq DOMAIN larger.measurements,
         \A m \in DOMAIN larger.measurements :
             larger.measurements[m].channel \in DOMAIN larger.channels,
         st.windows <= larger.windows,
         larger.traces = st.traces, larger.nextTrace = st.nextTrace
  PROVE  Sound(larger)
BY DEF Sound, TraceSound, Configurations

\* A command that makes or changes one trace.
LEMMA SoundTrace ==
  ASSUME NEW st, Sound(st), NEW changed, NEW t \in Nat, NEW trace \in TraceRecords,
         changed = [st EXCEPT !.traces = changed.traces, !.nextTrace = changed.nextTrace],
         changed.nextTrace \in Nat, t < changed.nextTrace,
         st.nextTrace <= changed.nextTrace,
         DOMAIN changed.traces = DOMAIN st.traces \cup {t},
         changed.traces = [s \in DOMAIN st.traces \cup {t} |->
                              IF s = t THEN trace ELSE st.traces[s]],
         TraceSound(st, trace)
  PROVE  Sound(changed)
<1>1. changed.traces \in TraceMaps
  <2>1. DOMAIN st.traces \subseteq Nat /\ st.traces \in [DOMAIN st.traces -> TraceRecords]
    BY TraceMapsAreMaps DEF Sound, Configurations
  <2>2. QED
    BY <2>1, TraceMapsAreMaps
<1>2. changed \in Configurations
  BY <1>1 DEF Sound, Configurations
<1>3. /\ changed.channels = st.channels /\ changed.measurements = st.measurements
      /\ changed.windows = st.windows
  BY DEF Sound, Configurations
<1>4. \A s \in DOMAIN changed.traces :
          s < changed.nextTrace /\ TraceSound(changed, changed.traces[s])
  <2>1. SUFFICES ASSUME NEW s \in DOMAIN changed.traces
                 PROVE  s < changed.nextTrace /\ TraceSound(changed, changed.traces[s])
    OBVIOUS
  <2>2. CASE s = t
    BY <1>3, <2>2 DEF TraceSound
  <2>3. CASE s # t
    <3>1. s \in DOMAIN st.traces /\ changed.traces[s] = st.traces[s] /\ s \in Nat
      BY <2>3, TraceMapsAreMaps DEF Sound, Configurations
    <3>2. s < st.nextTrace /\ st.nextTrace \in Nat /\ TraceSound(st, st.traces[s])
      BY <3>1 DEF Sound, Configurations
    <3>3. QED
      BY <1>3, <3>1, <3>2 DEF TraceSound
  <2>4. QED
    BY <2>2, <2>3
<1>5. changed.nextTrace >= 1
  BY DEF Sound, Configurations
<1>6. QED
  BY <1>2, <1>3, <1>4, <1>5 DEF Sound

-------------------------------------------------------------------------------
(* Commands.  What each of them makes is Sound when the state is.           *)

Keeps(result) == result.outcome = "commit" => Sound(result.candidate)

LEMMA AnswersKeep ==
  \A outcome : outcome # "commit" => Keeps(Answer(outcome))
BY DEF Keeps, Answer

LEMMA NothingKeeps == Keeps(Nothing)
BY AnswersKeep DEF Nothing

LEMMA CandidatesKeep == \A st : Sound(st) => Keeps(Candidate(st))
BY DEF Keeps, Candidate

LEMMA ChannelKeeps ==
  ASSUME Sound(state), NEW sweep \in Sweeps PROVE Keeps(CreateChannel(sweep))
<1> DEFINE st == [state EXCEPT !.channels = Append(@, Channel(sweep))]
<1>1. /\ state \in Configurations /\ state.channels \in Seq(ChannelRecords)
      /\ Channel(sweep) \in ChannelRecords
  BY DEF Sound, Configurations, Channel, ChannelRecords, Modes
<1>2. /\ st.channels = Append(state.channels, Channel(sweep))
      /\ st.channels \in Seq(ChannelRecords)
      /\ DOMAIN state.channels \subseteq DOMAIN st.channels /\ Len(st.channels) >= 1
  BY <1>1 DEF Configurations
<1>3. /\ st \in Configurations /\ st.measurements = state.measurements
      /\ st.windows = state.windows /\ st.traces = state.traces
      /\ st.nextTrace = state.nextTrace
  BY <1>1, <1>2 DEF Configurations
<1> HIDE DEF st
<1>4. Sound(st)
  <2>1. \A m \in DOMAIN st.measurements : st.measurements[m].channel \in DOMAIN st.channels
    BY <1>2, <1>3 DEF Sound
  <2>2. state.windows <= st.windows
    BY <1>1, <1>3 DEF Configurations
  <2>3. QED
    BY <1>2, <1>3, <2>1, <2>2, SoundGrows
<1>5. QED
  BY <1>4, AnswersKeep, CandidatesKeep DEF CreateChannel, st

LEMMA ChannelUpdateKeeps ==
  ASSUME Sound(state), NEW c \in DOMAIN state.channels, NEW channel \in ChannelRecords
  PROVE  Sound([state EXCEPT !.channels[c] = channel])
<1> DEFINE st == [state EXCEPT !.channels[c] = channel]
<1>1. state \in Configurations /\ state.channels \in Seq(ChannelRecords)
  BY DEF Sound, Configurations
<1>2. st.channels = [state.channels EXCEPT ![c] = channel]
  BY <1>1 DEF Configurations
<1>3. /\ st.channels \in Seq(ChannelRecords) /\ Len(st.channels) = Len(state.channels)
      /\ DOMAIN st.channels = DOMAIN state.channels
  BY <1>1, <1>2
<1>4. /\ st \in Configurations /\ st.measurements = state.measurements
      /\ st.windows = state.windows /\ st.traces = state.traces
      /\ st.nextTrace = state.nextTrace
  BY <1>1, <1>3 DEF Configurations
<1> HIDE DEF st
<1>5. Sound(st)
  <2>1. \A m \in DOMAIN st.measurements : st.measurements[m].channel \in DOMAIN st.channels
    BY <1>3, <1>4 DEF Sound
  <2>2. Len(st.channels) >= 1 /\ state.windows <= st.windows
    BY <1>1, <1>3, <1>4 DEF Sound, Configurations
  <2>3. QED
    BY <1>3, <1>4, <2>1, <2>2, SoundGrows
<1>6. QED
  BY <1>5 DEF st

LEMMA SweepKeeps ==
  ASSUME Sound(state), NEW c, NEW sweep \in Sweeps
  PROVE  Keeps(UpdateChannelSweep(c, sweep))
<1>1. ASSUME c \in DOMAIN state.channels
      PROVE  Sound([state EXCEPT !.channels[c].sweep = sweep])
  <2> DEFINE channel == [state.channels[c] EXCEPT !.sweep = sweep]
  <2>1. state.channels[c] \in ChannelRecords
    BY <1>1 DEF Sound, Configurations
  <2>2. channel \in ChannelRecords
    BY <2>1 DEF ChannelRecords
  <2>3. [state EXCEPT !.channels[c].sweep = sweep] = [state EXCEPT !.channels[c] = channel]
    BY <1>1 DEF Sound, Configurations
  <2>4. QED
    BY <1>1, <2>2, <2>3, ChannelUpdateKeeps
<1>2. QED
  BY <1>1, AnswersKeep, NothingKeeps, CandidatesKeep DEF UpdateChannelSweep

LEMMA SweepControlKeeps ==
  ASSUME Sound(state), NEW c, NEW mode \in Modes, NEW count \in Counts
  PROVE  Keeps(UpdateChannelSweepControl(c, mode, count))
<1>1. ASSUME c \in DOMAIN state.channels
      PROVE  Sound([state EXCEPT !.channels[c].mode = mode, !.channels[c].count = count])
  <2> DEFINE channel == [state.channels[c] EXCEPT !.mode = mode, !.count = count]
  <2>1. state.channels[c] \in ChannelRecords
    BY <1>1 DEF Sound, Configurations
  <2>2. channel \in ChannelRecords
    BY <2>1 DEF ChannelRecords
  <2>3. [state EXCEPT !.channels[c].mode = mode, !.channels[c].count = count]
            = [state EXCEPT !.channels[c] = channel]
    BY <1>1 DEF Sound, Configurations
  <2>4. QED
    BY <1>1, <2>2, <2>3, ChannelUpdateKeeps
<1>2. QED
  BY <1>1, AnswersKeep, NothingKeeps, CandidatesKeep DEF UpdateChannelSweepControl

\* A measurement of a channel that is there, added at the end.
LEMMA SoundMeasures ==
  ASSUME NEW st, Sound(st), NEW c \in DOMAIN st.channels, NEW type \in Types
  PROVE  LET extended == [st EXCEPT !.measurements = Append(@, Measurement(c, type))]
             last == Len(st.measurements) + 1
         IN  /\ Sound(extended)
             /\ extended.channels = st.channels /\ extended.windows = st.windows
             /\ extended.traces = st.traces /\ extended.nextTrace = st.nextTrace
             /\ DOMAIN extended.measurements = DOMAIN st.measurements \cup {last}
             /\ extended.measurements[last] = Measurement(c, type)
             /\ \A m \in DOMAIN st.measurements :
                    extended.measurements[m] = st.measurements[m]
<1> DEFINE extended == [st EXCEPT !.measurements = Append(@, Measurement(c, type))]
           last == Len(st.measurements) + 1
<1>1. /\ st \in Configurations /\ st.measurements \in Seq(MeasurementRecords)
      /\ Measurement(c, type) \in MeasurementRecords
      /\ Measurement(c, type).channel = c
  BY DEF Sound, Configurations, Measurement, MeasurementRecords
<1>2. /\ extended.measurements = Append(st.measurements, Measurement(c, type))
      /\ extended.measurements \in Seq(MeasurementRecords)
      /\ DOMAIN extended.measurements = DOMAIN st.measurements \cup {last}
      /\ extended.measurements[last] = Measurement(c, type)
      /\ \A m \in DOMAIN st.measurements : extended.measurements[m] = st.measurements[m]
  BY <1>1 DEF Configurations
<1>3. /\ extended \in Configurations /\ extended.channels = st.channels
      /\ extended.windows = st.windows /\ extended.traces = st.traces
      /\ extended.nextTrace = st.nextTrace
  BY <1>1, <1>2 DEF Configurations
<1> HIDE DEF extended, last
<1>4. Sound(extended)
  <2>1. \A m \in DOMAIN extended.measurements :
            extended.measurements[m].channel \in DOMAIN extended.channels
    BY <1>1, <1>2, <1>3 DEF Sound
  <2>2. Len(extended.channels) >= 1
    BY <1>3 DEF Sound
  <2>3. st.windows <= extended.windows
    BY <1>1, <1>3 DEF Configurations
  <2>4. QED
    BY <1>2, <1>3, <2>1, <2>2, <2>3, SoundGrows
<1>5. QED
  BY <1>2, <1>3, <1>4 DEF extended, last

LEMMA MeasurementKeeps ==
  ASSUME Sound(state), NEW c, NEW type \in Types PROVE Keeps(CreateMeasurement(c, type))
BY SoundMeasures, AnswersKeep, CandidatesKeep DEF CreateMeasurement

LEMMA WindowKeeps ==
  ASSUME Sound(state) PROVE Keeps(CreateWindow)
<1> DEFINE st == [state EXCEPT !.windows = @ + 1]
<1>1. /\ st \in Configurations /\ st.channels = state.channels
      /\ st.measurements = state.measurements /\ st.windows = state.windows + 1
      /\ st.traces = state.traces /\ st.nextTrace = state.nextTrace
      /\ state.windows \in Nat
  <2>1. state \in Configurations
    BY DEF Sound
  <2>2. state.windows \in Nat
    BY <2>1 DEF Configurations
  <2>3. st \in Configurations
    BY <2>1, <2>2 DEF Configurations
  <2>4. QED
    BY <2>1, <2>2, <2>3 DEF Configurations
<1> HIDE DEF st
<1>2. Sound(st)
  BY <1>1, SoundGrows DEF Sound
<1>3. QED
  BY <1>2, CandidatesKeep DEF CreateWindow, st
\* What is known of a trace that is there.
LEMMA TraceThere ==
  ASSUME NEW st, Sound(st), NEW t \in DOMAIN st.traces
  PROVE  /\ st \in Configurations /\ t \in Nat /\ t < st.nextTrace
         /\ st.nextTrace \in Nat /\ st.windows \in Nat
         /\ st.traces[t] \in TraceRecords /\ TraceSound(st, st.traces[t])
         /\ DOMAIN st.traces \cup {t} = DOMAIN st.traces
BY TraceMapsAreMaps DEF Sound, Configurations

\* One trace is changed.
LEMMA TraceUpdateKeeps ==
  ASSUME NEW st, Sound(st), NEW t \in DOMAIN st.traces, NEW trace \in TraceRecords,
         TraceSound(st, trace)
  PROVE  Sound([st EXCEPT !.traces[t] = trace])
<1> DEFINE changed == [st EXCEPT !.traces[t] = trace]
<1>1. st.traces = [s \in DOMAIN st.traces |-> st.traces[s]]
  BY TraceMapsAreMaps DEF Sound, Configurations
<1>2. changed.traces = [st.traces EXCEPT ![t] = trace] /\ changed.nextTrace = st.nextTrace
  BY DEF Sound, Configurations
<1>3. /\ DOMAIN changed.traces = DOMAIN st.traces \cup {t}
      /\ changed.traces = [s \in DOMAIN st.traces \cup {t} |->
                              IF s = t THEN trace ELSE st.traces[s]]
  BY <1>1, <1>2
<1>4. changed = [st EXCEPT !.traces = changed.traces, !.nextTrace = changed.nextTrace]
  BY <1>2 DEF Sound, Configurations
<1>5. t \in Nat /\ t < st.nextTrace /\ st.nextTrace \in Nat
  BY TraceThere
<1> HIDE DEF changed
<1>6. /\ changed.nextTrace \in Nat /\ t < changed.nextTrace
      /\ st.nextTrace <= changed.nextTrace
  BY <1>2, <1>5
<1>7. Sound(changed)
  BY <1>3, <1>4, <1>5, <1>6, SoundTrace
<1>8. QED
  BY <1>7 DEF changed

LEMMA NewTraceIsSound ==
  ASSUME NEW st, Sound(st), NEW w \in 1..st.windows, NEW m \in DOMAIN st.measurements,
         NEW format \in Formats
  PROVE  Trace(w, m, format) \in TraceRecords /\ TraceSound(st, Trace(w, m, format))
<1>1. /\ m \in Nat /\ w \in Nat
      /\ st.measurements \in Seq(MeasurementRecords)
  BY DEF Sound, Configurations
<1>2. QED
  BY <1>1, ScaleFits DEF Trace, TraceRecords, TraceSound

LEMMA TraceKeeps ==
  ASSUME Sound(state), NEW w, NEW m, NEW format \in Formats
  PROVE  Keeps(CreateTrace(w, m, format))
<1> DEFINE t == state.nextTrace
           trace == Trace(w, m, format)
           changed == [state EXCEPT
               !.traces = [s \in DOMAIN @ \cup {state.nextTrace} |->
                   IF s = state.nextTrace THEN Trace(w, m, format) ELSE @[s]],
               !.nextTrace = @ + 1]
<1>1. ASSUME m \in DOMAIN state.measurements, HasWindow(w)
      PROVE  Sound(changed)
  <2>1. trace \in TraceRecords /\ TraceSound(state, trace)
    BY <1>1, NewTraceIsSound DEF HasWindow
  <2>2. /\ changed.traces = [s \in DOMAIN state.traces \cup {t} |->
                                IF s = t THEN trace ELSE state.traces[s]]
        /\ DOMAIN changed.traces = DOMAIN state.traces \cup {t}
        /\ changed.nextTrace = t + 1 /\ t \in Nat
    BY DEF Sound, Configurations
  <2>3. changed = [state EXCEPT !.traces = changed.traces, !.nextTrace = changed.nextTrace]
    BY <2>2 DEF Sound, Configurations
  <2>4. /\ changed.nextTrace \in Nat /\ t < changed.nextTrace
        /\ state.nextTrace <= changed.nextTrace
    BY <2>2
  <2> HIDE DEF changed, trace, t
  <2>5. QED
    BY <2>1, <2>2, <2>3, <2>4, SoundTrace
<1>2. QED
  BY <1>1, AnswersKeep, CandidatesKeep DEF CreateTrace

LEMMA FormatKeeps ==
  ASSUME Sound(state), NEW t, NEW format \in Formats
  PROVE  Keeps(UpdateTraceFormat(t, format))
<1>1. ASSUME t \in DOMAIN state.traces
      PROVE  Sound([state EXCEPT !.traces[t].format = format,
                                 !.traces[t].scale = DefaultScaleFor(format)])
  <2> DEFINE trace == [state.traces[t] EXCEPT !.format = format,
                                              !.scale = DefaultScaleFor(format)]
  <2>1. trace \in TraceRecords /\ TraceSound(state, trace)
    BY <1>1, TraceThere, ScaleFits DEF TraceRecords, TraceSound
  <2>2. [state EXCEPT !.traces[t].format = format,
                      !.traces[t].scale = DefaultScaleFor(format)]
            = [state EXCEPT !.traces[t] = trace]
    BY <1>1, TraceMapsAreMaps DEF Sound, Configurations
  <2> HIDE DEF trace
  <2>3. QED
    BY <1>1, <2>1, <2>2, TraceUpdateKeeps
<1>2. QED
  BY <1>1, AnswersKeep, NothingKeeps, CandidatesKeep DEF UpdateTraceFormat

LEMMA ScaleKeeps ==
  ASSUME Sound(state), NEW t, NEW value PROVE Keeps(UpdateTraceScale(t, value))
<1>1. ASSUME t \in DOMAIN state.traces, state.traces[t].scale # NoScale, value \in ValidScales
      PROVE  Sound([state EXCEPT !.traces[t].scale = value])
  <2> DEFINE trace == [state.traces[t] EXCEPT !.scale = value]
  <2>1. trace \in TraceRecords /\ TraceSound(state, trace)
    BY <1>1, TraceThere, WorkspaceAssumption DEF TraceRecords, TraceSound
  <2>2. [state EXCEPT !.traces[t].scale = value] = [state EXCEPT !.traces[t] = trace]
    BY <1>1, TraceMapsAreMaps DEF Sound, Configurations
  <2> HIDE DEF trace
  <2>3. QED
    BY <1>1, <2>1, <2>2, TraceUpdateKeeps
<1>2. QED
  BY <1>1, AnswersKeep, CandidatesKeep DEF UpdateTraceScale

LEMMA RemovalKeeps ==
  ASSUME Sound(state), NEW t PROVE Keeps(RemoveTrace(t))
<1> DEFINE st == [state EXCEPT !.traces = [s \in DOMAIN @ \ {t} |-> @[s]]]
<1>1. /\ st.traces = [s \in DOMAIN state.traces \ {t} |-> state.traces[s]]
      /\ DOMAIN st.traces = DOMAIN state.traces \ {t}
      /\ st.channels = state.channels /\ st.measurements = state.measurements
      /\ st.windows = state.windows /\ st.nextTrace = state.nextTrace
  BY DEF Sound, Configurations
<1>2. st.traces \in TraceMaps
  BY <1>1, TraceMapsAreMaps DEF Sound, Configurations
<1>3. st \in Configurations
  BY <1>1, <1>2 DEF Sound, Configurations
<1> HIDE DEF st
<1>4. Sound(st)
  BY <1>1, <1>3 DEF Sound, TraceSound
<1>5. QED
  BY <1>4, AnswersKeep, CandidatesKeep DEF RemoveTrace, st

\* The measurement of a type, made when there is none.
Grown(st, larger) ==
    /\ larger.channels = st.channels /\ larger.windows = st.windows
    /\ larger.traces = st.traces /\ larger.nextTrace = st.nextTrace
    /\ DOMAIN st.measurements \subseteq DOMAIN larger.measurements
    /\ \A m \in DOMAIN st.measurements : larger.measurements[m] = st.measurements[m]

LEMMA WithTypeMeasures ==
  ASSUME NEW st, Sound(st), NEW c \in DOMAIN st.channels, NEW type \in Types
  PROVE  /\ Sound(WithType(st, c, type)) /\ Grown(st, WithType(st, c, type))
         /\ OfType(WithType(st, c, type), c, type) # {}
<1>1. CASE OfType(st, c, type) # {}
  BY <1>1 DEF WithType, Grown
<1>2. CASE OfType(st, c, type) = {}
  <2>1. WithType(st, c, type)
            = [st EXCEPT !.measurements = Append(@, Measurement(c, type))]
    BY <1>2 DEF WithType
  <2>2. QED
    BY <2>1, SoundMeasures DEF Grown, OfType
<1>3. QED
  BY <1>1, <1>2

LEMMA OfTypeGrows ==
  ASSUME NEW st, NEW larger, Grown(st, larger), NEW c, NEW type, OfType(st, c, type) # {}
  PROVE  OfType(larger, c, type) # {}
BY DEF Grown, OfType

LEMMA OfTypeIsThere ==
  ASSUME NEW st, Sound(st), NEW c, NEW type, OfType(st, c, type) # {}
  PROVE  /\ Least(OfType(st, c, type)) \in DOMAIN st.measurements
         /\ st.measurements[Least(OfType(st, c, type))] = Measurement(c, type)
<1>1. OfType(st, c, type) \in SUBSET Nat
  BY DEF OfType, Sound, Configurations
<1>2. Least(OfType(st, c, type)) \in OfType(st, c, type)
  BY <1>1, LeastExists
<1>3. QED
  BY <1>2 DEF OfType

LEMMA TypeKeeps ==
  ASSUME Sound(state), NEW t, NEW type \in Types
  PROVE  Keeps(SetTraceMeasurementType(t, type))
<1> DEFINE c == state.measurements[state.traces[t].measurement].channel
           extended == WithType(state, c, type)
           m == Least(OfType(extended, c, type))
<1>1. ASSUME t \in DOMAIN state.traces
      PROVE  Sound([extended EXCEPT !.traces[t].measurement = m])
  <2>1. c \in DOMAIN state.channels
    BY <1>1, TraceThere DEF TraceSound, Sound
  <2>2. /\ Sound(extended) /\ Grown(state, extended) /\ OfType(extended, c, type) # {}
    BY <2>1, WithTypeMeasures
  <2> HIDE DEF extended
  <2>3. m \in DOMAIN extended.measurements
    BY <2>2, OfTypeIsThere
  <2> HIDE DEF m, c
  <2> DEFINE trace == [extended.traces[t] EXCEPT !.measurement = m]
  <2>4. t \in DOMAIN extended.traces /\ extended.traces = state.traces
    BY <1>1, <2>2 DEF Grown
  <2>5. m \in Nat
    BY <2>2, <2>3 DEF Sound, Configurations
  <2>6. trace \in TraceRecords /\ TraceSound(extended, trace)
    BY <2>2, <2>3, <2>4, <2>5, TraceThere DEF TraceRecords, TraceSound
  <2>7. [extended EXCEPT !.traces[t].measurement = m] = [extended EXCEPT !.traces[t] = trace]
    BY <2>2, <2>4, TraceMapsAreMaps DEF Sound, Configurations
  <2> HIDE DEF trace
  <2>8. QED
    BY <2>2, <2>4, <2>6, <2>7, TraceUpdateKeeps
<1>2. QED
  BY <1>1, AnswersKeep, NothingKeeps, CandidatesKeep DEF SetTraceMeasurementType
-------------------------------------------------------------------------------
(* All S-Params.                                                            *)

LEMMA FourTypes ==
  /\ DOMAIN SParameters = 1..4 /\ Len(SParameters) = 4
  /\ SParameters[1] = "S11" /\ SParameters[2] = "S12"
  /\ SParameters[3] = "S21" /\ SParameters[4] = "S22"
  /\ Types = {"S11", "S12", "S21", "S22"}
<1>1. /\ DOMAIN SParameters = 1..4 /\ Len(SParameters) = 4
      /\ SParameters[1] = "S11" /\ SParameters[2] = "S12"
      /\ SParameters[3] = "S21" /\ SParameters[4] = "S22"
  BY DEF SParameters
<1>2. Types = {SParameters[i] : i \in 1..4}
  BY <1>1 DEF Types
<1>3. QED
  BY <1>1, <1>2

Measured(c) ==
    WithType(WithType(WithType(WithType(state, c, "S11"), c, "S12"), c, "S21"), c, "S22")

LEMMA MeasuredHasAll ==
  ASSUME Sound(state), NEW c \in DOMAIN state.channels
  PROVE  /\ Sound(Measured(c)) /\ Grown(state, Measured(c))
         /\ \A i \in 1..4 : OfType(Measured(c), c, SParameters[i]) # {}
<1> DEFINE one == WithType(state, c, "S11")
           two == WithType(one, c, "S12")
           three == WithType(two, c, "S21")
           four == WithType(three, c, "S22")
<1>1. Sound(one) /\ Grown(state, one) /\ OfType(one, c, "S11") # {}
  BY WithTypeMeasures, FourTypes
<1> HIDE DEF one
<1>2. c \in DOMAIN one.channels
  BY <1>1 DEF Grown
<1>3. Sound(two) /\ Grown(one, two) /\ OfType(two, c, "S12") # {}
  BY <1>1, <1>2, WithTypeMeasures, FourTypes
<1> HIDE DEF two
<1>4. c \in DOMAIN two.channels
  BY <1>2, <1>3 DEF Grown
<1>5. Sound(three) /\ Grown(two, three) /\ OfType(three, c, "S21") # {}
  BY <1>3, <1>4, WithTypeMeasures, FourTypes
<1> HIDE DEF three
<1>6. c \in DOMAIN three.channels
  BY <1>4, <1>5 DEF Grown
<1>7. Sound(four) /\ Grown(three, four) /\ OfType(four, c, "S22") # {}
  BY <1>5, <1>6, WithTypeMeasures, FourTypes
<1> HIDE DEF four
<1>8. OfType(two, c, "S11") # {} /\ OfType(three, c, "S11") # {} /\ OfType(four, c, "S11") # {}
  BY <1>1, <1>3, <1>5, <1>7, OfTypeGrows
<1>9. /\ OfType(three, c, "S12") # {} /\ OfType(four, c, "S12") # {}
      /\ OfType(four, c, "S21") # {}
  BY <1>3, <1>5, <1>7, OfTypeGrows
<1>10. Grown(state, four)
  BY <1>1, <1>3, <1>5, <1>7 DEF Grown
<1>11. four = Measured(c)
  BY DEF four, three, two, one, Measured
<1>12. QED
  BY <1>7, <1>8, <1>9, <1>10, <1>11, FourTypes

\* The anchor is given S11 and three traces are added, each in a window of its own.
LEMMA DiagramsAreSound ==
  ASSUME Sound(state), NEW c \in DOMAIN state.channels, NEW t, DOMAIN state.traces = {t}
  PROVE  LET all == WithAllDiagrams(t, c)
             first == state.nextTrace
         IN  /\ Sound(all)
             /\ all.windows = state.windows + 3
             /\ DOMAIN all.traces = {t, first, first + 1, first + 2}
             /\ t < first
             /\ all.traces[t].window = state.traces[t].window
             /\ all.measurements[all.traces[t].measurement] = Measurement(c, "S11")
             /\ \A i \in 2..4 :
                    /\ all.traces[first + i - 2].window = state.windows + i - 1
                    /\ all.measurements[all.traces[first + i - 2].measurement]
                           = Measurement(c, SParameters[i])
<1> DEFINE st == Measured(c)
           measurement(i) == Least(OfType(st, c, SParameters[i]))
           first == state.nextTrace
           ids == DOMAIN state.traces \cup first..(first + 2)
           place(s) ==
               IF s = t THEN [state.traces[t] EXCEPT !.measurement = measurement(1)]
               ELSE Trace(state.windows + (s - first + 2) - 1, measurement(s - first + 2),
                          "LogMagnitude")
           all == WithAllDiagrams(t, c)
<1>1. Sound(st) /\ Grown(state, st) /\ \A i \in 1..4 : OfType(st, c, SParameters[i]) # {}
  BY MeasuredHasAll
<1>2. \A i \in 1..4 : /\ measurement(i) \in DOMAIN st.measurements
                      /\ st.measurements[measurement(i)] = Measurement(c, SParameters[i])
  BY <1>1, OfTypeIsThere
<1>3. /\ state.windows \in Nat /\ first \in Nat /\ DOMAIN state.traces \subseteq Nat
      /\ \A s \in DOMAIN state.traces : s < first
      /\ st.traces = state.traces /\ st.windows = state.windows
      /\ st.nextTrace = first /\ st \in Configurations
      /\ state \in Configurations
  BY <1>1, TraceMapsAreMaps DEF Sound, Configurations, Grown
<1>4. /\ all.traces = [s \in ids |-> place(s)]
      /\ all.windows = state.windows + 3 /\ all.nextTrace = first + 3
      /\ all.channels = st.channels /\ all.measurements = st.measurements
      /\ all = [st EXCEPT !.windows = all.windows, !.traces = all.traces,
                          !.nextTrace = all.nextTrace]
  BY <1>3 DEF WithAllDiagrams, Measured, Configurations
<1>5. /\ ids = {t, first, first + 1, first + 2}
      /\ t \in Nat /\ t < first /\ t \in DOMAIN state.traces
  BY <1>3
<1>6. /\ place(t) = [state.traces[t] EXCEPT !.measurement = measurement(1)]
      /\ state.traces[t] \in TraceRecords /\ TraceSound(state, state.traces[t])
  BY <1>5, TraceThere
<1>7. \A i \in 2..4 : place(first + i - 2) =
          Trace(state.windows + i - 1, measurement(i), "LogMagnitude")
  <2>1. SUFFICES ASSUME NEW i \in 2..4
                 PROVE  place(first + i - 2) =
                            Trace(state.windows + i - 1, measurement(i), "LogMagnitude")
    OBVIOUS
  <2>2. first + i - 2 # t /\ (first + i - 2) - first + 2 = i
    BY <1>3, <1>5
  <2> HIDE DEF measurement, first
  <2>3. QED
    BY <2>2
<1> HIDE DEF place, measurement
<1>8. \A s \in ids : place(s) \in TraceRecords /\ TraceSound(all, place(s))
  <2>1. \A i \in 1..4 : measurement(i) \in DOMAIN all.measurements /\ measurement(i) \in Nat
    <3>1. st.measurements \in Seq(MeasurementRecords)
      BY <1>3 DEF Configurations
    <3>2. DOMAIN st.measurements \subseteq Nat
      BY <3>1
    <3>3. QED
      BY <1>2, <1>4, <3>2
  <2>2. place(t) \in TraceRecords /\ TraceSound(all, place(t))
    <3>1. measurement(1) \in DOMAIN all.measurements /\ measurement(1) \in Nat
      BY <2>1
    <3>2. /\ place(t) \in TraceRecords /\ place(t).measurement = measurement(1)
          /\ place(t).window = state.traces[t].window
          /\ place(t).format = state.traces[t].format
          /\ place(t).scale = state.traces[t].scale
      BY <1>6, <3>1 DEF TraceRecords
    <3>3. place(t).window \in 1..all.windows
      BY <1>3, <1>4, <1>6, <3>2 DEF TraceSound, TraceRecords
    <3>4. QED
      BY <1>6, <3>1, <3>2, <3>3 DEF TraceSound
  <2>3. ASSUME NEW i \in 2..4
        PROVE  /\ place(first + i - 2) \in TraceRecords
               /\ TraceSound(all, place(first + i - 2))
    BY <1>3, <1>4, <1>7, <2>1, ScaleFits, WorkspaceAssumption
    DEF Trace, TraceRecords, TraceSound
  <2>4. /\ first = first + 2 - 2 /\ first + 1 = first + 3 - 2 /\ first + 2 = first + 4 - 2
    BY <1>3
  <2>5. ASSUME NEW s \in ids, s # t PROVE \E i \in 2..4 : s = first + i - 2
    BY <1>5, <2>4, <2>5
  <2>6. QED
    BY <2>2, <2>3, <2>5
<1>9. /\ DOMAIN all.traces = ids /\ ids \subseteq Nat
      /\ all.traces = [s \in DOMAIN all.traces |-> all.traces[s]]
      /\ \A s \in ids : all.traces[s] = place(s) /\ s < first + 3
  BY <1>3, <1>4, <1>5
<1> HIDE DEF ids
<1>10. Sound(all)
  <2>1. all \in Configurations
    <3>1. all.traces \in [DOMAIN all.traces -> TraceRecords]
      BY <1>8, <1>9
    <3>2. all.traces \in TraceMaps
      BY <1>9, <3>1, TraceMapsAreMaps
    <3>3. QED
      BY <1>3, <1>4, <3>2 DEF Configurations
  <2>2. \A s \in DOMAIN all.traces : s < all.nextTrace /\ TraceSound(all, all.traces[s])
    BY <1>4, <1>8, <1>9
  <2>3. Len(all.channels) >= 1 /\ all.nextTrace >= 1
    BY <1>1, <1>3, <1>4 DEF Sound
  <2>4. \A m \in DOMAIN all.measurements : all.measurements[m].channel \in DOMAIN all.channels
    BY <1>1, <1>4 DEF Sound
  <2>5. QED
    BY <2>1, <2>2, <2>3, <2>4 DEF Sound
<1>11. /\ all.traces[t].window = state.traces[t].window
       /\ all.traces[t].measurement = measurement(1)
  BY <1>5, <1>6, <1>9 DEF TraceRecords
<1>12. \A i \in 2..4 : /\ all.traces[first + i - 2].window = state.windows + i - 1
                       /\ all.traces[first + i - 2].measurement = measurement(i)
  <2>1. \A i \in 2..4 : first + i - 2 \in ids
    BY <1>3, <1>5
  <2>2. SUFFICES ASSUME NEW i \in 2..4
                 PROVE  /\ all.traces[first + i - 2].window = state.windows + i - 1
                        /\ all.traces[first + i - 2].measurement = measurement(i)
    OBVIOUS
  <2>3. all.traces[first + i - 2] = place(first + i - 2)
    BY <1>9, <2>1
  <2>4. all.traces[first + i - 2]
            = Trace(state.windows + i - 1, measurement(i), "LogMagnitude")
    BY <1>7, <2>3
  <2>5. QED
    BY <2>4 DEF Trace
<1>13. QED
  BY <1>2, <1>4, <1>5, <1>9, <1>10, <1>11, <1>12, FourTypes
LEMMA AllSKeeps ==
  ASSUME Sound(state), NEW t PROVE Keeps(EnsureAllSParameters(t))
<1> DEFINE c == state.measurements[state.traces[t].measurement].channel
<1>1. ASSUME t \in DOMAIN state.traces, IsPresetShape(t)
      PROVE  Sound(WithAllDiagrams(t, c))
  <2>1. c \in DOMAIN state.channels /\ DOMAIN state.traces = {t}
    BY <1>1, TraceThere DEF TraceSound, Sound, IsPresetShape
  <2>2. QED
    BY <2>1, DiagramsAreSound
<1>2. QED
  BY <1>1, AnswersKeep, NothingKeeps, CandidatesKeep DEF EnsureAllSParameters

-------------------------------------------------------------------------------
(* The theorems.                                                            *)

LEMMA CommandsKeep ==
  ASSUME Sound(state), NEW result, IsCommand(result) PROVE Keeps(result)
BY ChannelKeeps, SweepKeeps, SweepControlKeeps, MeasurementKeeps, WindowKeeps, TraceKeeps,
   FormatKeeps, TypeKeeps, ScaleKeeps, RemovalKeeps, AllSKeeps
DEF IsCommand

WorkspaceInv == Sound(state) /\ ~rejected

LEMMA WorkspaceInit == Init => WorkspaceInv
<1>1. SUFFICES ASSUME Init PROVE Sound(state)
  BY DEF Init, WorkspaceInv
<1>2. /\ state.channels = <<Channel(FactorySweep)>>
      /\ state.measurements = <<Measurement(AcquisitionChannel, "S21")>>
      /\ state.windows = 1 /\ state.nextTrace = 2
      /\ state.traces = <<Trace(1, 1, "LogMagnitude")>>
      /\ state = [channels |-> state.channels, measurements |-> state.measurements,
                  windows |-> 1, traces |-> state.traces, nextTrace |-> 2]
  BY <1>1 DEF Init
<1>3. /\ Channel(FactorySweep) \in ChannelRecords
      /\ Measurement(AcquisitionChannel, "S21") \in MeasurementRecords
      /\ Measurement(AcquisitionChannel, "S21").channel = 1
      /\ Trace(1, 1, "LogMagnitude") \in TraceRecords
      /\ Trace(1, 1, "LogMagnitude").window = 1
      /\ Trace(1, 1, "LogMagnitude").measurement = 1
      /\ Trace(1, 1, "LogMagnitude").scale = NoScale
             <=> Trace(1, 1, "LogMagnitude").format # "LogMagnitude"
  BY WorkspaceAssumption, FourTypes, ScaleFits
  DEF Channel, ChannelRecords, Modes, Measurement, MeasurementRecords, AcquisitionChannel,
      Trace, TraceRecords
<1>4. /\ state.channels \in Seq(ChannelRecords) /\ Len(state.channels) = 1
      /\ DOMAIN state.channels = {1}
      /\ state.measurements \in Seq(MeasurementRecords) /\ DOMAIN state.measurements = {1}
      /\ state.measurements[1].channel = 1
  BY <1>2, <1>3
<1>5. /\ DOMAIN state.traces = {1} /\ state.traces[1] = Trace(1, 1, "LogMagnitude")
      /\ state.traces \in [DOMAIN state.traces -> TraceRecords]
  BY <1>2, <1>3
<1>6. state \in Configurations
  <2>1. {1} \subseteq Nat
    OBVIOUS
  <2>2. state.traces \in TraceMaps
    BY <1>5, <2>1, TraceMapsAreMaps
  <2> DEFINE C == state.channels
             M == state.measurements
             T == state.traces
  <2>3. /\ C \in Seq(ChannelRecords) /\ M \in Seq(MeasurementRecords) /\ T \in TraceMaps
        /\ state = [channels |-> C, measurements |-> M, windows |-> 1, traces |-> T,
                    nextTrace |-> 2]
    BY <1>2, <1>4, <2>2
  <2> HIDE DEF C, M, T
  <2>4. QED
    BY <2>3 DEF Configurations
<1>7. QED
  BY <1>2, <1>3, <1>4, <1>5, <1>6 DEF Sound, TraceSound

LEMMA WorkspaceStep == WorkspaceInv /\ [Next]_vars => WorkspaceInv'
<1> SUFFICES ASSUME WorkspaceInv, [Next]_vars PROVE WorkspaceInv'
  OBVIOUS
<1>1. ASSUME NEW result, IsCommand(result), Command(result) PROVE WorkspaceInv'
  <2>1. Keeps(result)
    BY <1>1, CommandsKeep DEF WorkspaceInv
  <2>2. CASE Answers(result)
    BY <2>2 DEF Answers, WorkspaceInv, vars, Sound, TraceSound
  <2>3. CASE Rejects(result)
    BY <2>1, <2>3, SoundIsIntact DEF Rejects, Keeps
  <2>4. CASE Commits(result)
    <3>1. Sound(result.candidate) /\ state' = result.candidate /\ rejected' = rejected
      BY <2>1, <2>4 DEF Commits, Keeps
    <3>2. Sound(state)'
      BY <3>1 DEF Sound, TraceSound
    <3>3. QED
      BY <3>1, <3>2 DEF WorkspaceInv
  <2>5. QED
    BY <1>1, <2>2, <2>3, <2>4 DEF Command
<1>2. CASE Apply \/ RuntimeCloses \/ UNCHANGED vars
  BY <1>2 DEF Apply, RuntimeCloses, vars, WorkspaceInv, Sound, TraceSound
<1>3. QED
  BY <1>1, <1>2, StepKinds

\* For any settings and any number of commands, every window, measurement and channel
\* a configuration refers to is in it, and the catalog turns no command down
\* (TracePublicationCatalog::prepare, resolveTarget).
THEOREM ReferencesCorrect == Spec => []ReferencesHold
<1>1. ASSUME WorkspaceInv PROVE ReferencesHold
  BY <1>1, SoundIsIntact DEF WorkspaceInv, Sound, TraceSound, ReferencesHold
<1>2. QED
  BY <1>1, WorkspaceInit, WorkspaceStep, PTL DEF Spec

-------------------------------------------------------------------------------
(* All S-Params shows all.                                                  *)

\* ShowsAll, told of the trace that each window shows.
LEMMA ShowsAllWhen ==
  ASSUME NEW st, st.windows = 4, NEW at,
         \A i \in 1..4 :
             /\ at[i] \in DOMAIN st.traces /\ st.traces[at[i]].window = i
             /\ st.measurements[st.traces[at[i]].measurement]
                    = Measurement(AcquisitionChannel, SParameters[i]),
         \A s \in DOMAIN st.traces : \E i \in 1..4 : s = at[i]
  PROVE  ShowsAll(st)
<1>1. SUFFICES ASSUME NEW i \in 1..4
               PROVE  LET shown == {t \in DOMAIN st.traces : st.traces[t].window = i} IN
                      /\ Cardinality(shown) = 1
                      /\ \A t \in shown : st.measurements[st.traces[t].measurement]
                             = Measurement(AcquisitionChannel, SParameters[i])
  BY FourTypes DEF ShowsAll
<1>2. {t \in DOMAIN st.traces : st.traces[t].window = i} = {at[i]}
  OBVIOUS
<1>3. QED
  BY <1>2, FS_Singleton

LEMMA CompleteShowsAll ==
  ASSUME IsComplete(AcquisitionChannel) PROVE ShowsAll(state)
<1> DEFINE at == [i \in 1..4 |-> i]
<1>1. /\ state.windows = 4 /\ DOMAIN state.traces = 1..4
      /\ \A i \in 1..4 :
             /\ at[i] \in DOMAIN state.traces /\ state.traces[at[i]].window = i
             /\ state.measurements[state.traces[at[i]].measurement]
                    = Measurement(AcquisitionChannel, SParameters[i])
  BY FourTypes DEF IsComplete
<1>2. \A s \in DOMAIN state.traces : \E i \in 1..4 : s = at[i]
  BY <1>1
<1> HIDE DEF at
<1>3. QED
  BY <1>1, <1>2, ShowsAllWhen

LEMMA DiagramsShowAll ==
  ASSUME Sound(state), NEW t, IsPresetShape(t), AcquisitionChannel \in DOMAIN state.channels
  PROVE  ShowsAll(WithAllDiagrams(t, AcquisitionChannel))
<1> DEFINE all == WithAllDiagrams(t, AcquisitionChannel)
           first == state.nextTrace
           at == [i \in 1..4 |-> IF i = 1 THEN t ELSE first + i - 2]
<1>1. /\ DOMAIN state.traces = {t} /\ state.windows = 1 /\ state.traces[t].window = 1
      /\ first \in Nat
  BY DEF IsPresetShape, Sound, Configurations
<1>2. /\ all.windows = state.windows + 3
      /\ DOMAIN all.traces = {t, first, first + 1, first + 2}
      /\ all.traces[t].window = state.traces[t].window
      /\ all.measurements[all.traces[t].measurement] = Measurement(AcquisitionChannel, "S11")
      /\ \A i \in 2..4 :
             /\ all.traces[first + i - 2].window = state.windows + i - 1
             /\ all.measurements[all.traces[first + i - 2].measurement]
                    = Measurement(AcquisitionChannel, SParameters[i])
  BY <1>1, DiagramsAreSound
<1> HIDE DEF all
<1>3. /\ at[1] = t /\ at[2] = first /\ at[3] = first + 1 /\ at[4] = first + 2
      /\ \A i \in 2..4 : at[i] = first + i - 2
  BY <1>1
<1> HIDE DEF at, first
<1>4. all.windows = 4
  BY <1>1, <1>2
<1>5. \A i \in 1..4 :
          /\ at[i] \in DOMAIN all.traces /\ all.traces[at[i]].window = i
          /\ all.measurements[all.traces[at[i]].measurement]
                 = Measurement(AcquisitionChannel, SParameters[i])
  <2>1. SUFFICES ASSUME NEW i \in 1..4
                 PROVE  /\ at[i] \in DOMAIN all.traces /\ all.traces[at[i]].window = i
                        /\ all.measurements[all.traces[at[i]].measurement]
                               = Measurement(AcquisitionChannel, SParameters[i])
    OBVIOUS
  <2>2. CASE i = 1
    BY <1>1, <1>2, <1>3, <2>2, FourTypes
  <2>3. CASE i \in 2..4
    <3>1. at[i] \in DOMAIN all.traces
      BY <1>2, <1>3, <2>3
    <3>2. 1 + i - 1 = i
      OBVIOUS
    <3>3. QED
      BY <1>1, <1>2, <1>3, <2>3, <3>1, <3>2
  <2>4. QED
    BY <2>2, <2>3
<1>6. \A s \in DOMAIN all.traces : \E i \in 1..4 : s = at[i]
  BY <1>2, <1>3
<1>7. ShowsAll(all)
  BY <1>4, <1>5, <1>6, ShowsAllWhen
<1>8. QED
  BY <1>7 DEF all

LEMMA SoundShowsAll == Sound(state) => AllSShowsAll
<1>1. SUFFICES ASSUME Sound(state), NEW t \in DOMAIN state.traces,
                      EnsureAllSParameters(t).outcome \in {"success", "commit"}
               PROVE  ShowsAll(EnsureAllSParameters(t).candidate)
  BY DEF AllSShowsAll
<1> DEFINE c == state.measurements[state.traces[t].measurement].channel
<1>2. c \in DOMAIN state.channels /\ state.channels \in Seq(ChannelRecords)
  BY <1>1, TraceThere DEF TraceSound, Sound, Configurations
<1>3. /\ Len(state.channels) = 1
      /\ \/ IsComplete(c) /\ EnsureAllSParameters(t).candidate = state
         \/ /\ IsPresetShape(t)
            /\ EnsureAllSParameters(t).candidate = WithAllDiagrams(t, c)
  BY <1>1 DEF EnsureAllSParameters, Answer, Nothing, Candidate
<1> HIDE DEF c
<1>4. c = AcquisitionChannel
  BY <1>2, <1>3 DEF AcquisitionChannel
<1>5. QED
  BY <1>1, <1>2, <1>3, <1>4, CompleteShowsAll, DiagramsShowAll

\* For any settings, any configuration and any anchor, EnsureAllSParameters succeeds
\* only with four windows of one trace each, S11, S12, S21 and S22 of the acquisition
\* channel in this order.
THEOREM AllSCorrect == Spec => []AllSShowsAll
<1>1. WorkspaceInv => AllSShowsAll
  BY SoundShowsAll DEF WorkspaceInv
<1>2. QED
  BY <1>1, WorkspaceInit, WorkspaceStep, PTL DEF Spec
===============================================================================
