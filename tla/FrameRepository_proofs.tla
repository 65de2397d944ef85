------------------------ MODULE FrameRepository_proofs ------------------------
(***************************************************************************)
(* Waiting readers, for any traces, readers and bounds.                    *)
(*                                                                         *)
(* TypeOK and WaitStatesAgree need each other: that a count is a natural   *)
(* number rests on who is counted, and that no two traces share a wait     *)
(* state on there being one that nobody holds.  RepositoryInv adds that no *)
(* more states are to be notified than there are traces, and what          *)
(* NoFrameAfterLoss rests on (LossShows): a reader's count of discards     *)
(* tells when its trace was dropped, and only a reader that left has a     *)
(* result.                                                                 *)
(***************************************************************************)
EXTENDS FrameRepository, FiniteSetTheorems, TLAPS

ReaderRecords ==
    [step : Registered \cup {"idle", "enter", "disarm", "resolve"},
     trace : Traces, after : Nat, binding : Bindings \cup {Unbound},
     state : States \cup {NoState}, discards : Nat, result : Frames \cup {NoFrame}]
WaitRecords == [waiters : Nat, discards : Nat]

NotifyingFew == Cardinality(notifying) <= Cardinality(Traces)

\* A reader with a trace that was dropped sees it, and answers are given on leaving.
LossShows ==
    \A r \in Readers :
        /\ reader[r].step \in Registered =>
               /\ states[reader[r].state].discards >= reader[r].discards
               /\ lost[r] => states[reader[r].state].discards > reader[r].discards
        /\ reader[r].step \notin {"disarm", "resolve"} => reader[r].result = NoFrame

RepositoryInv ==
    TypeOK /\ NotifyingFew /\ WaitStatesAgree /\ LossShows /\ NoFrameAfterLoss

-------------------------------------------------------------------------------
(* Wait states.                                                             *)

LEMMA SomeStates ==
  /\ Cardinality(Traces) \in Nat /\ Cardinality(Traces) >= 1
  /\ Cardinality(Readers) \in Nat
  /\ NoState \notin States /\ States \subseteq Nat /\ IsFiniteSet(States)
  /\ Cardinality(States) = 2 * Cardinality(Traces) + Cardinality(Readers)
<1>1. Cardinality(Traces) \in Nat /\ Cardinality(Readers) \in Nat /\ Cardinality(Traces) # 0
  BY NamesAssumption, FS_CardinalityType, FS_EmptySet
<1> DEFINE n == 2 * Cardinality(Traces) + Cardinality(Readers)
<1>2. n \in Nat /\ n >= 1
  BY <1>1
<1>3. IsFiniteSet(1..n) /\ Cardinality(1..n) = n
  BY <1>2, FS_Interval
<1>4. QED
  BY <1>1, <1>2, <1>3 DEF States, NoState

\* A function has no more values than arguments.
LEMMA FewValues ==
  ASSUME NEW S, IsFiniteSet(S), NEW f
  PROVE  /\ IsFiniteSet({f[x] : x \in S})
         /\ Cardinality({f[x] : x \in S}) <= Cardinality(S)
<1> DEFINE T == {f[x] : x \in S}
           g == [x \in S |-> f[x]]
<1>1. g \in Surjection(S, T)
  BY DEF Surjection
<1>2. QED
  BY <1>1, FS_Surjection

\* There is always a wait state for a trace that has none.
LEMMA UnusedExists ==
  ASSUME TypeOK, NotifyingFew, NEW t \in Traces, entry[t] = NoState
  PROVE  Unused # {}
<1> DEFINE A == {entry[u] : u \in Traces \ {t}}
           H == [r \in Readers |-> reader[r].state]
           B == {H[r] : r \in Readers}
<1>1. IsFiniteSet(Traces \ {t}) /\ Cardinality(Traces \ {t}) = Cardinality(Traces) - 1
  BY NamesAssumption, FS_RemoveElement
<1>2. IsFiniteSet(A) /\ Cardinality(A) <= Cardinality(Traces) - 1
  BY <1>1, FewValues
<1>3. IsFiniteSet(B) /\ Cardinality(B) <= Cardinality(Readers)
  BY NamesAssumption, FewValues
<1>4. IsFiniteSet(notifying) /\ Cardinality(notifying) <= Cardinality(Traces)
  BY SomeStates, FS_Subset DEF TypeOK, NotifyingFew
<1>5. Unused = {} => States \subseteq (A \cup B) \cup notifying
  <2>1. SUFFICES ASSUME NEW s \in States, s \notin Unused
                 PROVE  s \in (A \cup B) \cup notifying
    OBVIOUS
  <2>2. \/ \E u \in Traces : s = entry[u]
        \/ \E r \in Readers : s = reader[r].state
        \/ s \in notifying
    BY <2>1 DEF Unused
  <2>3. \A u \in Traces : s = entry[u] => u # t
    BY SomeStates
  <2>4. QED
    BY <2>2, <2>3
<1> HIDE DEF A, B
<1>6. /\ IsFiniteSet(A \cup B)
      /\ Cardinality(A \cup B) = Cardinality(A) + Cardinality(B) - Cardinality(A \cap B)
  BY <1>2, <1>3, FS_Union
<1>7. /\ IsFiniteSet((A \cup B) \cup notifying)
      /\ Cardinality((A \cup B) \cup notifying) = Cardinality(A \cup B)
             + Cardinality(notifying) - Cardinality((A \cup B) \cap notifying)
  BY <1>4, <1>6, FS_Union
<1>8. /\ IsFiniteSet(A \cap B) /\ IsFiniteSet((A \cup B) \cap notifying)
  BY <1>2, <1>6, FS_Intersection
<1>9. /\ Cardinality(A) \in Nat /\ Cardinality(B) \in Nat /\ Cardinality(notifying) \in Nat
      /\ Cardinality(A \cap B) \in Nat /\ Cardinality((A \cup B) \cap notifying) \in Nat
      /\ Cardinality(A \cup B) \in Nat /\ Cardinality((A \cup B) \cup notifying) \in Nat
  BY <1>2, <1>3, <1>4, <1>6, <1>7, <1>8, FS_CardinalityType
<1>10. Cardinality((A \cup B) \cup notifying) < Cardinality(States)
  BY <1>2, <1>3, <1>4, <1>6, <1>7, <1>9, SomeStates
<1>11. ~ (States \subseteq (A \cup B) \cup notifying)
  <2>1. SUFFICES ASSUME States \subseteq (A \cup B) \cup notifying PROVE FALSE
    OBVIOUS
  <2>2. Cardinality(States) <= Cardinality((A \cup B) \cup notifying)
    BY <1>7, <2>1, FS_Subset
  <2>3. QED
    BY <1>9, <1>10, <2>2, SomeStates
<1>12. QED
  BY <1>5, <1>11

LEMMA StateForIsFree ==
  ASSUME TypeOK, NotifyingFew, NEW t \in Traces
  PROVE  /\ StateFor(t) \in States
         /\ entry[t] # NoState => StateFor(t) = entry[t]
         /\ entry[t] = NoState => StateFor(t) \in Unused
<1>1. CASE entry[t] # NoState
  BY <1>1 DEF StateFor, TypeOK
<1>2. CASE entry[t] = NoState
  <2>1. Unused # {}
    BY <1>2, UnusedExists
  <2>2. StateFor(t) \in Unused
    BY <1>2, <2>1 DEF StateFor
  <2>3. QED
    BY <1>2, <2>2 DEF Unused
<1>3. QED
  BY <1>1, <1>2

LEMMA StatesOfFew ==
  ASSUME TypeOK, NEW T \in SUBSET Traces
  PROVE  /\ StatesOf(T) \subseteq States
         /\ Cardinality(StatesOf(T)) <= Cardinality(Traces)
<1> DEFINE E == {entry[t] : t \in T}
<1>1. IsFiniteSet(T) /\ Cardinality(T) <= Cardinality(Traces)
  BY NamesAssumption, FS_Subset
<1>2. IsFiniteSet(E) /\ Cardinality(E) <= Cardinality(T)
  BY <1>1, FewValues
<1>3. StatesOf(T) \subseteq E
  BY DEF StatesOf
<1> HIDE DEF E
<1>4. IsFiniteSet(StatesOf(T)) /\ Cardinality(StatesOf(T)) <= Cardinality(E)
  BY <1>2, <1>3, FS_Subset
<1>5. QED
  <2>1. /\ Cardinality(StatesOf(T)) \in Nat /\ Cardinality(E) \in Nat
        /\ Cardinality(T) \in Nat
    BY <1>1, <1>2, <1>4, FS_CardinalityType
  <2>2. StatesOf(T) \subseteq States
    BY DEF StatesOf, TypeOK
  <2>3. QED
    BY <1>1, <1>2, <1>4, <2>1, <2>2, SomeStates

LEMMA WaitingFinite ==
  \A s : IsFiniteSet(Waiting(s)) /\ Cardinality(Waiting(s)) \in Nat
BY NamesAssumption, FS_Subset, FS_CardinalityType DEF Waiting

-------------------------------------------------------------------------------
(* Steps that move readers and leave wait states and losses alone.          *)

\* A reader goes on: it stays registered or stays away, and leaves only once.
GoesOn(r) ==
    /\ reader'[r].trace = reader[r].trace /\ reader'[r].after = reader[r].after
    /\ reader'[r].state = reader[r].state /\ reader'[r].discards = reader[r].discards
    /\ reader'[r].result = reader[r].result
    /\ reader'[r].step \in Registered <=> reader[r].step \in Registered
    /\ reader[r].step \in {"disarm", "resolve"} => reader'[r].step \in {"disarm", "resolve"}

LEMMA GoingOnKeeps ==
  ASSUME RepositoryInv, waitVars' = waitVars, lost' = lost,
         \A r \in Readers : GoesOn(r)
  PROVE  WaitStatesAgree' /\ LossShows' /\ NoFrameAfterLoss'
<1>1. /\ entry' = entry /\ states' = states
      /\ WaitStatesAgree /\ LossShows /\ NoFrameAfterLoss
  BY DEF waitVars, RepositoryInv
<1>2. \A s : Waiting(s)' = Waiting(s)
  BY DEF Waiting, GoesOn
<1>3. WaitStatesAgree'
  BY <1>1, <1>2 DEF WaitStatesAgree, GoesOn
<1>4. LossShows'
  BY <1>1 DEF LossShows, GoesOn
<1>5. NoFrameAfterLoss'
  BY <1>1 DEF NoFrameAfterLoss, LossShows, GoesOn
<1>6. QED
  BY <1>3, <1>4, <1>5

LEMMA ReaderTypes ==
  TypeOK => /\ reader \in [Readers -> ReaderRecords]
            /\ states \in [States -> WaitRecords]
            /\ entry \in [Traces -> States \cup {NoState}]
BY DEF TypeOK, ReaderRecords, WaitRecords

Steps == Registered \cup {"idle", "enter", "disarm", "resolve"}

\* A step of one reader changes where it is and nothing else of it.
LEMMA GotoGoesOn ==
  ASSUME TypeOK, NEW r \in Readers, NEW step \in Steps, Goto(r, step),
         step \in Registered <=> reader[r].step \in Registered,
         reader[r].step \in {"disarm", "resolve"} => step \in {"disarm", "resolve"}
  PROVE  reader' \in [Readers -> ReaderRecords] /\ \A q \in Readers : GoesOn(q)
<1>1. reader \in [Readers -> ReaderRecords]
  BY ReaderTypes
<1>2. reader' = [reader EXCEPT ![r] = [reader[r] EXCEPT !.step = step]]
  BY <1>1 DEF Goto
<1>3. [reader[r] EXCEPT !.step = step] \in ReaderRecords
  BY <1>1 DEF ReaderRecords, Steps
<1>4. reader' \in [Readers -> ReaderRecords]
  BY <1>1, <1>2, <1>3
<1>5. \A q \in Readers : q # r => reader'[q] = reader[q]
  BY <1>1, <1>2
<1>6. reader'[r] = [reader[r] EXCEPT !.step = step]
  BY <1>1, <1>2
<1>7. GoesOn(r)
  BY <1>1, <1>6 DEF GoesOn, ReaderRecords
<1>8. \A q \in Readers : GoesOn(q)
  BY <1>5, <1>7 DEF GoesOn
<1>9. QED
  BY <1>4, <1>8

LEMMA WokenGoOn ==
  ASSUME TypeOK, NEW S, NEW r,
         reader' = [q \in Readers |->
             IF \/ q = r /\ reader[q].step \in Registered
                \/ reader[q].step = "asleep" /\ reader[q].state \in S
             THEN [reader[q] EXCEPT !.step = "check"] ELSE reader[q]]
  PROVE  reader' \in [Readers -> ReaderRecords] /\ \A q \in Readers : GoesOn(q)
<1>1. reader \in [Readers -> ReaderRecords]
  BY ReaderTypes
<1>2. SUFFICES ASSUME NEW q \in Readers
               PROVE  reader'[q] \in ReaderRecords /\ GoesOn(q)
  OBVIOUS
<1>3. CASE reader'[q] = reader[q]
  BY <1>1, <1>3 DEF GoesOn
<1>4. CASE /\ reader'[q] = [reader[q] EXCEPT !.step = "check"]
           /\ reader[q].step \in Registered
  BY <1>1, <1>4 DEF GoesOn, ReaderRecords, Registered
<1>5. QED
  BY <1>3, <1>4 DEF Registered

\* What is left of TypeOK when the reader and its wait states are seen to.
LEMMA TypesLeft ==
  ASSUME TypeOK, reader' \in [Readers -> ReaderRecords], states' \in [States -> WaitRecords],
         entry' \in [Traces -> States \cup {NoState}],
         UNCHANGED <<legacy, repositoryVars, busVars>>,
         mutex' \in Readers \cup {NoReader}, notifying' \subseteq notifying,
         requested' \in [Readers -> BOOLEAN],
         callback' \in [Readers -> {"none", "armed", "claimed", "running"}],
         lost' \in [Readers -> BOOLEAN]
  PROVE  TypeOK'
BY DEF TypeOK, ReaderRecords, WaitRecords, repositoryVars, busVars

LEMMA FewerNotifying ==
  ASSUME TypeOK, NotifyingFew, notifying' \subseteq notifying
  PROVE  NotifyingFew'
<1>1. IsFiniteSet(notifying)
  BY SomeStates, FS_Subset DEF TypeOK
<1>2. IsFiniteSet(notifying') /\ Cardinality(notifying') <= Cardinality(notifying)
  BY <1>1, FS_Subset
<1>3. Cardinality(notifying) \in Nat /\ Cardinality(notifying') \in Nat
  BY <1>1, <1>2, FS_CardinalityType
<1>4. QED
  BY <1>2, <1>3, SomeStates DEF NotifyingFew

\* A step that moves readers keeps everything.
LEMMA MoveKeeps ==
  ASSUME RepositoryInv, reader' \in [Readers -> ReaderRecords],
         \A r \in Readers : GoesOn(r),
         UNCHANGED <<legacy, repositoryVars, busVars, waitVars, lost>>,
         mutex' \in Readers \cup {NoReader}, notifying' \subseteq notifying,
         requested' \in [Readers -> BOOLEAN],
         callback' \in [Readers -> {"none", "armed", "claimed", "running"}]
  PROVE  RepositoryInv'
<1>1. TypeOK /\ NotifyingFew
  BY DEF RepositoryInv
<1>2. WaitStatesAgree' /\ LossShows' /\ NoFrameAfterLoss'
  BY GoingOnKeeps
<1>3. NotifyingFew'
  BY <1>1, FewerNotifying
<1>4. TypeOK'
  <2>1. /\ states' \in [States -> WaitRecords] /\ entry' \in [Traces -> States \cup {NoState}]
        /\ lost' \in [Readers -> BOOLEAN]
    BY <1>1, ReaderTypes DEF waitVars, TypeOK
  <2>2. QED
    BY <1>1, <2>1, TypesLeft
<1>5. QED
  BY <1>2, <1>3, <1>4 DEF RepositoryInv

LEMMA StopTypes ==
  TypeOK => /\ mutex \in Readers \cup {NoReader}
            /\ requested \in [Readers -> BOOLEAN]
            /\ callback \in [Readers -> {"none", "armed", "claimed", "running"}]
            /\ bound \in [Traces -> Bindings \cup {Unbound}]
            /\ planned \in [Traces -> Bindings \cup {Unbound}]
BY DEF TypeOK

LEMMA KeptByNotifyOne ==
  ASSUME RepositoryInv, NEW s, NotifyOne(s) PROVE RepositoryInv'
<1>1. TypeOK
  BY DEF RepositoryInv
<1>2. reader' = [q \in Readers |->
             IF \/ q = NoReader /\ reader[q].step \in Registered
                \/ reader[q].step = "asleep" /\ reader[q].state \in {s}
             THEN [reader[q] EXCEPT !.step = "check"] ELSE reader[q]]
  BY NamesAssumption DEF NotifyOne, Woken
<1>3. reader' \in [Readers -> ReaderRecords] /\ \A q \in Readers : GoesOn(q)
  BY <1>1, <1>2, WokenGoOn
<1>4. QED
  BY <1>1, <1>3, MoveKeeps, StopTypes
  DEF NotifyOne, busVars, repositoryVars, waitVars, stopVars

LEMMA KeptByRunCallback ==
  ASSUME RepositoryInv, NEW r \in Readers, RunCallback(r) PROVE RepositoryInv'
<1>1. TypeOK
  BY DEF RepositoryInv
<1>2. reader' = [q \in Readers |->
             IF \/ q = NoReader /\ reader[q].step \in Registered
                \/ reader[q].step = "asleep" /\ reader[q].state \in {reader[r].state}
             THEN [reader[q] EXCEPT !.step = "check"] ELSE reader[q]]
  BY NamesAssumption DEF RunCallback, Woken
<1>3. reader' \in [Readers -> ReaderRecords] /\ \A q \in Readers : GoesOn(q)
  BY <1>1, <1>2, WokenGoOn
<1>4. callback' \in [Readers -> {"none", "armed", "claimed", "running"}]
  BY <1>1, StopTypes DEF RunCallback
<1>5. QED
  BY <1>1, <1>3, <1>4, MoveKeeps, StopTypes
  DEF RunCallback, busVars, repositoryVars, waitVars

LEMMA KeptByArmStopped ==
  ASSUME RepositoryInv, NEW r \in Readers, ArmStopped(r) PROVE RepositoryInv'
<1>1. TypeOK
  BY DEF RepositoryInv
<1>2. reader' = [q \in Readers |->
             IF \/ q = r /\ reader[q].step \in Registered
                \/ reader[q].step = "asleep" /\ reader[q].state \in {reader[r].state}
             THEN [reader[q] EXCEPT !.step = "check"] ELSE reader[q]]
  BY DEF ArmStopped, Registered
<1>3. reader' \in [Readers -> ReaderRecords] /\ \A q \in Readers : GoesOn(q)
  BY <1>1, <1>2, WokenGoOn
<1>4. QED
  BY <1>1, <1>3, MoveKeeps, StopTypes
  DEF ArmStopped, busVars, repositoryVars, waitVars, stopVars

\* The steps of one reader between registering and leaving, and after it.
LEMMA KeptByGoing ==
  ASSUME RepositoryInv, NEW r \in Readers,
         Validate(r) \/ Arm(r) \/ Decline(r) \/ FallAsleep(r) \/ Disarm(r)
  PROVE  RepositoryInv'
<1>1. TypeOK
  BY DEF RepositoryInv
<1>2. PICK step \in Steps :
          /\ Goto(r, step)
          /\ step \in Registered <=> reader[r].step \in Registered
          /\ reader[r].step \in {"disarm", "resolve"} => step \in {"disarm", "resolve"}
  BY DEF Validate, Arm, Decline, FallAsleep, Disarm, Steps, Registered
<1>3. reader' \in [Readers -> ReaderRecords] /\ \A q \in Readers : GoesOn(q)
  BY <1>1, <1>2, GotoGoesOn
<1>4. callback' \in [Readers -> {"none", "armed", "claimed", "running"}]
  BY <1>1, StopTypes DEF Validate, Arm, Decline, FallAsleep, Disarm, stopVars
<1>5. /\ mutex' \in Readers \cup {NoReader} /\ requested' \in [Readers -> BOOLEAN]
      /\ UNCHANGED <<legacy, repositoryVars, busVars, waitVars, lost>>
      /\ notifying' \subseteq notifying
  BY <1>1, StopTypes DEF Validate, Arm, Decline, FallAsleep, Disarm, stopVars
<1>6. QED
  BY <1>3, <1>4, <1>5, MoveKeeps

\* Steps that move no reader.
LEMMA StillGoesOn == reader' = reader => \A r \in Readers : GoesOn(r)
BY DEF GoesOn

LEMMA KeptByStopping ==
  ASSUME RepositoryInv, NEW r \in Readers, RequestStop(r) \/ BeginCallback(r)
  PROVE  RepositoryInv'
<1>1. TypeOK
  BY DEF RepositoryInv
<1>2. /\ requested' \in [Readers -> BOOLEAN]
      /\ callback' \in [Readers -> {"none", "armed", "claimed", "running"}]
  BY <1>1, StopTypes DEF RequestStop, BeginCallback
<1>3. /\ reader' = reader /\ mutex' = mutex /\ notifying' = notifying
      /\ UNCHANGED <<legacy, repositoryVars, busVars, waitVars, lost>>
  BY DEF RequestStop, BeginCallback
<1>4. QED
  BY <1>1, <1>2, <1>3, ReaderTypes, StopTypes, StillGoesOn, MoveKeeps

LEMMA KeptByBusChanges ==
  ASSUME RepositoryInv, NEW t \in Traces, NEW b \in Bindings \cup {Unbound}, BusChanges(t, b)
  PROVE  RepositoryInv'
<1>1. /\ TypeOK /\ NotifyingFew /\ reader' = reader /\ waitVars' = waitVars /\ lost' = lost
      /\ notifying' = notifying
  BY DEF RepositoryInv, BusChanges
<1>2. WaitStatesAgree' /\ LossShows' /\ NoFrameAfterLoss'
  BY <1>1, GoingOnKeeps, StillGoesOn
<1>3. bound' \in [Traces -> Bindings \cup {Unbound}]
  BY <1>1, StopTypes DEF BusChanges
<1>4. TypeOK'
  BY <1>1, <1>3 DEF TypeOK, BusChanges, repositoryVars, waitVars, stopVars
<1>5. QED
  BY <1>1, <1>2, <1>4 DEF RepositoryInv, NotifyingFew

-------------------------------------------------------------------------------
(* Publications: no reader moves, and whose trace is dropped is discarded.  *)

LEMMA DiscardedCounts ==
  ASSUME TypeOK, NEW S
  PROVE  /\ Discarded(S) \in [States -> WaitRecords]
         /\ \A s \in States :
                /\ Discarded(S)[s].waiters = states[s].waiters
                /\ Discarded(S)[s].discards =
                       states[s].discards + (IF s \in S THEN 1 ELSE 0)
BY ReaderTypes DEF Discarded, WaitRecords

\* A step that publishes drops what it drops with a discard of its wait states.
Drops(S, T) ==
    /\ \A t \in T : entry[t] # NoState => entry[t] \in S
    /\ states' = Discarded(S)
    /\ Lost(T)

LEMMA DropShows ==
  ASSUME RepositoryInv, reader' = reader, NEW S, NEW T, Drops(S, T)
  PROVE  LossShows' /\ NoFrameAfterLoss' /\ lost' \in [Readers -> BOOLEAN]
<1>1. TypeOK /\ WaitStatesAgree /\ LossShows /\ NoFrameAfterLoss
  BY DEF RepositoryInv
<1>2. \A r \in Readers :
          lost'[r] = (lost[r] \/ (reader[r].step \in Registered /\ reader[r].trace \in T))
  BY DEF Lost, Drops
<1>3. lost' \in [Readers -> BOOLEAN]
  BY <1>1 DEF Lost, Drops, TypeOK
<1>4. ASSUME NEW r \in Readers, reader[r].step \in Registered
      PROVE  /\ states'[reader[r].state].discards >= reader[r].discards
             /\ lost'[r] => states'[reader[r].state].discards > reader[r].discards
  <2> DEFINE s == reader[r].state
  <2>1. /\ s \in States /\ s = entry[reader[r].trace] /\ s # NoState
        /\ reader[r].discards \in Nat
    BY <1>1, <1>4, ReaderTypes DEF WaitStatesAgree, ReaderRecords
  <2>2. /\ states'[s].discards = states[s].discards + (IF s \in S THEN 1 ELSE 0)
        /\ states[s].discards \in Nat
    BY <1>1, <2>1, DiscardedCounts, ReaderTypes DEF Drops, WaitRecords
  <2>3. /\ states[s].discards >= reader[r].discards
        /\ lost[r] => states[s].discards > reader[r].discards
    BY <1>1, <1>4 DEF LossShows
  <2>4. lost'[r] => lost[r] \/ s \in S
    BY <1>2, <2>1 DEF Drops
  <2> HIDE DEF s
  <2>5. states'[s].discards >= reader[r].discards
    BY <2>1, <2>2, <2>3
  <2>6. lost'[r] => states'[s].discards > reader[r].discards
    BY <2>1, <2>2, <2>3, <2>4
  <2>7. QED
    BY <2>5, <2>6 DEF s
<1>5. LossShows'
  BY <1>1, <1>4 DEF LossShows
<1>6. NoFrameAfterLoss'
  <2>1. ASSUME NEW r \in Readers, reader[r].step \in {"disarm", "resolve"}
        PROVE  lost'[r] = lost[r]
    BY <1>1, <1>2, <2>1 DEF Registered, TypeOK
  <2>2. QED
    BY <1>1, <2>1 DEF NoFrameAfterLoss
<1>7. QED
  BY <1>3, <1>5, <1>6

\* Counts and entries that stay agree.
LEMMA PublishedAgrees ==
  ASSUME RepositoryInv, reader' = reader, entry' = entry, NEW S, states' = Discarded(S)
  PROVE  WaitStatesAgree'
<1>1. TypeOK /\ WaitStatesAgree
  BY DEF RepositoryInv
<1>2. \A s : Waiting(s)' = Waiting(s)
  BY DEF Waiting
<1>3. \A s \in States : states'[s].waiters = states[s].waiters
  BY <1>1, DiscardedCounts
<1>4. \A t \in Traces : entry[t] \in States \cup {NoState}
  BY <1>1, ReaderTypes
<1>5. QED
  BY <1>1, <1>2, <1>3, <1>4 DEF WaitStatesAgree

LEMMA FrameTypes ==
  ASSUME TypeOK, NEW t \in Traces, NEW n \in Sequences
  PROVE  Frame(t, n) \in Frames
BY DEF TypeOK, Frame, Frames

LEMMA KeptByPublishSet ==
  ASSUME RepositoryInv, NEW T \in SUBSET Traces, NEW n \in Sequences, PublishSet(T, n)
  PROVE  RepositoryInv'
<1>1. TypeOK
  BY DEF RepositoryInv
<1>2. /\ reader' = reader /\ entry' = entry /\ states' = Discarded(Dropped(T))
      /\ notifying' = StatesOf(Traces)
      /\ frames' = [t \in Traces |-> IF t \in T THEN Frame(t, n) ELSE NoFrame]
  BY DEF PublishSet
<1>3. Drops(Dropped(T), Retained \ T)
  BY DEF PublishSet, Drops, Dropped, StatesOf, Retained
<1>4. LossShows' /\ NoFrameAfterLoss' /\ lost' \in [Readers -> BOOLEAN]
  BY <1>2, <1>3, DropShows
<1>5. WaitStatesAgree'
  BY <1>2, PublishedAgrees
<1>6. NotifyingFew' /\ notifying' \subseteq States
  BY <1>1, <1>2, StatesOfFew DEF NotifyingFew
<1>7. states' \in [States -> WaitRecords] /\ frames' \in [Traces -> Frames \cup {NoFrame}]
  BY <1>1, <1>2, DiscardedCounts, FrameTypes
<1>8. TypeOK'
  BY <1>1, <1>2, <1>4, <1>6, <1>7
  DEF TypeOK, PublishSet, busVars, stopVars, WaitRecords, Sequences
<1>9. QED
  BY <1>4, <1>5, <1>6, <1>8 DEF RepositoryInv

LEMMA KeptByAdvanceGeneration ==
  ASSUME RepositoryInv, AdvanceGeneration PROVE RepositoryInv'
<1>1. TypeOK
  BY DEF RepositoryInv
<1>2. /\ reader' = reader /\ entry' = entry /\ states' = Discarded(StatesOf(Traces))
      /\ notifying' = StatesOf(Traces)
  BY DEF AdvanceGeneration
<1>3. Drops(StatesOf(Traces), Retained)
  BY DEF AdvanceGeneration, Drops, StatesOf, Retained
<1>4. LossShows' /\ NoFrameAfterLoss' /\ lost' \in [Readers -> BOOLEAN]
  BY <1>2, <1>3, DropShows
<1>5. WaitStatesAgree'
  BY <1>2, PublishedAgrees
<1>6. NotifyingFew' /\ notifying' \subseteq States
  BY <1>1, <1>2, StatesOfFew DEF NotifyingFew
<1>7. states' \in [States -> WaitRecords]
  BY <1>1, <1>2, DiscardedCounts
<1>8. generation' \in Generations /\ newest' \in 0..MaxSequence
  BY <1>1, BoundsAssumption DEF AdvanceGeneration, Generations, TypeOK
<1>9. TypeOK'
  BY <1>1, <1>2, <1>4, <1>6, <1>7, <1>8
  DEF TypeOK, AdvanceGeneration, busVars, stopVars, WaitRecords
<1>10. QED
  BY <1>4, <1>5, <1>6, <1>9 DEF RepositoryInv

LEMMA KeptByPublish ==
  ASSUME RepositoryInv, NEW t \in Traces, NEW n \in Sequences, Publish(t, n)
  PROVE  RepositoryInv'
<1>1. TypeOK
  BY DEF RepositoryInv
<1>2. /\ reader' = reader /\ waitVars' = waitVars /\ lost' = lost
      /\ notifying' = StatesOf({t})
      /\ frames' = [frames EXCEPT ![t] = Frame(t, n)]
  BY DEF Publish
<1>3. WaitStatesAgree' /\ LossShows' /\ NoFrameAfterLoss'
  BY <1>2, GoingOnKeeps, StillGoesOn
<1>4. NotifyingFew' /\ notifying' \subseteq States
  BY <1>1, <1>2, StatesOfFew DEF NotifyingFew
<1>5. frames' \in [Traces -> Frames \cup {NoFrame}]
  BY <1>1, <1>2, FrameTypes DEF TypeOK
<1>6. TypeOK'
  BY <1>1, <1>2, <1>4, <1>5 DEF TypeOK, Publish, busVars, stopVars, waitVars
<1>7. QED
  BY <1>3, <1>4, <1>6 DEF RepositoryInv

-------------------------------------------------------------------------------
(* Entries that are erased.                                                 *)

\* An entry whose count is 0 is nobody's.
LEMMA CleanAgrees ==
  ASSUME TypeOK', NEW t \in Traces, NEW s \in States, NEW kept, Clean(t, s, kept),
         entry[t] = s, entry \in [Traces -> States \cup {NoState}],
         \A r \in Readers : reader'[r].step \in Registered =>
             entry[reader'[r].trace] = reader'[r].state /\ reader'[r].state # NoState,
         \A u \in Traces, x \in States : entry[u] = x =>
             /\ states'[x].waiters = Cardinality(Waiting(x)')
             /\ \A v \in Traces \ {u} : entry[v] # x
  PROVE  WaitStatesAgree'
<1>1. CASE entry' = entry
  <2>1. \A u \in Traces : entry'[u] \in States \cup {NoState}
    BY DEF TypeOK
  <2>2. QED
    BY <1>1, <2>1 DEF WaitStatesAgree, Waiting
<1>2. CASE /\ states'[s].waiters = 0
           /\ entry' = [entry EXCEPT ![t] = NoState]
  <2>1. s # NoState
    BY SomeStates
  <2>2. IsFiniteSet(Waiting(s)') /\ Cardinality(Waiting(s)') = 0
    <3>1. Waiting(s)' \subseteq Readers
      BY DEF Waiting
    <3>2. IsFiniteSet(Waiting(s)')
      BY <3>1, NamesAssumption, FS_Subset
    <3>3. QED
      BY <1>2, <2>1, <3>2
  <2>3. Waiting(s)' = {}
    BY <2>2, FS_EmptySet
  <2>4. \A r \in Readers : reader'[r].step \in Registered => reader'[r].trace # t
    BY <2>3 DEF Waiting
  <2>5. \A u \in Traces : u # t => entry'[u] = entry[u]
    BY <1>2
  <2>6. \A r \in Readers : reader'[r].step \in Registered => reader'[r].trace \in Traces
    BY DEF TypeOK
  <2>7. entry'[t] = NoState
    BY <1>2
  <2>8. \A u \in Traces, x \in States : entry'[u] = x =>
            /\ states'[x].waiters = Cardinality(Waiting(x)')
            /\ \A v \in Traces \ {u} : entry'[v] # x
    BY <2>5, <2>7, SomeStates
  <2>9. \A u \in Traces : entry'[u] \in States \cup {NoState}
    BY DEF TypeOK
  <2>10. QED
    BY <2>4, <2>5, <2>6, <2>8, <2>9 DEF WaitStatesAgree, Waiting
<1>3. QED
  BY <1>1, <1>2 DEF Clean

LEMMA CleanTypes ==
  ASSUME TypeOK, NEW t \in Traces, NEW s, NEW kept, Clean(t, s, kept)
  PROVE  entry' \in [Traces -> States \cup {NoState}]
BY ReaderTypes DEF Clean

LEMMA KeptByDiscard ==
  ASSUME RepositoryInv, NEW t \in Traces, Discard(t) PROVE RepositoryInv'
<1>1. TypeOK /\ WaitStatesAgree
  BY DEF RepositoryInv
<1>2. /\ reader' = reader /\ states' = Discarded(StatesOf({t}))
      /\ notifying' = StatesOf({t})
      /\ frames' = [frames EXCEPT ![t] = NoFrame]
      /\ planned' = [planned EXCEPT ![t] = bound[t]]
      /\ IF entry[t] = NoState THEN UNCHANGED entry
         ELSE Clean(t, entry[t], Retained \ {t})
  BY DEF Discard
<1>3. Drops(StatesOf({t}), {t} \cap Retained)
  BY DEF Discard, Drops, StatesOf
<1>4. LossShows' /\ NoFrameAfterLoss' /\ lost' \in [Readers -> BOOLEAN]
  BY <1>2, <1>3, DropShows
<1>5. NotifyingFew' /\ notifying' \subseteq States
  BY <1>1, <1>2, StatesOfFew DEF NotifyingFew
<1>6. /\ states' \in [States -> WaitRecords] /\ frames' \in [Traces -> Frames \cup {NoFrame}]
      /\ planned' \in [Traces -> Bindings \cup {Unbound}]
      /\ entry' \in [Traces -> States \cup {NoState}]
  BY <1>1, <1>2, DiscardedCounts, StopTypes, ReaderTypes, CleanTypes DEF TypeOK
<1>7. TypeOK'
  BY <1>1, <1>2, <1>4, <1>5, <1>6 DEF TypeOK, Discard, stopVars, WaitRecords
<1>8. WaitStatesAgree'
  <2>1. CASE entry[t] = NoState
    BY <1>2, <2>1, PublishedAgrees
  <2>2. CASE entry[t] # NoState
    <3>1. entry[t] \in States /\ entry \in [Traces -> States \cup {NoState}]
      BY <1>1, <2>2, ReaderTypes
    <3>2. \A s : Waiting(s)' = Waiting(s)
      BY <1>2 DEF Waiting
    <3>3. \A s \in States : states'[s].waiters = states[s].waiters
      BY <1>1, <1>2, DiscardedCounts
    <3>4. \A u \in Traces, x \in States : entry[u] = x =>
              /\ states'[x].waiters = Cardinality(Waiting(x)')
              /\ \A v \in Traces \ {u} : entry[v] # x
      BY <1>1, <3>1, <3>2, <3>3, SomeStates DEF WaitStatesAgree
    <3>5. \A r \in Readers : reader'[r].step \in Registered =>
              entry[reader'[r].trace] = reader'[r].state /\ reader'[r].state # NoState
      BY <1>1, <1>2 DEF WaitStatesAgree
    <3>6. Clean(t, entry[t], Retained \ {t})
      BY <1>2, <2>2
    <3>7. QED
      BY <1>7, <3>1, <3>4, <3>5, <3>6, CleanAgrees
  <2>3. QED
    BY <2>1, <2>2
<1>9. QED
  BY <1>4, <1>5, <1>7, <1>8 DEF RepositoryInv

-------------------------------------------------------------------------------
(* Readers come, register and leave.                                        *)

LEMMA IdleIs ==
  /\ Idle \in ReaderRecords
  /\ Idle.step = "idle" /\ Idle.state = NoState /\ Idle.result = NoFrame
BY NamesAssumption DEF Idle, ReaderRecords, NoState

\* A reader that is not registered, before and after.
LEMMA AwayAgrees ==
  ASSUME RepositoryInv, NEW r \in Readers, waitVars' = waitVars,
         reader[r].step \notin Registered, reader'[r].step \notin Registered,
         \A q \in Readers \ {r} : reader'[q] = reader[q]
  PROVE  WaitStatesAgree'
<1>1. \A s : Waiting(s)' = Waiting(s)
  BY DEF Waiting
<1>2. QED
  BY <1>1 DEF RepositoryInv, WaitStatesAgree, waitVars

LEMMA KeptByCall ==
  ASSUME RepositoryInv, NEW r \in Readers, NEW t \in Traces, NEW after \in Seen(t),
         Call(r, t, after)
  PROVE  RepositoryInv'
<1> DEFINE called == [Idle EXCEPT !.step = "enter", !.trace = t, !.after = after,
                                  !.binding = bound[t]]
<1>1. /\ TypeOK /\ reader \in [Readers -> ReaderRecords]
      /\ waitVars' = waitVars /\ lost' = lost /\ notifying' = notifying
      /\ reader[r].step = "idle" /\ reader' = [reader EXCEPT ![r] = called]
  BY ReaderTypes DEF RepositoryInv, Call
<1>2. after \in Nat
  BY <1>1 DEF Seen, TypeOK, Frames, Sequences
<1>3. /\ called \in ReaderRecords /\ called.step = "enter" /\ called.result = NoFrame
  BY <1>1, <1>2, IdleIs, StopTypes DEF ReaderRecords
<1> HIDE DEF called
<1>4. /\ reader' \in [Readers -> ReaderRecords] /\ reader'[r] = called
      /\ \A q \in Readers \ {r} : reader'[q] = reader[q]
  BY <1>1, <1>3
<1>5. WaitStatesAgree'
  BY <1>1, <1>3, <1>4, AwayAgrees DEF Registered
<1>6. LossShows' /\ NoFrameAfterLoss'
  BY <1>1, <1>3, <1>4 DEF RepositoryInv, LossShows, NoFrameAfterLoss, Registered, waitVars
<1>7. TypeOK'
  BY <1>1, <1>4, ReaderTypes, StopTypes, TypesLeft
  DEF Call, waitVars, stopVars, TypeOK
<1>8. QED
  BY <1>1, <1>5, <1>6, <1>7 DEF RepositoryInv, NotifyingFew

LEMMA KeptByResolve ==
  ASSUME RepositoryInv, NEW r \in Readers, Resolve(r) PROVE RepositoryInv'
<1>1. /\ TypeOK /\ reader \in [Readers -> ReaderRecords]
      /\ waitVars' = waitVars /\ lost' = [lost EXCEPT ![r] = FALSE]
      /\ notifying' = notifying
      /\ reader[r].step = "resolve" /\ reader' = [reader EXCEPT ![r] = Idle]
  BY ReaderTypes DEF RepositoryInv, Resolve
<1>2. /\ reader' \in [Readers -> ReaderRecords] /\ reader'[r] = Idle
      /\ \A q \in Readers \ {r} : reader'[q] = reader[q]
  BY <1>1, IdleIs
<1>3. WaitStatesAgree'
  BY <1>1, <1>2, IdleIs, AwayAgrees DEF Registered
<1>4. lost' \in [Readers -> BOOLEAN] /\ \A q \in Readers \ {r} : lost'[q] = lost[q]
  BY <1>1 DEF TypeOK
<1>5. LossShows' /\ NoFrameAfterLoss'
  BY <1>1, <1>2, <1>4, IdleIs
  DEF RepositoryInv, LossShows, NoFrameAfterLoss, Registered, waitVars
<1>6. requested' \in [Readers -> BOOLEAN]
  BY <1>1, StopTypes DEF Resolve
<1>7. TypeOK'
  BY <1>1, <1>2, <1>4, <1>6, ReaderTypes, StopTypes, TypesLeft
  DEF Resolve, waitVars, TypeOK
<1>8. QED
  BY <1>1, <1>3, <1>5, <1>7 DEF RepositoryInv, NotifyingFew

\* Registering: the trace's state, or one that nobody holds.
LEMMA KeptByRegister ==
  ASSUME RepositoryInv, NEW r \in Readers, Register(r) PROVE RepositoryInv'
<1> DEFINE t == reader[r].trace
<1>1. /\ TypeOK /\ WaitStatesAgree /\ NotifyingFew /\ LossShows /\ NoFrameAfterLoss
      /\ reader \in [Readers -> ReaderRecords] /\ t \in Traces
      /\ states \in [States -> WaitRecords]
      /\ entry \in [Traces -> States \cup {NoState}]
      /\ reader[r].step = "enter"
  BY ReaderTypes DEF RepositoryInv, Register, ReaderRecords
<1>2. CASE requested[r]
  <2>1. /\ Goto(r, "resolve") /\ waitVars' = waitVars /\ lost' = lost
        /\ UNCHANGED <<legacy, updates, repositoryVars, mutex, notifying, busVars, stopVars>>
    BY <1>2 DEF Register
  <2>2. reader' \in [Readers -> ReaderRecords] /\ \A q \in Readers : GoesOn(q)
    BY <1>1, <2>1, GotoGoesOn DEF Steps, Registered
  <2>3. QED
    BY <1>1, <2>1, <2>2, MoveKeeps, StopTypes DEF stopVars
<1>3. CASE ~requested[r]
  <2>1. PICK s \in States :
            /\ s = StateFor(t) /\ s # NoState
            /\ entry[t] # NoState => s = entry[t]
            /\ entry[t] = NoState => s \in Unused
    BY <1>1, StateForIsFree, SomeStates
  <2> DEFINE fresh == [waiters |-> 0, discards |-> 0]
             state == IF entry[t] = s THEN states[s] ELSE fresh
             step == IF r \in Queries THEN "validate" ELSE "check"
             at == [reader[r] EXCEPT !.state = s, !.step = step,
                                     !.discards = state.discards]
  <2>2. /\ state \in WaitRecords
        /\ entry[t] = s => state = states[s]
        /\ entry[t] = NoState => state = fresh
    BY <1>1, <2>1 DEF WaitRecords
  <2>3. /\ entry' = [entry EXCEPT ![t] = s]
        /\ states' = [states EXCEPT ![s] = [state EXCEPT !.waiters = @ + 1]]
        /\ reader' = [reader EXCEPT ![r] = at]
        /\ lost' = [lost EXCEPT ![r] = FALSE]
        /\ UNCHANGED <<legacy, repositoryVars, mutex, notifying, busVars, stopVars>>
    BY <1>1, <1>3, <2>1 DEF Register
  <2> HIDE DEF state
  <2>4. /\ at \in ReaderRecords /\ at.state = s /\ at.discards = state.discards
        /\ at.step \in Registered /\ at.step \notin {"disarm", "resolve"}
        /\ at.trace = t /\ at.result = reader[r].result /\ t \in Traces
        /\ [state EXCEPT !.waiters = @ + 1] \in WaitRecords
        /\ [state EXCEPT !.waiters = @ + 1].waiters = state.waiters + 1
        /\ [state EXCEPT !.waiters = @ + 1].discards = state.discards
    <3>1. step \in Registered /\ step \notin {"disarm", "resolve"}
      BY DEF Registered
    <3> HIDE DEF step
    <3>2. reader[r] \in ReaderRecords /\ state.discards \in Nat /\ state.waiters \in Nat
      BY <1>1, <2>2 DEF WaitRecords
    <3>3. at \in ReaderRecords
      BY <2>1, <3>1, <3>2 DEF ReaderRecords
    <3>4. /\ at.state = s /\ at.discards = state.discards /\ at.step = step
          /\ at.trace = t /\ at.result = reader[r].result
      BY <2>1, <3>1, <3>2 DEF ReaderRecords
    <3>5. /\ [state EXCEPT !.waiters = @ + 1] \in WaitRecords
          /\ [state EXCEPT !.waiters = @ + 1].waiters = state.waiters + 1
          /\ [state EXCEPT !.waiters = @ + 1].discards = state.discards
      BY <2>2 DEF WaitRecords
    <3>6. QED
      BY <1>1, <3>1, <3>3, <3>4, <3>5
  <2> HIDE DEF at, t
  <2>5. /\ reader' \in [Readers -> ReaderRecords] /\ reader'[r] = at
        /\ \A q \in Readers \ {r} : reader'[q] = reader[q]
        /\ states' \in [States -> WaitRecords]
        /\ states'[s].waiters = state.waiters + 1 /\ states'[s].discards = state.discards
        /\ \A x \in States \ {s} : states'[x] = states[x]
        /\ entry' \in [Traces -> States \cup {NoState}] /\ entry'[t] = s
        /\ \A u \in Traces \ {t} : entry'[u] = entry[u]
        /\ lost' \in [Readers -> BOOLEAN] /\ ~lost'[r]
        /\ \A q \in Readers \ {r} : lost'[q] = lost[q]
    BY <1>1, <2>1, <2>3, <2>4 DEF TypeOK
  <2>6. TypeOK'
    BY <1>1, <2>3, <2>5, StopTypes, TypesLeft DEF stopVars
  \* Another reader's state is the one registered in only when it waits for the same trace.
  <2>7. ASSUME NEW q \in Readers, reader[q].step \in Registered
        PROVE  /\ q # r /\ entry[reader[q].trace] = reader[q].state
               /\ reader[q].state \in States /\ reader[q].state # NoState
               /\ reader[q].state = s => entry[t] = s
               /\ reader[q].trace = t => entry[t] = s
    <3>1. /\ q # r /\ entry[reader[q].trace] = reader[q].state
          /\ reader[q].state # NoState /\ reader[q].state \in States
      BY <1>1, <2>7 DEF WaitStatesAgree, ReaderRecords, Registered
    <3>2. reader[q].state = s => s \notin Unused
      BY DEF Unused
    <3>3. QED
      BY <2>1, <3>1, <3>2
  <2>8. ASSUME NEW x \in States, x # s PROVE Waiting(x)' = Waiting(x)
    BY <1>1, <2>4, <2>5, <2>8 DEF Waiting, Registered
  <2>9. Waiting(s)' = Waiting(s) \cup {r} /\ r \notin Waiting(s)
    BY <1>1, <2>4, <2>5 DEF Waiting, Registered
  <2>10. Cardinality(Waiting(s)') = Cardinality(Waiting(s)) + 1
    BY <2>9, WaitingFinite, FS_AddElement
  <2>11. state.waiters = Cardinality(Waiting(s))
    <3>1. CASE entry[t] = s
      BY <1>1, <2>1, <2>2, <2>4, <3>1 DEF WaitStatesAgree
    <3>2. CASE entry[t] # s
      <4>1. Waiting(s) = {}
        BY <2>7, <3>2 DEF Waiting
      <4>2. QED
        BY <2>1, <2>2, <3>2, <4>1, FS_EmptySet
    <3>3. QED
      BY <3>1, <3>2
  <2>12. \A u \in Traces \ {t} : entry[u] # s
    <3>1. entry[t] = NoState => \A u \in Traces : entry[u] # s
      BY <2>1 DEF Unused
    <3>2. entry[t] # NoState => \A u \in Traces \ {t} : entry[u] # s
      BY <1>1, <2>1, <2>4 DEF WaitStatesAgree
    <3>3. QED
      BY <3>1, <3>2
  <2>13. \A u \in Traces, x \in States : entry'[u] = x =>
             /\ states'[x].waiters = Cardinality(Waiting(x)')
             /\ \A v \in Traces \ {u} : entry'[v] # x
    <3>1. SUFFICES ASSUME NEW u \in Traces, NEW x \in States, entry'[u] = x
                   PROVE  /\ states'[x].waiters = Cardinality(Waiting(x)')
                          /\ \A v \in Traces \ {u} : entry'[v] # x
      OBVIOUS
    <3>2. CASE u = t
      BY <2>5, <2>10, <2>11, <2>12, <3>1, <3>2
    <3>3. CASE u # t
      <4>1. entry[u] = x /\ x # s
        BY <2>5, <2>12, <3>1, <3>3
      <4>2. /\ states[x].waiters = Cardinality(Waiting(x))
            /\ \A v \in Traces \ {u} : entry[v] # x
        BY <1>1, <4>1, SomeStates DEF WaitStatesAgree
      <4>3. QED
        BY <2>5, <2>8, <4>1, <4>2
    <3>4. QED
      BY <3>2, <3>3
  <2>14. \A q \in Readers : reader'[q].step \in Registered =>
             entry'[reader'[q].trace] = reader'[q].state /\ reader'[q].state # NoState
    <3>1. SUFFICES ASSUME NEW q \in Readers, reader'[q].step \in Registered
                   PROVE  /\ entry'[reader'[q].trace] = reader'[q].state
                          /\ reader'[q].state # NoState
      OBVIOUS
    <3>2. CASE q = r
      BY <2>1, <2>4, <2>5, <3>2
    <3>3. CASE q # r
      <4>1. reader'[q] = reader[q] /\ reader[q].trace \in Traces
        BY <1>1, <2>5, <3>3 DEF ReaderRecords
      <4>2. QED
        BY <2>5, <2>7, <3>1, <4>1
    <3>4. QED
      BY <3>2, <3>3
  <2>15. WaitStatesAgree'
    BY <2>5, <2>13, <2>14 DEF WaitStatesAgree, Waiting
  <2>16. \A q \in Readers : q # r /\ reader[q].step \in Registered =>
             states'[reader[q].state].discards = states[reader[q].state].discards
    <3>1. SUFFICES ASSUME NEW q \in Readers, q # r, reader[q].step \in Registered
                   PROVE  states'[reader[q].state].discards = states[reader[q].state].discards
      OBVIOUS
    <3>2. /\ reader[q].state \in States
          /\ reader[q].state = s => entry[t] = s
      BY <2>7, <3>1
    <3>3. QED
      BY <2>2, <2>5, <3>2
  <2>17. LossShows'
    <3>1. SUFFICES ASSUME NEW q \in Readers
                   PROVE  /\ reader'[q].step \in Registered =>
                                 /\ states'[reader'[q].state].discards >= reader'[q].discards
                                 /\ lost'[q] => states'[reader'[q].state].discards
                                                    > reader'[q].discards
                          /\ reader'[q].step \notin {"disarm", "resolve"} =>
                                 reader'[q].result = NoFrame
      BY DEF LossShows
    <3>2. CASE q = r
      BY <1>1, <2>2, <2>4, <2>5, <3>2 DEF LossShows, WaitRecords
    <3>3. CASE q # r
      BY <1>1, <2>5, <2>16, <3>3 DEF LossShows
    <3>4. QED
      BY <3>2, <3>3
  <2>18. NoFrameAfterLoss'
    BY <1>1, <2>4, <2>5 DEF NoFrameAfterLoss
  <2>19. QED
    BY <1>1, <2>3, <2>6, <2>15, <2>17, <2>18 DEF RepositoryInv, NotifyingFew
<1>4. QED
  BY <1>2, <1>3

\* A reader that leaves is counted out, and its state erased when it was the last.
LEMMA LeavingAgrees ==
  ASSUME RepositoryInv, NEW r \in Readers, NEW gone \in ReaderRecords,
         reader[r].step \in Registered, gone.step \in {"disarm", "resolve"},
         gone.result = NoFrame \/
             (~lost[r] /\ gone.result.sequence > gone.after),
         reader' = [reader EXCEPT ![r] = gone],
         Leave(r), Clean(reader[r].trace, reader[r].state, Retained),
         lost' = lost, notifying' = notifying, mutex' = mutex,
         UNCHANGED <<legacy, repositoryVars, busVars, stopVars>>
  PROVE  RepositoryInv'
<1>1. /\ TypeOK /\ WaitStatesAgree /\ NotifyingFew /\ LossShows /\ NoFrameAfterLoss
      /\ reader \in [Readers -> ReaderRecords]
      /\ states \in [States -> WaitRecords]
      /\ entry \in [Traces -> States \cup {NoState}]
  BY ReaderTypes DEF RepositoryInv
<1>2. PICK t \in Traces, s \in States :
          t = reader[r].trace /\ s = reader[r].state /\ entry[t] = s
  BY <1>1 DEF WaitStatesAgree, ReaderRecords
<1>3. /\ reader' \in [Readers -> ReaderRecords] /\ reader'[r] = gone
      /\ \A q \in Readers \ {r} : reader'[q] = reader[q]
  BY <1>1
<1>4. states[s].waiters = Cardinality(Waiting(s)) /\ r \in Waiting(s)
  BY <1>1, <1>2, SomeStates DEF WaitStatesAgree, Waiting
<1>5. Waiting(s)' = Waiting(s) \ {r}
  BY <1>2, <1>3 DEF Waiting, Registered
<1>6. /\ Cardinality(Waiting(s)') = Cardinality(Waiting(s)) - 1
      /\ Cardinality(Waiting(s)) >= 1
  <2>1. IsFiniteSet(Waiting(s)) /\ Cardinality(Waiting(s)) # 0
    BY <1>4, WaitingFinite, FS_EmptySet
  <2>2. Cardinality(Waiting(s) \ {r}) = Cardinality(Waiting(s)) - 1
    <3> DEFINE W == Waiting(s)
    <3>1. IsFiniteSet(W) /\ r \in W
      BY <1>4, <2>1
    <3> HIDE DEF W
    <3>2. Cardinality(W \ {r}) = Cardinality(W) - 1
      BY <3>1, FS_RemoveElement
    <3>3. QED
      BY <3>2 DEF W
  <2>3. Cardinality(Waiting(s)) \in Nat
    BY WaitingFinite
  <2>4. QED
    BY <1>5, <2>1, <2>2, <2>3
<1>7. ASSUME NEW x \in States, x # s PROVE Waiting(x)' = Waiting(x)
  BY <1>2, <1>3, <1>7 DEF Waiting, Registered
<1> DEFINE left == [states[s] EXCEPT !.waiters = @ - 1]
<1>8. /\ left \in WaitRecords /\ left.waiters = states[s].waiters - 1
      /\ left.discards = states[s].discards
  BY <1>1, <1>4, <1>6, WaitingFinite DEF WaitRecords
<1>9. states' = [states EXCEPT ![s] = left]
  BY <1>1, <1>2 DEF Leave
<1> HIDE DEF left
<1>10. /\ states' \in [States -> WaitRecords] /\ states'[s].waiters = states[s].waiters - 1
       /\ \A x \in States : states'[x].discards = states[x].discards
       /\ \A x \in States \ {s} : states'[x] = states[x]
  BY <1>1, <1>8, <1>9
<1>11. entry' \in [Traces -> States \cup {NoState}]
  BY <1>1, <1>2, CleanTypes
<1>12. lost' \in [Readers -> BOOLEAN]
  BY <1>1 DEF TypeOK
<1>13. TypeOK'
  BY <1>1, <1>3, <1>10, <1>11, <1>12, StopTypes, TypesLeft DEF stopVars
<1>14. WaitStatesAgree'
  <2>1. \A q \in Readers : reader'[q].step \in Registered =>
            entry[reader'[q].trace] = reader'[q].state /\ reader'[q].state # NoState
    BY <1>1, <1>3 DEF WaitStatesAgree, Registered
  <2>2. \A u \in Traces, x \in States : entry[u] = x =>
            /\ states'[x].waiters = Cardinality(Waiting(x)')
            /\ \A v \in Traces \ {u} : entry[v] # x
    <3>1. SUFFICES ASSUME NEW u \in Traces, NEW x \in States, entry[u] = x
                   PROVE  /\ states'[x].waiters = Cardinality(Waiting(x)')
                          /\ \A v \in Traces \ {u} : entry[v] # x
      OBVIOUS
    <3>2. /\ states[x].waiters = Cardinality(Waiting(x))
          /\ \A v \in Traces \ {u} : entry[v] # x
      BY <1>1, <3>1, SomeStates DEF WaitStatesAgree
    <3>3. CASE x = s
      BY <1>4, <1>6, <1>10, <3>2, <3>3
    <3>4. CASE x # s
      BY <1>7, <1>10, <3>2, <3>4
    <3>5. QED
      BY <3>3, <3>4
  <2>3. Clean(t, s, Retained)
    BY <1>2
  <2>4. QED
    BY <1>1, <1>2, <1>13, <2>1, <2>2, <2>3, CleanAgrees
<1>15. LossShows'
  <2>1. SUFFICES ASSUME NEW q \in Readers
                 PROVE  /\ reader'[q].step \in Registered =>
                               /\ states'[reader'[q].state].discards >= reader'[q].discards
                               /\ lost[q] => states'[reader'[q].state].discards
                                                  > reader'[q].discards
                        /\ reader'[q].step \notin {"disarm", "resolve"} =>
                               reader'[q].result = NoFrame
    BY DEF LossShows
  <2>2. CASE q = r
    BY <1>3, <2>2 DEF Registered
  <2>3. CASE q # r
    <3>1. reader'[q] = reader[q]
      BY <1>3, <2>3
    <3>2. reader[q].step \in Registered => reader[q].state \in States
      BY <1>1 DEF WaitStatesAgree, ReaderRecords
    <3>3. QED
      BY <1>1, <1>10, <3>1, <3>2 DEF LossShows
  <2>4. QED
    BY <2>2, <2>3
<1>16. NoFrameAfterLoss'
  BY <1>1, <1>3 DEF NoFrameAfterLoss
<1>17. QED
  BY <1>1, <1>13, <1>14, <1>15, <1>16 DEF RepositoryInv, NotifyingFew

LEMMA KeptByRelease ==
  ASSUME RepositoryInv, NEW r \in Readers, Release(r) PROVE RepositoryInv'
<1> DEFINE gone == [reader[r] EXCEPT !.step = "resolve"]
<1>1. /\ reader \in [Readers -> ReaderRecords] /\ LossShows
      /\ reader[r].step = "release"
  BY ReaderTypes DEF RepositoryInv, Release
<1>2. /\ gone \in ReaderRecords /\ gone.step = "resolve" /\ gone.result = reader[r].result
      /\ reader' = [reader EXCEPT ![r] = gone]
  BY <1>1 DEF Release, Goto, ReaderRecords
<1> HIDE DEF gone
<1>3. gone.result = NoFrame /\ reader[r].step \in Registered
  BY <1>1, <1>2 DEF LossShows, Registered
<1>4. QED
  BY <1>1, <1>2, <1>3, LeavingAgrees DEF Release

\* A reader takes a frame only when nothing of its trace was lost.
LEMMA KeptByObtain ==
  ASSUME RepositoryInv, NEW r \in Readers, Obtain(r) PROVE RepositoryInv'
<1> DEFINE gone == [reader[r] EXCEPT !.step = "disarm", !.result = Answer(r)]
<1>1. /\ TypeOK /\ reader \in [Readers -> ReaderRecords] /\ LossShows /\ WaitStatesAgree
      /\ reader[r].step = "check" /\ Satisfied(r)
  BY ReaderTypes DEF RepositoryInv, Obtain
<1>2. Answer(r) \in Frames \cup {NoFrame}
  BY <1>1 DEF Answer, TypeOK
<1>3. /\ gone \in ReaderRecords /\ gone.step = "disarm" /\ gone.result = Answer(r)
      /\ gone.after = reader[r].after
      /\ reader' = [reader EXCEPT ![r] = gone]
  BY <1>1, <1>2 DEF Obtain, ReaderRecords
<1> HIDE DEF gone
<1>4. reader[r].step \in Registered
  BY <1>1 DEF Registered
<1>5. Answer(r) = NoFrame \/ (~lost[r] /\ Answer(r).sequence > reader[r].after)
  <2>1. SUFFICES ASSUME Answer(r) # NoFrame
                 PROVE  ~lost[r] /\ Answer(r).sequence > reader[r].after
    OBVIOUS
  <2>2. /\ ~requested[r] /\ ~WasDiscarded(r)
        /\ Answer(r) = frames[reader[r].trace]
    BY <2>1 DEF Answer
  <2>3. HasNewer(r)
    BY <1>1, <2>2 DEF Satisfied
  <2>4. lost[r] => states[reader[r].state].discards > reader[r].discards
    BY <1>1, <1>4 DEF LossShows
  <2>5. reader[r].discards \in Nat
    BY <1>1 DEF ReaderRecords
  <2>6. QED
    BY <2>2, <2>3, <2>4, <2>5 DEF WasDiscarded, HasNewer
<1>6. QED
  BY <1>1, <1>3, <1>4, <1>5, LeavingAgrees DEF Obtain

-------------------------------------------------------------------------------
(* The theorems.                                                            *)

LEMMA RepositoryInit == Init => RepositoryInv
<1> SUFFICES ASSUME Init PROVE RepositoryInv
  OBVIOUS
<1>1. \A r \in Readers : reader[r] = Idle
  BY DEF Init
<1>2. reader \in [Readers -> ReaderRecords]
  BY IdleIs DEF Init
<1>3. 1 \in Generations /\ 1 \in Sequences /\ 0 \in 0..MaxSequence /\ 1 \in 0..MaxSequence
  BY BoundsAssumption DEF Generations, Sequences
<1>4. frames \in [Traces -> Frames \cup {NoFrame}] /\ newest \in 0..MaxSequence
  <2>1. \A t \in Traces : Frame(t, 1) \in Frames
    BY <1>3 DEF Frame, Frames, Init
  <2>2. QED
    BY <1>3, <2>1 DEF Init
<1>5. TypeOK
  BY <1>2, <1>3, <1>4 DEF Init, TypeOK, ReaderRecords, Generations
<1>6. NotifyingFew
  BY FS_EmptySet, SomeStates DEF Init, NotifyingFew
<1>7. WaitStatesAgree /\ LossShows /\ NoFrameAfterLoss
  BY <1>1, IdleIs DEF Init, WaitStatesAgree, LossShows, NoFrameAfterLoss, Registered
<1>8. QED
  BY <1>5, <1>6, <1>7 DEF RepositoryInv

LEMMA RepositoryStep == RepositoryInv /\ [Next]_vars => RepositoryInv'
<1> SUFFICES ASSUME RepositoryInv, [Next]_vars PROVE RepositoryInv'
  OBVIOUS
<1>1. ASSUME NEW T \in SUBSET Traces, NEW n \in Sequences, PublishSet(T, n)
      PROVE  RepositoryInv'
  BY <1>1, KeptByPublishSet
<1>2. ASSUME NEW t \in Traces, NEW n \in Sequences, Publish(t, n) PROVE RepositoryInv'
  BY <1>2, KeptByPublish
<1>3. ASSUME NEW t \in Traces, Discard(t) PROVE RepositoryInv'
  BY <1>3, KeptByDiscard
<1>4. ASSUME NEW s \in States, NotifyOne(s) PROVE RepositoryInv'
  BY <1>4, KeptByNotifyOne
<1>5. ASSUME NEW t \in Watched, NEW b \in Bindings \cup {Unbound}, BusChanges(t, b)
      PROVE  RepositoryInv'
  BY <1>5, NamesAssumption, KeptByBusChanges
<1>6. ASSUME NEW r \in Readers, NEW t \in Watched, NEW after \in Seen(t), Call(r, t, after)
      PROVE  RepositoryInv'
  BY <1>6, NamesAssumption, KeptByCall
<1>7. ASSUME NEW r \in Readers, Returning(r) PROVE RepositoryInv'
  BY <1>7, KeptByRegister, KeptByGoing, KeptByRelease, KeptByArmStopped, KeptByObtain,
     KeptByResolve DEF Returning
<1>8. ASSUME NEW r \in Readers, RequestStop(r) \/ Stopping(r) PROVE RepositoryInv'
  <2>1. CASE RequestStop(r) \/ BeginCallback(r)
    BY <2>1, KeptByStopping
  <2>2. CASE RunCallback(r)
    BY <2>2, KeptByRunCallback
  <2>3. QED
    BY <1>8, <2>1, <2>2 DEF Stopping
<1>9. CASE UNCHANGED vars
  <2>1. /\ TypeOK /\ reader' = reader /\ mutex' = mutex /\ notifying' = notifying
        /\ requested' = requested /\ callback' = callback
        /\ UNCHANGED <<legacy, repositoryVars, busVars, waitVars, lost>>
    BY <1>9 DEF vars, stopVars, RepositoryInv
  <2>2. QED
    BY <2>1, StillGoesOn, MoveKeeps, ReaderTypes, StopTypes
<1>10. QED
  BY <1>1, <1>2, <1>3, <1>4, <1>5, <1>6, <1>7, <1>8, <1>9, KeptByAdvanceGeneration DEF Next

LEMMA RepositoryAlways == Spec => []RepositoryInv
BY RepositoryInit, RepositoryStep, PTL DEF Spec

\* Types, for any traces and readers; a new wait state is always found.
THEOREM RepositoryTypes == Spec => []TypeOK
<1>1. RepositoryInv => TypeOK
  BY DEF RepositoryInv
<1>2. QED
  BY <1>1, RepositoryAlways, PTL

\* However waits, publications, discards, generations and stops interleave, a reader
\* that waits is counted once where publications and discards look for it, and no
\* two traces share a wait state (cleanWaitState in trace_display_frame_wait.cpp).
THEOREM WaitsCounted == Spec => []WaitStatesAgree
<1>1. RepositoryInv => WaitStatesAgree
  BY DEF RepositoryInv
<1>2. QED
  BY <1>1, RepositoryAlways, PTL

\* ... and a wait whose trace was dropped since it registered gives no frame, and no
\* wait gives one that is not newer than what was asked for (waitForNext).
THEOREM NothingAfterLoss == Spec => []NoFrameAfterLoss
<1>1. RepositoryInv => NoFrameAfterLoss
  BY DEF RepositoryInv
<1>2. QED
  BY <1>1, RepositoryAlways, PTL
===============================================================================
