---------------------------- MODULE FrameRepository ----------------------------
(***************************************************************************)
(* TraceDisplayFrameRepository and the queries that wait on it.            *)
(*                                                                         *)
(* The repository retains the newest frame of every trace.  A reader that  *)
(* waits for the next one registers in the trace's wait state, lets the    *)
(* query check its binding without the mutex, arms a stop callback, and    *)
(* sleeps on the state's condition variable.  Meanwhile frames and sets    *)
(* are published, traces discarded, generations advanced, the bus changes  *)
(* bindings, and somebody requests the reader's stop.  The two             *)
(* compositions of the repository are covered: whole sets under            *)
(* generations (SweepRuntime), and single frames with discards (the legacy *)
(* pipeline).                                                              *)
(*                                                                         *)
(* What is done under the repository's mutex is one action, except that a  *)
(* reader holds it from its predicate into its sleep; notifications after  *)
(* the unlock are actions of their own.                                    *)
(***************************************************************************)
EXTENDS Integers, FiniteSets

CONSTANTS
    Traces, Readers,
    Watched,         \* bound: the traces that readers ask for and commands edit
    Queries,         \* readers that come through the query, with a stop token;
                     \* the others wait at the repository itself, without one
    Bindings,        \* what a trace shows: measurement, its type, format
    Capacity,        \* capacity_
    MaxSequence,     \* bound: sequence numbers
    MaxGeneration,   \* bound: generations
    MaxUpdates,      \* bound: publications, discards, generations, changed bindings
    MaxCalls,        \* bound: waits of each reader
    NoFrame, Unbound, NoReader

Sequences == 1..MaxSequence
Generations == 1..MaxGeneration
\* Wait states are shared objects: one per trace, those readers still hold, and those a
\* publisher has still to notify.
States == 1..(2 * Cardinality(Traces) + Cardinality(Readers))
NoState == 0
Frames == [sequence : Sequences, generation : Generations,
           binding : Bindings \cup {Unbound}]

ASSUME BoundsAssumption ==
    /\ Capacity \in Nat \ {0} /\ MaxSequence \in Nat \ {0}
    /\ MaxGeneration \in Nat \ {0}
    /\ MaxUpdates \in Nat /\ MaxCalls \in Nat
ASSUME NamesAssumption ==
    /\ IsFiniteSet(Traces) /\ Traces # {} /\ IsFiniteSet(Readers)
    /\ Watched \subseteq Traces /\ Queries \subseteq Readers
    /\ NoReader \notin Readers /\ Unbound \notin Bindings /\ NoFrame \notin Frames

VARIABLES
    legacy,        \* the composition: single frames, or sets under generations
    generation,    \* generation_
    newest,        \* sequence number of latestFrameSet_, 0 without one
    frames,        \* latestByTrace_
    entry,         \* waitStates_
    states,        \* the wait states themselves
    mutex,         \* the reader that holds mutex_ between two of its steps
    notifying,     \* wait states a publisher has still to notify
    bound,         \* the bindings in the bus's snapshot
    planned,       \* the bindings frames are projected with
    updates, calls,   \* how often what is bounded has happened
    reader,        \* per reader: where it is, and its local variables
    requested,     \* per reader: its stop has been requested
    callback,      \* per reader: its stop callback
    lost           \* history: the trace was dropped since the reader registered

repositoryVars == <<generation, newest, frames>>
waitVars == <<entry, states>>
busVars == <<bound, planned>>
stopVars == <<requested, callback>>
vars == <<legacy, updates, repositoryVars, waitVars, mutex, notifying, busVars, reader,
          stopVars, calls, lost>>

Idle == [step |-> "idle", trace |-> CHOOSE t \in Traces : TRUE, after |-> 0,
         binding |-> Unbound, state |-> NoState, discards |-> 0, result |-> NoFrame]

Goto(r, step) == reader' = [reader EXCEPT ![r].step = step]
Registered == {"validate", "release", "arm", "check", "falling", "asleep"}
Waiting(s) == {r \in Readers : reader[r].step \in Registered /\ reader[r].state = s}
Retained == {t \in Traces : frames[t] # NoFrame}

\* notify_all: whoever sleeps on one of these states looks again.
Woken(S) ==
    reader' = [r \in Readers |->
        IF reader[r].step = "asleep" /\ reader[r].state \in S
        THEN [reader[r] EXCEPT !.step = "check"] ELSE reader[r]]

-------------------------------------------------------------------------------
(* Publications.  Refused ones change nothing and are left out.             *)

Frame(t, n) == [sequence |-> n, generation |-> generation, binding |-> planned[t]]
\* A writer takes the mutex when the notifications of the one before are out: its
\* caller serialises publications (the catalog's mutex, the legacy registry's).
Writes ==
    /\ mutex = NoReader /\ notifying = {}
    /\ updates < MaxUpdates /\ updates' = updates + 1

Lost(T) == lost' = [r \in Readers |->
    lost[r] \/ (reader[r].step \in Registered /\ reader[r].trace \in T)]

\* Faulty variant: a trace nobody waits for is looked up all the same.
StatesOfAll(T) == {entry[t] : t \in T}
StatesOf(T) == {entry[t] : t \in T} \ {NoState}

\* Faulty variant: a set drops traces without telling their readers.
DroppedSilently(T) == {}
\* The wait states of traces that a set no longer contains.
Dropped(T) == StatesOf(Retained \ T)

Discarded(S) == [s \in States |->
    IF s \in S THEN [states[s] EXCEPT !.discards = @ + 1] ELSE states[s]]

\* publishFrameSet: both retained views and the discards change at once.
PublishSet(T, n) ==
    /\ ~legacy /\ Writes
    /\ T # {} /\ T \subseteq {t \in Traces : planned[t] # Unbound}
    /\ Cardinality(T) <= Capacity
    /\ newest < n
    /\ states' = Discarded(Dropped(T))
    /\ frames' = [t \in Traces |-> IF t \in T THEN Frame(t, n) ELSE NoFrame]
    /\ newest' = n
    /\ notifying' = StatesOf(Traces)
    /\ Lost(Retained \ T)
    /\ UNCHANGED <<legacy, generation, entry, mutex, busVars, reader, stopVars, calls>>

\* publish of one frame.
Publish(t, n) ==
    /\ legacy /\ Writes
    /\ planned[t] # Unbound
    /\ IF t \in Retained THEN n > frames[t].sequence
       ELSE Cardinality(Retained) < Capacity
    /\ frames' = [frames EXCEPT ![t] = Frame(t, n)]
    /\ notifying' = StatesOf({t})
    /\ UNCHANGED <<legacy, generation, newest, waitVars, mutex, busVars, reader,
                   stopVars, calls, lost>>

\* advanceGeneration; the catalog's new plan follows the bus.
AdvanceGeneration ==
    /\ ~legacy /\ Writes
    /\ generation < MaxGeneration
    /\ generation' = generation + 1
    /\ newest' = 0
    /\ frames' = [t \in Traces |-> NoFrame]
    /\ states' = Discarded(StatesOf(Traces))
    /\ notifying' = StatesOf(Traces)
    /\ planned' = bound
    /\ Lost(Retained)
    /\ UNCHANGED <<legacy, entry, mutex, bound, reader, stopVars, calls>>

\* cleanWaitState: nobody waits for the trace and nothing of it is retained.
Clean(t, s, kept) ==
    IF t \notin kept /\ states'[s].waiters = 0 /\ entry[t] = s
    THEN entry' = [entry EXCEPT ![t] = NoState] ELSE UNCHANGED entry

\* discard, when the legacy registry retires a trace or changes its binding.
Discard(t) ==
    /\ legacy /\ Writes
    /\ t \in Retained \/ planned[t] # bound[t]
    /\ frames' = [frames EXCEPT ![t] = NoFrame]
    /\ planned' = [planned EXCEPT ![t] = bound[t]]
    /\ states' = Discarded(StatesOf({t}))
    /\ IF entry[t] = NoState THEN UNCHANGED entry ELSE Clean(t, entry[t], Retained \ {t})
    /\ notifying' = StatesOf({t})
    /\ Lost({t} \cap Retained)
    /\ UNCHANGED <<legacy, generation, newest, mutex, bound, reader,
                   stopVars, calls>>

\* notify_all after the unlock, state by state.
NotifyOne(s) ==
    /\ s \in notifying
    /\ notifying' = notifying \ {s}
    /\ Woken({s})
    /\ UNCHANGED <<legacy, updates, repositoryVars, waitVars, mutex, busVars,
                   stopVars, calls,
                   lost>>

\* A command changes what a trace shows, adds or deletes it.
BusChanges(t, b) ==
    /\ updates < MaxUpdates /\ updates' = updates + 1
    /\ b # bound[t]
    /\ bound' = [bound EXCEPT ![t] = b]
    /\ UNCHANGED <<legacy, repositoryVars, waitVars, mutex, notifying, planned, reader,
                   stopVars, calls, lost>>

-------------------------------------------------------------------------------
(* A reader: TraceDisplayFrameQuery::waitForNext.                           *)

\* The query's first look at the bus; a trace that is not there ends it.
Call(r, t, after) ==
    /\ reader[r].step = "idle" /\ calls[r] < MaxCalls
    /\ r \in Queries => bound[t] # Unbound
    /\ reader' = [reader EXCEPT ![r] = [Idle EXCEPT
                     !.step = "enter", !.trace = t, !.after = after, !.binding = bound[t]]]
    /\ calls' = [calls EXCEPT ![r] = @ + 1]
    /\ UNCHANGED <<legacy, updates, repositoryVars, waitVars, mutex, notifying, busVars,
                   stopVars, lost>>

Unused == States \ ({entry[t] : t \in Traces} \cup {reader[r].state : r \in Readers}
                        \cup notifying)
\* The state the reader finds or makes.
StateFor(t) ==
    IF entry[t] # NoState THEN entry[t]
    ELSE CHOOSE s \in Unused : TRUE

\* Registration, before the binding is checked again.
Register(r) ==
    LET t == reader[r].trace
        s == StateFor(t)
        fresh == [waiters |-> 0, discards |-> 0]
        state == IF entry[t] = s THEN states[s] ELSE fresh
    IN  /\ reader[r].step = "enter" /\ mutex = NoReader
        /\ IF requested[r]
           THEN Goto(r, "resolve") /\ UNCHANGED <<waitVars, lost>>
           ELSE /\ entry' = [entry EXCEPT ![t] = s]
                /\ states' = [states EXCEPT ![s] = [state EXCEPT !.waiters = @ + 1]]
                /\ reader' = [reader EXCEPT ![r].state = s,
                         ![r].step = IF r \in Queries THEN "validate" ELSE "check",
                         ![r].discards = state.discards]
                /\ lost' = [lost EXCEPT ![r] = FALSE]
        /\ UNCHANGED <<legacy, updates, repositoryVars, mutex, notifying, busVars,
                   stopVars,
                       calls>>

\* Does the binding still hold?  Asked without the repository's mutex.
Validate(r) ==
    /\ reader[r].step = "validate"
    /\ Goto(r, IF bound[reader[r].trace] = reader[r].binding THEN "arm" ELSE "release")
    /\ UNCHANGED <<legacy, updates, repositoryVars, waitVars, mutex, notifying,
                   busVars, stopVars, calls, lost>>

\* Faulty variant: the reader leaves without being counted out.
LeaveCounted(r) == states' = states
Leave(r) == states' = [states EXCEPT ![reader[r].state].waiters = @ - 1]

Release(r) ==
    /\ reader[r].step = "release" /\ mutex = NoReader
    /\ Leave(r) /\ Clean(reader[r].trace, reader[r].state, Retained)
    /\ Goto(r, "resolve")
    /\ UNCHANGED <<legacy, updates, repositoryVars, mutex, notifying, busVars,
                   stopVars, calls,
                   lost>>

\* The StopCallback is armed, or called at once when the stop came before.
Arm(r) ==
    /\ reader[r].step = "arm" /\ ~requested[r]
    /\ callback' = [callback EXCEPT ![r] = "armed"]
    /\ Goto(r, "check")
    /\ UNCHANGED <<legacy, updates, repositoryVars, waitVars, mutex, notifying, busVars,
                   requested, calls, lost>>

ArmStopped(r) ==
    /\ reader[r].step = "arm" /\ requested[r] /\ mutex = NoReader
    /\ reader' = [q \in Readers |->
           IF q = r \/ (reader[q].step = "asleep" /\ reader[q].state = reader[r].state)
           THEN [reader[q] EXCEPT !.step = "check"] ELSE reader[q]]
    /\ UNCHANGED <<legacy, updates, repositoryVars, waitVars, mutex, notifying, busVars,
                   stopVars, calls, lost>>

WasDiscarded(r) == states[reader[r].state].discards # reader[r].discards

HasNewer(r) ==
    LET t == reader[r].trace IN t \in Retained /\ frames[t].sequence > reader[r].after
Satisfied(r) == requested[r] \/ WasDiscarded(r) \/ HasNewer(r)

Answer(r) ==
    LET t == reader[r].trace IN
    IF ~requested[r] /\ ~WasDiscarded(r) /\ t \in Retained THEN frames[t] ELSE NoFrame

\* The predicate holds: take the frame, be counted out, give up the mutex.
Obtain(r) ==
    /\ reader[r].step = "check" /\ mutex = NoReader /\ Satisfied(r)
    /\ Leave(r) /\ Clean(reader[r].trace, reader[r].state, Retained)
    /\ reader' = [reader EXCEPT ![r].step = "disarm", ![r].result = Answer(r)]
    /\ UNCHANGED <<legacy, updates, repositoryVars, mutex, notifying, busVars,
                   stopVars, calls, lost>>

\* It does not: from here to the sleep the reader holds the mutex.
Decline(r) ==
    /\ reader[r].step = "check" /\ mutex = NoReader /\ ~Satisfied(r)
    /\ mutex' = r /\ Goto(r, "falling")
    /\ UNCHANGED <<legacy, updates, repositoryVars, waitVars, notifying, busVars,
                   stopVars, calls, lost>>

FallAsleep(r) ==
    /\ reader[r].step = "falling"
    /\ mutex' = NoReader /\ Goto(r, "asleep")
    /\ UNCHANGED <<legacy, updates, repositoryVars, waitVars, notifying, busVars,
                   stopVars, calls, lost>>

\* ~StopCallback: unregisters, and waits for a call that has begun.
Disarm(r) ==
    /\ reader[r].step = "disarm"
    /\ callback[r] \in {"none", "armed", "claimed"}
    /\ callback' = [callback EXCEPT ![r] = "none"]
    /\ Goto(r, "resolve")
    /\ UNCHANGED <<legacy, updates, repositoryVars, waitVars, mutex, notifying, busVars,
                   requested, calls, lost>>

\* resolveFrame against the bus as it is now; the answer goes to the caller.
Resolve(r) ==
    /\ reader[r].step = "resolve"
    /\ reader' = [reader EXCEPT ![r] = Idle]
    /\ requested' = [requested EXCEPT ![r] = FALSE]
    /\ lost' = [lost EXCEPT ![r] = FALSE]
    /\ UNCHANGED <<legacy, updates, repositoryVars, waitVars, mutex, notifying, busVars,
                   callback, calls>>

-------------------------------------------------------------------------------
(* The thread that requests a reader's stop (StopSource::requestStop).      *)

RequestStop(r) ==
    /\ r \in Queries /\ reader[r].step # "idle" /\ ~requested[r]
    /\ requested' = [requested EXCEPT ![r] = TRUE]
    /\ callback' = [callback EXCEPT ![r] = IF @ = "armed" THEN "claimed" ELSE @]
    /\ UNCHANGED <<legacy, updates, repositoryVars, waitVars, mutex, notifying,
                   busVars, reader,
                   calls, lost>>

BeginCallback(r) ==
    /\ callback[r] = "claimed"
    /\ callback' = [callback EXCEPT ![r] = "running"]
    /\ UNCHANGED <<legacy, updates, repositoryVars, waitVars, mutex, notifying,
                   busVars, reader,
                   requested, calls, lost>>

\* Faulty variant: the callback notifies without the mutex.
WithoutMutex == TRUE
WithMutex == mutex = NoReader

RunCallback(r) ==
    /\ callback[r] = "running" /\ WithMutex
    /\ Woken({reader[r].state})
    /\ callback' = [callback EXCEPT ![r] = "none"]
    /\ UNCHANGED <<legacy, updates, repositoryVars, waitVars, mutex, notifying, busVars,
                   requested, calls, lost>>

-------------------------------------------------------------------------------
\* At first nothing has been published, or every trace once.
Init ==
    /\ legacy \in BOOLEAN
    /\ generation = 1
    /\ bound \in [Traces -> Bindings] /\ planned = bound
    /\ \/ newest = 0 /\ frames = [t \in Traces |-> NoFrame]
       \/ /\ newest = (IF legacy THEN 0 ELSE 1)
          /\ frames = [t \in Traces |-> Frame(t, 1)]
    /\ entry = [t \in Traces |-> NoState]
    /\ states = [s \in States |-> [waiters |-> 0, discards |-> 0]]
    /\ mutex = NoReader /\ notifying = {}
    /\ updates = 0
    /\ reader = [r \in Readers |-> Idle]
    /\ requested = [r \in Readers |-> FALSE]
    /\ callback = [r \in Readers |-> "none"]
    /\ calls = [r \in Readers |-> 0]
    /\ lost = [r \in Readers |-> FALSE]

\* A reader waits for anything, or for what follows the frame there is.
Seen(t) == {0} \cup (IF frames[t] = NoFrame THEN {} ELSE {frames[t].sequence})

Returning(r) ==
    \/ Register(r) \/ Validate(r) \/ Release(r) \/ Arm(r) \/ ArmStopped(r)
    \/ Obtain(r) \/ Decline(r) \/ FallAsleep(r) \/ Disarm(r) \/ Resolve(r)
Stopping(r) == BeginCallback(r) \/ RunCallback(r)

Next ==
    \/ \E T \in SUBSET Traces, n \in Sequences : PublishSet(T, n)
    \/ \E t \in Traces, n \in Sequences : Publish(t, n)
    \/ AdvanceGeneration
    \/ \E t \in Traces : Discard(t)
    \/ \E s \in States : NotifyOne(s)
    \/ \E t \in Watched, b \in Bindings \cup {Unbound} : BusChanges(t, b)
    \/ \E r \in Readers, t \in Watched : \E after \in Seen(t) : Call(r, t, after)
    \/ \E r \in Readers : Returning(r) \/ RequestStop(r) \/ Stopping(r)

Spec == Init /\ [][Next]_vars

\* Threads inside a call go on; nothing makes frames, calls or stops come.
FairSpec ==
    /\ Spec
    /\ WF_vars(\E s \in States : NotifyOne(s))
    /\ \A r \in Readers : WF_vars(Returning(r)) /\ WF_vars(Stopping(r))

-------------------------------------------------------------------------------
(* Properties.                                                              *)

TypeOK ==
    /\ legacy \in BOOLEAN
    /\ generation \in Generations /\ newest \in 0..MaxSequence
    /\ frames \in [Traces -> Frames \cup {NoFrame}]
    /\ entry \in [Traces -> States \cup {NoState}]
    /\ states \in [States -> [waiters : Nat, discards : Nat]]
    /\ mutex \in Readers \cup {NoReader} /\ notifying \subseteq States
    /\ bound \in [Traces -> Bindings \cup {Unbound}]
    /\ planned \in [Traces -> Bindings \cup {Unbound}]
    /\ reader \in [Readers ->
           [step : Registered \cup {"idle", "enter", "disarm", "resolve"},
            trace : Traces, after : Nat, binding : Bindings \cup {Unbound},
            state : States \cup {NoState}, discards : Nat, result : Frames \cup {NoFrame}]]
    /\ requested \in [Readers -> BOOLEAN]
    /\ callback \in [Readers -> {"none", "armed", "claimed", "running"}]
    /\ lost \in [Readers -> BOOLEAN]

\* A reader that waits is known where publications and discards look for it, is
\* counted there once, and no two traces share a wait state: otherwise a discard
\* would miss it, or its state would be erased under it (cleanWaitState,
\* trace_display_frame_wait.cpp:84).
WaitStatesAgree ==
    /\ \A r \in Readers : reader[r].step \in Registered =>
           entry[reader[r].trace] = reader[r].state /\ reader[r].state # NoState
    /\ \A t \in Traces : entry[t] # NoState =>
           /\ states[entry[t]].waiters = Cardinality(Waiting(entry[t]))
           /\ \A u \in Traces \ {t} : entry[u] # entry[t]

\* A wait that a discard, a dropped trace or a generation has ended never answers
\* with a frame published later, and an answer is newer than what was asked for
\* (trace_display_frame_repository.hpp:112: null means a discard after registration).
NoFrameAfterLoss ==
    \A r \in Readers :
        reader[r].step \in {"disarm", "resolve"} /\ reader[r].result # NoFrame =>
            ~lost[r] /\ reader[r].result.sequence > reader[r].after

\* A wait whose stop is requested, that has something to see or was discarded
\* returns: no notification falls between predicate and sleep, and unregistering
\* the callback cannot block for good.
Due(r) ==
    \/ requested[r] /\ reader[r].step # "idle"
    \/ reader[r].step \in Registered /\ Satisfied(r)
    \/ reader[r].step \in {"disarm", "resolve"}

WaitersReturn == \A r \in Readers : Due(r) ~> (reader[r].step = "idle")
===============================================================================
