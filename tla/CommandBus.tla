------------------------------ MODULE CommandBus ------------------------------
(***************************************************************************)
(* CommandBus: dispatch with its idempotency ring, the one configuration   *)
(* transaction, the admission of Restarts, and the control authority that  *)
(* decides whether Web clients or one SCPI session may command.            *)
(*                                                                         *)
(* Every call holds the bus's mutex from its first check to its last       *)
(* effect and is one action; the settlement of a Restart and the call of a *)
(* revoker follow when the mutex has been released.  The runtime is seen   *)
(* from here as what accepts, refuses or is closed (see SweepRuntime); no  *)
(* SCPI adapter exists in the repository, sessions follow the contract in  *)
(* command_bus.hpp: fresh identities, no dispatch after detach.            *)
(***************************************************************************)
EXTENDS Integers, Sequences, FiniteSets

CONSTANTS
    WebThreads,   \* threads that dispatch commands of Web sessions
    Sessions,     \* SCPI sessions, each with a thread of its own
    Takers,       \* threads that take local control
    Commands,     \* bound: the envelopes that are sent, any number of times
    Instrument,   \* instrumentId_
    Values,       \* configurations: instrument and display workspace together
    InitialValue,
    Refused,      \* configurations the runtime cannot sweep
    Capacity,     \* capacity of the idempotency ring
    MaxAnswers,   \* bound: answers ever remembered
    NoEntry       \* an empty slot of the ring

Threads == WebThreads \cup Sessions \cup Takers
Slots == 1..Capacity
AnyRevision == -1
NoSession == "nobody"
NoOp == 0
Idle == [step |-> "idle", session |-> NoSession]
NoLease == [kind |-> "None", owner |-> NoSession]

Outcomes == {"success", "DomainError", "StateRevisionConflict", "WrongInstrument",
             "CommandIdReuse", "ControlDenied", "ResourceBusy",
             "TraceConfigurationRejected", "UnsupportedSweepConfiguration"}
Results == [revision : Nat, outcome : Outcomes, value : Nat]
AnswerType == [command : Commands, result : Results]

ASSUME CapacityAssumption == Capacity \in Nat \ {0} /\ MaxAnswers \in Nat
ASSUME ValuesAssumption == InitialValue \in Values /\ Refused \subseteq Values
ASSUME SessionsAssumption == NoSession \notin Sessions
ASSUME CommandsAssumption ==
    /\ \A c \in Commands : c.payload.kind = "Configure" => c.payload.value \in Values
    /\ NoEntry \notin Commands \cup AnswerType

VARIABLES
    revision,   \* stateRevision_
    config,     \* instrument_ and displayWorkspace_
    entries,    \* IdempotencyStore: entries_
    nextEntry,  \* IdempotencyStore: next_
    lease,      \* ControlAuthority: state_
    runtime,    \* whether the sweep runtime still takes commands
    admitted,   \* Operations the runtime has admitted for Restarts
    call,       \* per thread: what it still has to do without the mutex
    answers,    \* history: number of answers remembered
    log,        \* history: the last Capacity of them
    reply,      \* history: the command this step answered, and its answer
    appliedAt,  \* history: per key, the answer that told of its last effect
    standing,   \* history: per session, what it has done and met
    revoked,    \* history: calls of each session's revoker
    seen        \* history: the state first shown with a revision clients name

stateVars == <<revision, config>>
ringVars == <<entries, nextEntry>>
answerVars == <<answers, log>>
sessionVars == <<standing, revoked>>
vars == <<stateVars, ringVars, lease, runtime, admitted, call, answerVars, reply,
          appliedAt, sessionVars, seen>>

-------------------------------------------------------------------------------
(* The idempotency ring.                                                    *)

Key(c) == <<c.instrument, c.session, c.id>>
Keys == {Key(c) : c \in Commands}
Found(c) == {i \in Slots : entries[i] # NoEntry /\ Key(entries[i].command) = Key(c)}
Entry(c) == entries[CHOOSE i \in Found(c) : \A j \in Found(c) : i <= j]

\* Same key, same content: origin, expected revision and payload.
Replayed(c) == Found(c) # {} /\ Entry(c).command = c

\* Faulty variant: the last slot is never used.
AdvanceEarly(n) == IF n >= Capacity - 1 THEN 1 ELSE n + 1
\* Faulty variant: the slot after the last one.
AdvancePast(n) == n + 1
Advance(n) == IF n = Capacity THEN 1 ELSE n + 1

NoReply == [command |-> NoEntry, result |-> NoEntry]
Answer(c, result) == reply' = [command |-> c, result |-> result]
Silent == reply' = NoReply

Logged(c, result) ==
    /\ answers' = answers + 1
    /\ log' = {r \in log : r.at > answers + 1 - Capacity}
                \cup {[at |-> answers + 1, command |-> c, result |-> result]}

\* commit of a prepared entry, over the oldest one once the ring is full.
Stored(c, result) ==
    /\ entries' = [entries EXCEPT ![nextEntry] = [command |-> c, result |-> result]]
    /\ nextEntry' = Advance(nextEntry)

\* Faulty variant: errors are not remembered.
RememberSuccess(c, result) ==
    /\ Logged(c, result)
    /\ IF result.outcome = "success" THEN Stored(c, result) ELSE UNCHANGED ringVars

Remember(c, result) == Logged(c, result) /\ Stored(c, result)

-------------------------------------------------------------------------------
(* Authority.                                                               *)

Mode == IF lease.kind = "Remote" THEN "Remote" ELSE "Local"

Authorizes(c) ==
    IF lease.kind = "Remote" THEN c.origin = "Scpi" /\ c.session = lease.owner
    ELSE c.origin = "Web"

NamedRevisions == {c.expected : c \in Commands} \ {AnyRevision}

\* A step to a new revision; its state is recorded.
NewRevision(value, mode) ==
    /\ revision' = revision + 1
    /\ seen' = [r \in NamedRevisions |->
                   IF r = revision + 1 THEN [config |-> value, mode |-> mode] ELSE seen[r]]
SameRevision == UNCHANGED <<revision, seen>>

-------------------------------------------------------------------------------
(* dispatch, in the order of its checks.                                    *)

\* A Web command comes on any of the server's threads; a session sends its own
\* until it detaches.
MaySend(t, c) ==
    /\ call[t] = Idle /\ answers < MaxAnswers
    /\ IF c.origin = "Web" THEN t \in WebThreads
       ELSE t = c.session /\ standing[t] \notin {"new", "gone"}

Result(at, outcome, value) == [revision |-> at, outcome |-> outcome, value |-> value]
Failed(outcome) == Result(revision, outcome, NoOp)

Applied(c) == appliedAt' = [appliedAt EXCEPT ![Key(c)] = answers + 1]

\* Refused before anything is prepared: no trace is left, not even an answer.
Refusal(c) ==
    CASE c.instrument # Instrument -> "WrongInstrument"
      [] OTHER -> IF Found(c) # {} THEN "CommandIdReuse" ELSE "ControlDenied"

Refuse(t, c) ==
    /\ MaySend(t, c)
    /\ \/ c.instrument # Instrument
       \/ Found(c) # {} /\ ~Replayed(c)
       \/ Found(c) = {} /\ ~Authorizes(c)
    /\ Answer(c, Failed(Refusal(c)))
    /\ UNCHANGED <<stateVars, ringVars, lease, runtime, admitted, call, answerVars,
                   appliedAt, sessionVars, seen>>

\* A remembered answer is given before authority is asked for.
Replay(t, c) ==
    /\ MaySend(t, c) /\ c.instrument = Instrument /\ Replayed(c)
    /\ Answer(c, Entry(c).result)
    /\ UNCHANGED <<stateVars, ringVars, lease, runtime, admitted, call, answerVars,
                   appliedAt, sessionVars, seen>>

Expected(c) == c.expected \in {AnyRevision, revision}

\* The command passes lookup and authority.
Passes(t, c) ==
    /\ MaySend(t, c) /\ c.instrument = Instrument
    /\ Found(c) = {} /\ Authorizes(c)

\* An error that changes nothing, remembered when it will always be the same.
Fails(c, outcome, remembered) ==
    /\ Answer(c, Failed(outcome))
    /\ IF remembered THEN Remember(c, Failed(outcome)) ELSE UNCHANGED <<ringVars, answerVars>>
    /\ UNCHANGED <<stateVars, lease, runtime, admitted, call, appliedAt,
                   sessionVars, seen>>

Conflict(t, c) ==
    /\ Passes(t, c) /\ ~Expected(c)
    /\ Fails(c, "StateRevisionConflict", TRUE)

\* The candidate cannot be built: domain, display and rejected-trace errors.
Invalid(t, c) ==
    /\ Passes(t, c) /\ Expected(c) /\ c.payload.kind = "Invalid"
    /\ Fails(c, "DomainError", TRUE)

\* An update to what is there already succeeds at the same revision.
Unchanged(t, c) ==
    LET result == Result(revision, "success", NoOp) IN
    /\ Passes(t, c) /\ Expected(c)
    /\ c.payload.kind = "Configure" /\ c.payload.value = config
    /\ Answer(c, result) /\ Remember(c, result)
    /\ UNCHANGED <<stateVars, lease, runtime, admitted, call, appliedAt,
                   sessionVars, seen>>

\* commitConfiguration: the runtime prepares, and commits with the bus.
Configure(t, c) ==
    LET value == c.payload.value
        result == Result(revision + 1, "success", NoOp)
    IN  /\ Passes(t, c) /\ Expected(c)
        /\ c.payload.kind = "Configure" /\ value # config
        /\ runtime = "Running" /\ value \notin Refused
        /\ config' = value
        /\ NewRevision(value, Mode)
        /\ Answer(c, result) /\ Remember(c, result)
        /\ Applied(c)
        /\ UNCHANGED <<lease, runtime, admitted, call, sessionVars>>

\* What the runtime will never sweep is remembered as refused, that it does not
\* run is not.
ConfigureRefused(t, c) ==
    /\ Passes(t, c) /\ Expected(c)
    /\ c.payload.kind = "Configure" /\ c.payload.value # config
    /\ IF runtime = "Closed" THEN Fails(c, "ResourceBusy", FALSE)
       ELSE /\ c.payload.value \in Refused
            /\ Fails(c, "TraceConfigurationRejected", TRUE)

\* A Restart is admitted under the mutex and settled after it (settleRestart).
Restart(t, c) ==
    LET result == Result(revision, "success", admitted + 1) IN
    /\ Passes(t, c) /\ Expected(c) /\ c.payload.kind = "Restart"
    /\ runtime = "Running" /\ c.payload.value \notin Refused
    /\ admitted' = admitted + 1
    /\ Answer(c, result) /\ Remember(c, result)
    /\ Applied(c)
    /\ call' = [call EXCEPT ![t] = [step |-> "settle", session |-> NoSession]]
    /\ UNCHANGED <<stateVars, lease, runtime, sessionVars, seen>>

\* admitRestart looks at the channel before it looks at its state.
RestartRefused(t, c) ==
    /\ Passes(t, c) /\ Expected(c) /\ c.payload.kind = "Restart"
    /\ IF c.payload.value \in Refused
       THEN Fails(c, "UnsupportedSweepConfiguration", TRUE)
       ELSE runtime = "Closed" /\ Fails(c, "ResourceBusy", FALSE)

Settle(t) ==
    /\ call[t].step = "settle"
    /\ call' = [call EXCEPT ![t] = Idle]
    /\ UNCHANGED <<stateVars, ringVars, lease, runtime, admitted, answerVars,
                   appliedAt, sessionVars, seen>>
    /\ Silent

Dispatch(t, c) ==
    \/ Refuse(t, c) \/ Replay(t, c) \/ Conflict(t, c) \/ Invalid(t, c)
    \/ Unchanged(t, c) \/ Configure(t, c) \/ ConfigureRefused(t, c)
    \/ Restart(t, c) \/ RestartRefused(t, c)

\* Environment: the runtime stops, retires or fails, for good.
RuntimeCloses ==
    /\ runtime = "Running" /\ runtime' = "Closed"
    /\ UNCHANGED <<stateVars, ringVars, lease, admitted, call, answerVars,
                   appliedAt, sessionVars, seen>>
    /\ Silent

-------------------------------------------------------------------------------
(* Control transitions.                                                     *)

\* Faulty variant: a lease being revoked counts as free.
MayAttachRevoking == lease.kind \in {"None", "Revoking"}
MayAttach == lease.kind = "None"

\* tryAttachScpiSession; a busy bus turns the session away.  A call of a session
\* that does not hold the lease, or holds what it asks for, changes nothing.
Attach(s) ==
    /\ standing[s] = "new" /\ MayAttach
    /\ lease' = [kind |-> "Attached", owner |-> s]
    /\ standing' = [standing EXCEPT ![s] = "attached"]
    /\ UNCHANGED <<stateVars, ringVars, runtime, admitted, call, answerVars,
                   appliedAt, revoked, seen>>
    /\ Silent

Activate(s) ==
    /\ call[s] = Idle /\ lease = [kind |-> "Attached", owner |-> s]
    /\ lease' = [lease EXCEPT !.kind = "Remote"]
    /\ standing' = [standing EXCEPT ![s] = "remote"]
    /\ NewRevision(config, "Remote")
    /\ UNCHANGED <<config, ringVars, runtime, admitted, call, answerVars,
                   appliedAt, revoked>>
    /\ Silent

\* The session's thread has made its last dispatch; its revoker may detach it
\* too, on the thread that takes local control.  Only the owner's lease ends.
Detach(s) ==
    /\ standing[s] \notin {"new", "gone"} /\ call[s] = Idle
    /\ standing' = [standing EXCEPT ![s] = "gone"]
    /\ IF lease.owner = s THEN lease' = NoLease ELSE UNCHANGED lease
    /\ IF lease.owner = s /\ Mode = "Remote" THEN NewRevision(config, "Local")
       ELSE SameRevision
    /\ UNCHANGED <<config, ringVars, runtime, admitted, call, answerVars,
                   appliedAt, revoked>>
    /\ Silent

\* Faulty variant: the revision stays when the mode changes back.
TakenQuietly == SameRevision
Taken ==
    IF Mode = "Remote" THEN NewRevision(config, "Local")
    ELSE SameRevision

InvokesRevoker == lease.kind \in {"Attached", "Remote"}

TakeLocal(t) ==
    LET s == lease.owner IN
    /\ call[t] = Idle /\ lease.kind \in {"Attached", "Remote"}
    /\ lease' = [lease EXCEPT !.kind = "Revoking"]
    /\ standing' = [standing EXCEPT ![s] = "taken"]
    /\ Taken
    /\ call' = [call EXCEPT ![t] = IF InvokesRevoker
                   THEN [step |-> "revoke", session |-> s] ELSE Idle]
    /\ UNCHANGED <<config, ringVars, runtime, admitted, answerVars, appliedAt,
                   revoked>>
    /\ Silent

\* The revoker is called without the mutex; what it throws is dropped.
Revoke(t) ==
    /\ call[t].step = "revoke"
    /\ revoked' = [revoked EXCEPT ![call[t].session] = @ + 1]
    /\ call' = [call EXCEPT ![t] = Idle]
    /\ UNCHANGED <<stateVars, ringVars, lease, runtime, admitted, answerVars,
                   appliedAt, standing, seen>>
    /\ Silent

-------------------------------------------------------------------------------
Init ==
    /\ revision = 0 /\ config = InitialValue
    /\ entries = [i \in Slots |-> NoEntry] /\ nextEntry = 1
    /\ lease = NoLease
    /\ runtime = "Running" /\ admitted = 0
    /\ call = [t \in Threads |-> Idle]
    /\ answers = 0 /\ log = {} /\ reply = NoReply
    /\ appliedAt = [k \in Keys |-> 0]
    /\ standing = [s \in Sessions |-> "new"]
    /\ revoked = [s \in Sessions |-> 0]
    /\ seen = [r \in NamedRevisions |-> [config |-> InitialValue, mode |-> "Local"]]

Next ==
    \/ \E t \in Threads : \E c \in Commands : Dispatch(t, c)
    \/ \E t \in Threads : Settle(t) \/ Revoke(t)
    \/ \E s \in Sessions : Attach(s) \/ Activate(s) \/ Detach(s)
    \/ \E t \in Takers : TakeLocal(t)
    \/ RuntimeCloses

Spec == Init /\ [][Next]_vars

\* Calls in progress go on and revokers return.
FairSpec == Spec /\ \A t \in Threads : WF_vars(Settle(t)) /\ WF_vars(Revoke(t))

-------------------------------------------------------------------------------
(* Properties.                                                              *)

\* Types of the bus's state and of the threads inside it.
TypeOK ==
    /\ revision \in Nat /\ config \in Values
    /\ entries \in [Slots -> AnswerType \cup {NoEntry}] /\ nextEntry \in Slots
    /\ lease.kind \in {"None", "Attached", "Remote", "Revoking"}
    /\ lease.owner \in Sessions \cup {NoSession}
    /\ runtime \in {"Running", "Closed"} /\ admitted \in Nat
    /\ call \in [Threads -> [step : {"idle", "settle", "revoke"},
                             session : Sessions \cup {NoSession}]]
    /\ reply \in AnswerType \cup {NoReply}
    /\ standing \in [Sessions -> {"new", "attached", "remote", "taken", "gone"}]
    /\ revoked \in [Sessions -> Nat]

\* A command takes effect once, however often it is sent and by however many
\* threads, until Capacity further answers have been remembered
\* (docs/adr/0006, idempotency; command_idempotency.cpp).
AtMostOnce ==
    [][\A k \in Keys :
         appliedAt'[k] # appliedAt[k] /\ appliedAt[k] # 0 =>
             appliedAt'[k] > appliedAt[k] + Capacity]_vars

\* The answer to a command sent again is the one it had, as long as it is among
\* the last Capacity answers, whoever is in control by now (lookup comes before
\* the authority in dispatch).
SameAnswer ==
    [][\A r \in log : reply'.command = r.command => reply'.result = r.result]_vars

\* A revision names one state, mode included: a command that names a revision
\* has an effect only on the state its sender saw under it.
ExpectedIsActual ==
    [][appliedAt' # appliedAt /\ reply'.command.expected # AnyRevision =>
           seen[reply'.command.expected] = [config |-> config, mode |-> Mode]]_vars

\* The bus is leased to a session from its attach to its detach, also while it
\* is being revoked and whatever its revoker does: a second one stays busy
\* (docs/architecture.md:321).  A revoker is called at most once, and for a
\* session that was taken over.
LeaseUntilDetach ==
    \A s \in Sessions :
        /\ lease.owner = s <=> standing[s] \notin {"new", "gone"}
        /\ revoked[s] <= 1
        /\ revoked[s] = 1 => standing[s] \in {"taken", "gone"}

\* Only who is in control has an effect: the session that activated control,
\* until it is taken over or detaches, and otherwise Web clients.
OnlyController ==
    [][appliedAt' # appliedAt =>
         LET c == reply'.command
             controllers == {s \in Sessions : standing[s] = "remote"}
         IN  IF c.origin = "Scpi" THEN controllers = {c.session}
             ELSE controllers = {}]_vars

\* A session that is taken over is told so.
TakenIsRevoked ==
    \A s \in Sessions : (standing[s] = "taken") ~> (revoked[s] = 1)
===============================================================================
