--------------------------- MODULE CommandBus_proofs ---------------------------
(***************************************************************************)
(* What the bus guarantees for any sessions, threads, commands and any     *)
(* capacity of the ring.                                                   *)
(*                                                                         *)
(* The bus is leased to one session from its attach to its detach.         *)
(* LeaseUntilDetach is not inductive: that a revoker is called at most     *)
(* once rests on the threads that are about to call one.  LeaseInv adds    *)
(* where the owner of each kind of lease stands (OwnerStands) and that     *)
(* each thread with a revoker to call has a session of its own, taken over *)
(* and not revoked yet (RevokersOwed).                                     *)
(*                                                                         *)
(* A command has one effect and one answer while it is retained.  RingInv  *)
(* says which slot holds which answer, by the age of the slot.             *)
(*                                                                         *)
(* A revision names one state, and only who is in control has an effect.   *)
(* ControlInv ties the lease to the session in control, and the revision   *)
(* there is to the state shown with it.                                    *)
(***************************************************************************)
EXTENDS CommandBus, TLAPS

Kinds == {"None", "Attached", "Remote", "Revoking"}
Standings == {"new", "attached", "remote", "taken", "gone"}
Calls == [step : {"idle", "settle", "revoke"}, session : Sessions \cup {NoSession}]

LeaseTypes ==
    /\ lease \in [kind : Kinds, owner : Sessions \cup {NoSession}]
    /\ call \in [Threads -> Calls]
    /\ standing \in [Sessions -> Standings]
    /\ revoked \in [Sessions -> Nat]

OwnerStands ==
    /\ lease.kind = "None" <=> lease.owner = NoSession
    /\ lease.kind \in {"Attached", "Remote"} =>
           standing[lease.owner] \in {"attached", "remote"}

Revoking(t) == call[t].step = "revoke"

RevokersOwed ==
    /\ \A t \in Threads : Revoking(t) =>
           /\ call[t].session \in Sessions
           /\ standing[call[t].session] \in {"taken", "gone"}
           /\ revoked[call[t].session] = 0
    /\ \A t, u \in Threads :
           Revoking(t) /\ Revoking(u) /\ t # u => call[t].session # call[u].session

LeaseInv == LeaseTypes /\ LeaseUntilDetach /\ OwnerStands /\ RevokersOwed

leaseVars == <<lease, call, standing, revoked>>

-------------------------------------------------------------------------------
(* A step that begins or ends no lease and calls no revoker keeps all four. *)

LEMMA LeaseInit == Init => LeaseInv
<1>1. SUFFICES ASSUME Init PROVE LeaseInv
  OBVIOUS
<1>2. LeaseTypes
  BY <1>1 DEF Init, LeaseTypes, Kinds, Standings, Calls, NoLease, Idle, NoSession
<1>3. LeaseUntilDetach
  BY <1>1, SessionsAssumption DEF Init, LeaseUntilDetach, NoLease
<1>4. OwnerStands
  BY <1>1 DEF Init, OwnerStands, NoLease
<1>5. RevokersOwed
  BY <1>1 DEF Init, RevokersOwed, Revoking, Idle
<1>6. QED
  BY <1>2, <1>3, <1>4, <1>5 DEF LeaseInv

LEMMA LeaseUntouched ==
  ASSUME LeaseInv, UNCHANGED leaseVars PROVE LeaseInv'
BY DEF LeaseInv, leaseVars, LeaseTypes, LeaseUntilDetach, OwnerStands, RevokersOwed,
       Revoking

\* A call that begins or ends without being one of a revoker.
LEMMA LeaseOrdinaryCall ==
  ASSUME LeaseInv, NEW t \in Threads, NEW c \in Calls,
         ~Revoking(t), c.step # "revoke",
         call' = [call EXCEPT ![t] = c],
         UNCHANGED <<lease, standing, revoked>>
  PROVE  LeaseInv'
<1>1. /\ call' \in [Threads -> Calls]
      /\ \A u \in Threads : Revoking(u)' => u # t /\ Revoking(u) /\ call'[u] = call[u]
  BY DEF LeaseInv, LeaseTypes, Revoking
<1>2. LeaseTypes'
  BY <1>1 DEF LeaseInv, LeaseTypes
<1>3. LeaseUntilDetach' /\ OwnerStands'
  BY DEF LeaseInv, LeaseUntilDetach, OwnerStands
<1>4. RevokersOwed'
  BY <1>1 DEF LeaseInv, RevokersOwed
<1>5. QED
  BY <1>2, <1>3, <1>4 DEF LeaseInv

LEMMA IdleIsACall == Idle \in Calls /\ Idle.step # "revoke"
BY DEF Idle, Calls, NoSession

\* Of the outcomes of a dispatch only an admitted Restart leaves something to do.
LEMMA LeaseDispatch ==
  ASSUME LeaseInv, NEW t \in Threads, NEW c \in Commands, Dispatch(t, c)
  PROVE  LeaseInv'
<1>1. CASE Restart(t, c)
  <2> DEFINE settle == [step |-> "settle", session |-> NoSession]
  <2>1. settle \in Calls /\ settle.step # "revoke"
    BY DEF Calls
  <2>2. /\ ~Revoking(t)
        /\ call' = [call EXCEPT ![t] = settle]
        /\ UNCHANGED <<lease, standing, revoked>>
    BY <1>1 DEF Restart, Passes, MaySend, Revoking, Idle, sessionVars
  <2>3. QED
    BY <2>1, <2>2, LeaseOrdinaryCall
<1>2. CASE ~Restart(t, c)
  <2>1. UNCHANGED leaseVars
    BY <1>2 DEF Dispatch, Refuse, Replay, Conflict, Invalid, Unchanged, Configure,
                ConfigureRefused, RestartRefused, Fails, leaseVars, sessionVars
  <2>2. QED
    BY <2>1, LeaseUntouched
<1>3. QED
  BY <1>1, <1>2

LEMMA LeaseSettle ==
  ASSUME LeaseInv, NEW t \in Threads, Settle(t) PROVE LeaseInv'
<1>1. /\ ~Revoking(t)
      /\ call' = [call EXCEPT ![t] = Idle]
      /\ UNCHANGED <<lease, standing, revoked>>
  BY DEF Settle, Revoking, sessionVars
<1>2. QED
  BY <1>1, IdleIsACall, LeaseOrdinaryCall

-------------------------------------------------------------------------------
(* The steps of a lease.                                                    *)

LEMMA LeaseAttach ==
  ASSUME LeaseInv, NEW s \in Sessions, Attach(s) PROVE LeaseInv'
<1>1. /\ standing[s] = "new" /\ lease.kind = "None" /\ lease.owner = NoSession
      /\ lease' = [kind |-> "Attached", owner |-> s]
      /\ standing' = [standing EXCEPT ![s] = "attached"]
      /\ UNCHANGED <<call, revoked>>
  BY DEF Attach, MayAttach, LeaseInv, OwnerStands
<1>2. LeaseTypes'
  BY <1>1 DEF LeaseInv, LeaseTypes, Kinds, Standings
<1>3. LeaseUntilDetach'
  <2> SUFFICES ASSUME NEW r \in Sessions
               PROVE  /\ lease'.owner = r <=> standing'[r] \notin {"new", "gone"}
                      /\ revoked'[r] <= 1
                      /\ revoked'[r] = 1 => standing'[r] \in {"taken", "gone"}
    BY DEF LeaseUntilDetach
  <2>1. CASE r = s
    BY <1>1, <2>1 DEF LeaseInv, LeaseTypes, LeaseUntilDetach
  <2>2. CASE r # s
    BY <1>1, <2>2, SessionsAssumption DEF LeaseInv, LeaseTypes, LeaseUntilDetach
  <2>3. QED
    BY <2>1, <2>2
<1>4. OwnerStands'
  BY <1>1, SessionsAssumption DEF LeaseInv, LeaseTypes, OwnerStands
<1>5. RevokersOwed'
  BY <1>1 DEF LeaseInv, LeaseTypes, RevokersOwed, Revoking
<1>6. QED
  BY <1>2, <1>3, <1>4, <1>5 DEF LeaseInv

LEMMA LeaseActivate ==
  ASSUME LeaseInv, NEW s \in Sessions, Activate(s) PROVE LeaseInv'
<1>1. /\ lease.kind = "Attached" /\ lease.owner = s
      /\ lease' = [lease EXCEPT !.kind = "Remote"]
      /\ standing' = [standing EXCEPT ![s] = "remote"]
      /\ UNCHANGED <<call, revoked>>
  BY DEF Activate
<1>2. standing[s] \in {"attached", "remote"}
  BY <1>1 DEF LeaseInv, OwnerStands
<1>3. LeaseTypes' /\ lease'.owner = s /\ lease'.kind = "Remote"
  BY <1>1 DEF LeaseInv, LeaseTypes, Kinds, Standings
<1>4. LeaseUntilDetach'
  BY <1>1, <1>2, <1>3 DEF LeaseInv, LeaseTypes, LeaseUntilDetach
<1>5. OwnerStands'
  BY <1>1, <1>3, SessionsAssumption DEF LeaseInv, LeaseTypes, OwnerStands
<1>6. RevokersOwed'
  BY <1>1, <1>2 DEF LeaseInv, LeaseTypes, RevokersOwed, Revoking
<1>7. QED
  BY <1>3, <1>4, <1>5, <1>6 DEF LeaseInv

LEMMA LeaseDetach ==
  ASSUME LeaseInv, NEW s \in Sessions, Detach(s) PROVE LeaseInv'
<1>1. /\ standing[s] \notin {"new", "gone"} /\ lease.owner = s
      /\ lease' = NoLease
      /\ standing' = [standing EXCEPT ![s] = "gone"]
      /\ UNCHANGED <<call, revoked>>
  BY DEF Detach, LeaseInv, LeaseUntilDetach
<1>2. LeaseTypes'
  BY <1>1 DEF LeaseInv, LeaseTypes, Kinds, Standings, NoLease
<1>3. LeaseUntilDetach'
  BY <1>1, SessionsAssumption DEF LeaseInv, LeaseTypes, LeaseUntilDetach, NoLease
<1>4. OwnerStands'
  BY <1>1 DEF OwnerStands, NoLease
<1>5. RevokersOwed'
  BY <1>1 DEF LeaseInv, LeaseTypes, RevokersOwed, Revoking
<1>6. QED
  BY <1>2, <1>3, <1>4, <1>5 DEF LeaseInv

\* The session taken over has not been revoked, and nobody is about to: it still
\* stood as attached or remote.
LEMMA LeaseTaken ==
  ASSUME LeaseInv, NEW t \in Threads, TakeLocal(t) PROVE LeaseInv'
<1> DEFINE s == lease.owner
           revoke == [step |-> "revoke", session |-> s]
<1>1. /\ lease.kind \in {"Attached", "Remote"} /\ ~Revoking(t)
      /\ lease' = [lease EXCEPT !.kind = "Revoking"]
      /\ standing' = [standing EXCEPT ![s] = "taken"]
      /\ call' = [call EXCEPT ![t] = revoke]
      /\ UNCHANGED revoked
  BY DEF TakeLocal, InvokesRevoker, Revoking, Idle
<1>2. s \in Sessions /\ standing[s] \in {"attached", "remote"}
  BY <1>1 DEF LeaseInv, LeaseTypes, OwnerStands
<1>3. revoked[s] = 0 /\ \A u \in Threads : Revoking(u) => call[u].session # s
  BY <1>2 DEF LeaseInv, LeaseTypes, LeaseUntilDetach, RevokersOwed
<1>4. LeaseTypes' /\ lease'.owner = s /\ lease'.kind = "Revoking"
  BY <1>1, <1>2 DEF LeaseInv, LeaseTypes, Kinds, Standings, Calls
<1>5. LeaseUntilDetach'
  BY <1>1, <1>2, <1>3, <1>4 DEF LeaseInv, LeaseTypes, LeaseUntilDetach
<1>6. OwnerStands'
  BY <1>2, <1>4, SessionsAssumption DEF OwnerStands
<1>7. RevokersOwed'
  <2>1. \A u \in Threads \ {t} : call'[u] = call[u]
    BY <1>1 DEF LeaseInv, LeaseTypes
  <2>2. call'[t] = revoke /\ \A r \in Sessions \ {s} : standing'[r] = standing[r]
    BY <1>1 DEF LeaseInv, LeaseTypes
  <2>3. standing'[s] = "taken"
    BY <1>1, <1>2 DEF LeaseInv, LeaseTypes
  <2>4. QED
    BY <1>1, <1>2, <1>3, <2>1, <2>2, <2>3 DEF LeaseInv, RevokersOwed, Revoking
<1>8. QED
  BY <1>4, <1>5, <1>6, <1>7 DEF LeaseInv

\* It owed the call alone, so that nobody owes it another one.
LEMMA LeaseRevoke ==
  ASSUME LeaseInv, NEW t \in Threads, Revoke(t) PROVE LeaseInv'
<1> DEFINE s == call[t].session
<1>1. /\ Revoking(t)
      /\ revoked' = [revoked EXCEPT ![s] = @ + 1]
      /\ call' = [call EXCEPT ![t] = Idle]
      /\ UNCHANGED <<lease, standing>>
  BY DEF Revoke, Revoking
<1>2. s \in Sessions /\ standing[s] \in {"taken", "gone"} /\ revoked[s] = 0
  BY <1>1 DEF LeaseInv, RevokersOwed
<1>3. revoked'[s] = 1 /\ \A r \in Sessions \ {s} : revoked'[r] = revoked[r]
  BY <1>1, <1>2 DEF LeaseInv, LeaseTypes
<1>4. LeaseTypes'
  BY <1>1, <1>2, <1>3, IdleIsACall DEF LeaseInv, LeaseTypes
<1>5. LeaseUntilDetach' /\ OwnerStands'
  BY <1>1, <1>2, <1>3 DEF LeaseInv, LeaseUntilDetach, OwnerStands
<1>6. RevokersOwed'
  <2>1. \A u \in Threads : Revoking(u)' => u # t /\ Revoking(u) /\ call'[u] = call[u]
    BY <1>1, IdleIsACall DEF LeaseInv, LeaseTypes, Revoking
  <2>2. \A u \in Threads : Revoking(u)' => call'[u].session # s
    BY <1>1, <2>1 DEF LeaseInv, RevokersOwed
  <2>3. QED
    BY <1>1, <1>3, <2>1, <2>2 DEF LeaseInv, RevokersOwed
<1>7. QED
  BY <1>4, <1>5, <1>6 DEF LeaseInv

LEMMA LeaseStep == LeaseInv /\ [Next]_vars => LeaseInv'
<1> SUFFICES ASSUME LeaseInv, [Next]_vars PROVE LeaseInv'
  OBVIOUS
<1>1. CASE \E t \in Threads : \E c \in Commands : Dispatch(t, c)
  BY <1>1, LeaseDispatch
<1>2. CASE \E t \in Threads : Settle(t) \/ Revoke(t)
  BY <1>2, LeaseSettle, LeaseRevoke
<1>3. CASE \E s \in Sessions : Attach(s) \/ Activate(s) \/ Detach(s)
  BY <1>3, LeaseAttach, LeaseActivate, LeaseDetach
<1>4. CASE \E t \in Takers : TakeLocal(t)
  BY <1>4, LeaseTaken DEF Threads
<1>5. CASE RuntimeCloses \/ UNCHANGED vars
  BY <1>5, LeaseUntouched DEF RuntimeCloses, vars, leaseVars, sessionVars
<1>6. QED
  BY <1>1, <1>2, <1>3, <1>4, <1>5 DEF Next

\* For any sessions, threads and commands the bus is leased to a session exactly
\* from its attach to its detach, through revocation as well, and a revoker is
\* called at most once and only for a session that was taken over
\* (ControlAuthority, control_authority.cpp).
THEOREM LeaseCorrect == Spec => []LeaseUntilDetach
<1>1. LeaseInv => LeaseUntilDetach
  BY DEF LeaseInv
<1>2. QED
  BY <1>1, LeaseInit, LeaseStep, PTL DEF Spec
-------------------------------------------------------------------------------
(* The ring.  What it holds is told by the age of a slot: how many answers *)
(* ago it was written.                                                      *)

Age(i) == IF i < nextEntry THEN nextEntry - i ELSE nextEntry - i + Capacity
Holds(i, c, result) == entries[i] = [command |-> c, result |-> result]

RingTypes ==
    /\ revision \in Nat /\ config \in Values
    /\ entries \in [Slots -> AnswerType \cup {NoEntry}] /\ nextEntry \in Slots
    /\ runtime \in {"Running", "Closed"} /\ admitted \in Nat
    /\ reply \in AnswerType \cup {NoReply}
    /\ answers \in Nat
    /\ log \subseteq [at : Nat, command : Commands, result : Results]
    /\ appliedAt \in [Keys -> Nat]

\* One slot per key, and only commands for this instrument.
UniqueKeys ==
    /\ \A i, j \in Slots :
           /\ entries[i] # NoEntry /\ entries[j] # NoEntry
           /\ Key(entries[i].command) = Key(entries[j].command)
           => i = j
    /\ \A i \in Slots : entries[i] # NoEntry => entries[i].command.instrument = Instrument

\* The last Capacity answers are where their age says.
LogRetained ==
    \A r \in log : \E i \in Slots :
        r.at = answers + 1 - Age(i) /\ Holds(i, r.command, r.result)

\* So are those of the last effects, as long as they are among them.
EffectsRetained ==
    \A k \in Keys :
        /\ appliedAt[k] <= answers
        /\ appliedAt[k] # 0 /\ appliedAt[k] > answers - Capacity =>
               \E i \in Slots :
                   /\ appliedAt[k] = answers + 1 - Age(i)
                   /\ entries[i] # NoEntry /\ Key(entries[i].command) = k

RingInv == RingTypes /\ UniqueKeys /\ LogRetained /\ EffectsRetained

LEMMA AgeBounds ==
  ASSUME nextEntry \in Slots, NEW i \in Slots
  PROVE  Age(i) \in 1..Capacity /\ (Age(i) = Capacity <=> i = nextEntry)
BY CapacityAssumption DEF Age, Slots

LEMMA AgeAdvances ==
  ASSUME nextEntry \in Slots, nextEntry' = Advance(nextEntry)
  PROVE  /\ nextEntry' \in Slots
         /\ \A i \in Slots : Age(i)' = IF i = nextEntry THEN 1 ELSE Age(i) + 1
BY CapacityAssumption DEF Age, Slots, Advance

LEMMA EntryIsAnAnswer ==
  ASSUME RingTypes, NEW i \in Slots, entries[i] # NoEntry
  PROVE  entries[i] \in AnswerType
BY DEF RingTypes

LEMMA ResultIsAResult ==
  /\ \A at \in Nat, outcome \in Outcomes, value \in Nat : Result(at, outcome, value) \in Results
  /\ \A outcome \in Outcomes : revision \in Nat => Failed(outcome) \in Results
BY DEF Result, Results, Failed, NoOp

\* Of one key there is one slot, which is the one lookup takes.
LEMMA EntryIsTheOne ==
  ASSUME RingInv, NEW c \in Commands, NEW i \in Found(c)
  PROVE  Entry(c) = entries[i] /\ entries[i] \in AnswerType
<1>1. Found(c) = {i}
  BY DEF RingInv, UniqueKeys, Found
<1>2. \A j \in Found(c) : i <= j
  BY <1>1, CapacityAssumption DEF Found, Slots
<1>3. (CHOOSE k \in Found(c) : \A j \in Found(c) : k <= j) = i
  BY <1>1, <1>2
<1>4. i \in Slots /\ entries[i] # NoEntry
  BY DEF Found
<1>5. QED
  BY <1>3, <1>4, EntryIsAnAnswer DEF Entry, RingInv

LEMMA RingInit == Init => RingInv
<1>1. SUFFICES ASSUME Init PROVE RingInv
  OBVIOUS
<1>2. RingTypes
  BY <1>1, CapacityAssumption, ValuesAssumption DEF Init, RingTypes, Slots
<1>3. UniqueKeys /\ LogRetained
  BY <1>1 DEF Init, UniqueKeys, LogRetained
<1>4. EffectsRetained
  BY <1>1 DEF Init, EffectsRetained
<1>5. QED
  BY <1>2, <1>3, <1>4 DEF RingInv

-------------------------------------------------------------------------------
(* A dispatch leaves the ring alone or remembers the answer to a command    *)
(* that was not found.                                                      *)

Quiet == UNCHANGED <<ringVars, answerVars, appliedAt>>

Remembers(c, result) ==
    /\ Found(c) = {} /\ c.instrument = Instrument
    /\ Remember(c, result) /\ Answer(c, result)
    /\ Applied(c) \/ UNCHANGED appliedAt

LEMMA DispatchKinds ==
  ASSUME RingInv, NEW t \in Threads, NEW c \in Commands, Dispatch(t, c)
  PROVE  /\ reply'.command = c /\ reply' \in AnswerType
         /\ \/ Quiet
            \/ \E result \in Results : Remembers(c, result)
<1>1. revision \in Nat /\ admitted \in Nat
  BY DEF RingInv, RingTypes
<1>2. \A result \in Results : Answer(c, result) =>
          reply'.command = c /\ reply' \in AnswerType
  BY DEF Answer, AnswerType
<1>3. CASE Refuse(t, c)
  <2>1. Refusal(c) \in Outcomes
    BY DEF Refusal, Outcomes
  <2>2. QED
    BY <1>1, <1>2, <1>3, <2>1, ResultIsAResult DEF Refuse, Quiet
<1>4. CASE Replay(t, c)
  <2>1. Entry(c) \in AnswerType
    BY <1>4, EntryIsTheOne DEF Replay, Replayed
  <2>2. Entry(c).result \in Results
    BY <2>1 DEF AnswerType
  <2>3. QED
    BY <1>2, <1>4, <2>2 DEF Replay, Quiet
<1>5. ASSUME NEW outcome \in Outcomes, NEW remembered \in BOOLEAN,
             Passes(t, c), Fails(c, outcome, remembered)
      PROVE  /\ reply'.command = c /\ reply' \in AnswerType
             /\ Quiet \/ \E result \in Results : Remembers(c, result)
  <2>1. Failed(outcome) \in Results
    BY <1>1, ResultIsAResult
  <2>2. QED
    BY <1>2, <1>5, <2>1 DEF Fails, Passes, Quiet, Remembers
<1>6. CASE Conflict(t, c) \/ Invalid(t, c) \/ ConfigureRefused(t, c) \/ RestartRefused(t, c)
  <2>1. {"StateRevisionConflict", "DomainError", "ResourceBusy",
         "TraceConfigurationRejected", "UnsupportedSweepConfiguration"} \subseteq Outcomes
    BY DEF Outcomes
  <2>2. QED
    BY <1>5, <1>6, <2>1 DEF Conflict, Invalid, ConfigureRefused, RestartRefused
<1>7. CASE Unchanged(t, c)
  <2>1. Result(revision, "success", NoOp) \in Results
    BY <1>1, ResultIsAResult DEF Outcomes, NoOp
  <2>2. QED
    BY <1>2, <1>7, <2>1 DEF Unchanged, Passes, Remembers
<1>8. CASE Configure(t, c)
  <2>1. Result(revision + 1, "success", NoOp) \in Results
    BY <1>1, ResultIsAResult DEF Outcomes, NoOp
  <2>2. QED
    BY <1>2, <1>8, <2>1 DEF Configure, Passes, Remembers
<1>9. CASE Restart(t, c)
  <2>1. Result(revision, "success", admitted + 1) \in Results
    BY <1>1, ResultIsAResult DEF Outcomes
  <2>2. QED
    BY <1>2, <1>9, <2>1 DEF Restart, Passes, Remembers
<1>10. QED
  BY <1>3, <1>4, <1>6, <1>7, <1>8, <1>9 DEF Dispatch

\* The rest of a dispatch's effects.
LEMMA DispatchTypes ==
  ASSUME RingTypes, NEW t \in Threads, NEW c \in Commands, Dispatch(t, c)
  PROVE  /\ revision' \in Nat /\ config' \in Values /\ admitted' \in Nat
         /\ runtime' = runtime
BY CommandsAssumption
DEF Dispatch, Refuse, Replay, Conflict, Invalid, Unchanged, Configure, ConfigureRefused,
    Restart, RestartRefused, Fails, NewRevision, stateVars, RingTypes

LEMMA RingQuiet ==
  ASSUME RingInv, Quiet,
         revision' \in Nat, config' \in Values, runtime' \in {"Running", "Closed"},
         admitted' \in Nat, reply' \in AnswerType \cup {NoReply}
  PROVE  RingInv'
BY DEF RingInv, Quiet, ringVars, answerVars, RingTypes, UniqueKeys, LogRetained,
       EffectsRetained, Age, Holds

\* What the new entry overwrites is the oldest one.
LEMMA RingRemembers ==
  ASSUME RingInv, NEW c \in Commands, NEW result \in Results, Remembers(c, result),
         revision' \in Nat, config' \in Values, runtime' \in {"Running", "Closed"},
         admitted' \in Nat
  PROVE  RingInv'
<1> DEFINE new == [command |-> c, result |-> result]
<1>1. /\ answers' = answers + 1
      /\ log' = {r \in log : r.at > answers + 1 - Capacity}
                    \cup {[at |-> answers + 1, command |-> c, result |-> result]}
      /\ entries' = [entries EXCEPT ![nextEntry] = new]
      /\ nextEntry' = Advance(nextEntry)
      /\ reply' = new
  BY DEF Remembers, Remember, Logged, Stored, Answer
<1>2. /\ nextEntry \in Slots /\ answers \in Nat
      /\ new \in AnswerType /\ new # NoEntry
      /\ new.command = c /\ new.result = result
  BY CommandsAssumption DEF RingInv, RingTypes, AnswerType
<1>3. /\ nextEntry' \in Slots
      /\ \A i \in Slots : Age(i)' = IF i = nextEntry THEN 1 ELSE Age(i) + 1
  BY <1>1, <1>2, AgeAdvances
<1>4. /\ entries'[nextEntry] = new
      /\ \A i \in Slots \ {nextEntry} : entries'[i] = entries[i]
  BY <1>1, <1>2 DEF RingInv, RingTypes
<1>5. RingTypes'
  <2>1. appliedAt' \in [Keys -> Nat]
    BY <1>2 DEF Remembers, Applied, RingInv, RingTypes
  <2>2. log' \subseteq [at : Nat, command : Commands, result : Results]
    BY <1>1, <1>2 DEF RingInv, RingTypes
  <2>3. entries' \in [Slots -> AnswerType \cup {NoEntry}]
    BY <1>1, <1>2 DEF RingInv, RingTypes
  <2>4. QED
    BY <1>1, <1>2, <1>3, <2>1, <2>2, <2>3 DEF RingTypes
<1>6. UniqueKeys'
  <2>1. \A i \in Slots : entries[i] # NoEntry => Key(entries[i].command) # Key(c)
    BY DEF Remembers, Found
  <2>2. c.instrument = Instrument
    BY DEF Remembers
  <2>3. QED
    BY <1>2, <1>4, <2>1, <2>2 DEF RingInv, UniqueKeys, Key
<1>7. LogRetained'
  <2>1. SUFFICES ASSUME NEW r \in log'
                 PROVE  \E i \in Slots :
                            r.at = answers' + 1 - Age(i)' /\ Holds(i, r.command, r.result)'
    BY DEF LogRetained
  <2>2. CASE r = [at |-> answers + 1, command |-> c, result |-> result]
    BY <1>1, <1>2, <1>3, <1>4, <2>2 DEF Holds
  <2>3. CASE r \in log /\ r.at > answers + 1 - Capacity
    <3>1. PICK i \in Slots : r.at = answers + 1 - Age(i) /\ Holds(i, r.command, r.result)
      BY <2>3 DEF RingInv, LogRetained
    <3>2. Age(i) \in 1..Capacity /\ (Age(i) = Capacity <=> i = nextEntry)
      BY <1>2, AgeBounds
    <3>3. i # nextEntry
      BY <1>2, <2>3, <3>1, <3>2, CapacityAssumption
    <3>4. QED
      BY <1>1, <1>2, <1>3, <1>4, <3>1, <3>2, <3>3, CapacityAssumption DEF Holds
  <2>4. QED
    BY <1>1, <2>1, <2>2, <2>3
<1>8. EffectsRetained'
  <2>1. SUFFICES ASSUME NEW k \in Keys
                 PROVE  /\ appliedAt'[k] <= answers'
                        /\ appliedAt'[k] # 0 /\ appliedAt'[k] > answers' - Capacity =>
                               \E i \in Slots :
                                   /\ appliedAt'[k] = answers' + 1 - Age(i)'
                                   /\ entries'[i] # NoEntry /\ Key(entries'[i].command) = k
    BY DEF EffectsRetained, Key
  <2>2. CASE appliedAt'[k] = answers + 1 /\ k = Key(c)
    BY <1>1, <1>2, <1>3, <1>4, <2>2
  <2>3. CASE appliedAt'[k] = appliedAt[k]
    <3>1. appliedAt[k] \in Nat /\ appliedAt[k] <= answers
      BY DEF RingInv, RingTypes, EffectsRetained
    <3>2. CASE appliedAt[k] # 0 /\ appliedAt[k] > answers + 1 - Capacity
      <4>1. PICK i \in Slots : /\ appliedAt[k] = answers + 1 - Age(i)
                               /\ entries[i] # NoEntry /\ Key(entries[i].command) = k
        BY <1>2, <3>1, <3>2, CapacityAssumption DEF RingInv, EffectsRetained
      <4>2. Age(i) \in 1..Capacity /\ (Age(i) = Capacity <=> i = nextEntry)
        BY <1>2, AgeBounds
      <4>3. i # nextEntry
        BY <1>2, <3>2, <4>1, <4>2, CapacityAssumption
      <4>4. QED
        BY <1>1, <1>2, <1>3, <1>4, <2>3, <3>1, <4>1, <4>2, <4>3, CapacityAssumption
    <3>3. QED
      BY <1>1, <1>2, <2>3, <3>1, <3>2, CapacityAssumption
  <2>4. QED
    BY <2>2, <2>3 DEF Remembers, Applied, RingInv, RingTypes
<1>9. QED
  BY <1>5, <1>6, <1>7, <1>8 DEF RingInv

LEMMA RingStep == RingInv /\ [Next]_vars => RingInv'
<1> SUFFICES ASSUME RingInv, [Next]_vars PROVE RingInv'
  OBVIOUS
<1>1. ASSUME NEW t \in Threads, NEW c \in Commands, Dispatch(t, c) PROVE RingInv'
  <2>1. /\ revision' \in Nat /\ config' \in Values /\ admitted' \in Nat
        /\ runtime' \in {"Running", "Closed"}
    BY <1>1, DispatchTypes DEF RingInv, RingTypes
  <2>2. QED
    BY <1>1, <2>1, DispatchKinds, RingQuiet, RingRemembers
<1>2. CASE UNCHANGED vars
  BY <1>2, RingQuiet DEF vars, stateVars, Quiet, RingInv, RingTypes
<1>3. CASE ~ \E t \in Threads : \E c \in Commands : Dispatch(t, c)
  <2>1. CASE Next
    <3>1. /\ Quiet /\ reply' = NoReply /\ admitted' = admitted /\ config' = config
          /\ runtime' \in {runtime, "Closed"}
          /\ revision' \in {revision, revision + 1}
      BY <1>3, <2>1
      DEF Next, Settle, Revoke, Attach, Activate, Detach, TakeLocal, Taken, RuntimeCloses,
          NewRevision, SameRevision, Silent, Quiet, stateVars, ringVars, answerVars
    <3>2. QED
      BY <3>1, RingQuiet DEF RingInv, RingTypes
  <2>2. QED
    BY <1>2, <2>1
<1>4. QED
  BY <1>1, <1>3

\* The variables of the bus keep their types: the answers it remembers and gives are
\* answers to commands, and the slot it writes next is one of the ring.
THEOREM BusTypes == Spec => []TypeOK
<1>1. LeaseInv /\ RingInv => TypeOK
  BY DEF LeaseInv, LeaseTypes, RingInv, RingTypes, TypeOK, Kinds, Calls, Standings
<1>2. QED
  BY <1>1, LeaseInit, LeaseStep, RingInit, RingStep, PTL DEF Spec

\* For any capacity and any number of senders a command has a second effect only
\* when Capacity further answers have been remembered since the first.
THEOREM EffectsOnce == Spec => AtMostOnce
<1> DEFINE Once == \A k \in Keys :
               appliedAt'[k] # appliedAt[k] /\ appliedAt[k] # 0 =>
                   appliedAt'[k] > appliedAt[k] + Capacity
<1>1. ASSUME RingInv, [Next]_vars PROVE [Once]_vars
  <2>1. ASSUME NEW t \in Threads, NEW c \in Commands, Dispatch(t, c) PROVE Once
    <3>1. CASE Quiet
      BY <3>1 DEF Quiet
    <3>2. ASSUME NEW result \in Results, Remembers(c, result) PROVE Once
      <4>1. SUFFICES ASSUME NEW k \in Keys, appliedAt'[k] # appliedAt[k], appliedAt[k] # 0
                     PROVE  appliedAt'[k] > appliedAt[k] + Capacity
        OBVIOUS
      <4>2. appliedAt'[k] = answers + 1 /\ k = Key(c)
        BY <1>1, <3>2, <4>1 DEF Remembers, Applied, RingInv, RingTypes
      <4>3. appliedAt[k] <= answers - Capacity
        BY <1>1, <3>2, <4>1, <4>2, CapacityAssumption
        DEF RingInv, RingTypes, EffectsRetained, Remembers, Found
      <4>4. QED
        BY <1>1, <4>2, <4>3, CapacityAssumption DEF RingInv, RingTypes
    <3>3. QED
      BY <1>1, <2>1, <3>1, <3>2, DispatchKinds
  <2>2. CASE ~ \E t \in Threads : \E c \in Commands : Dispatch(t, c)
    <3>1. appliedAt' = appliedAt
      BY <1>1, <2>2
      DEF Next, Settle, Revoke, Attach, Activate, Detach, TakeLocal, RuntimeCloses, vars
    <3>2. QED
      BY <3>1
  <2>3. QED
    BY <2>1, <2>2
<1>2. QED
  BY <1>1, RingInit, RingStep, PTL DEF Spec, AtMostOnce

\* For any capacity, whoever sends a command again and whoever is in control by then,
\* the answer is the one that was remembered, while it is among the last Capacity.
THEOREM AnswersRepeat == Spec => SameAnswer
<1> DEFINE Same == \A r \in log : reply'.command = r.command => reply'.result = r.result
<1>1. ASSUME RingInv, [Next]_vars PROVE [Same]_vars
  <2>1. ASSUME NEW t \in Threads, NEW c \in Commands, Dispatch(t, c) PROVE Same
    <3>1. SUFFICES ASSUME NEW r \in log, reply'.command = r.command
                   PROVE  reply'.result = r.result
      OBVIOUS
    <3>2. r.command = c
      BY <1>1, <2>1, <3>1, DispatchKinds
    <3>3. PICK i \in Slots : Holds(i, c, r.result)
      BY <1>1, <3>2 DEF RingInv, LogRetained
    <3>4. entries[i] # NoEntry /\ entries[i].command = c /\ entries[i].result = r.result
      <4>1. [command |-> c, result |-> r.result] \in AnswerType
        BY <1>1 DEF RingInv, RingTypes, AnswerType
      <4>2. QED
        BY <3>3, <4>1, CommandsAssumption DEF Holds
    <3>5. i \in Found(c) /\ c.instrument = Instrument
      BY <1>1, <3>4 DEF Found, RingInv, UniqueKeys
    <3>6. Entry(c) = entries[i]
      BY <1>1, <3>5, EntryIsTheOne
    <3>7. Replay(t, c)
      BY <2>1, <3>4, <3>5, <3>6
      DEF Dispatch, Refuse, Replayed, Conflict, Invalid, Unchanged, Configure,
          ConfigureRefused, Restart, RestartRefused, Passes
    <3>8. QED
      BY <3>4, <3>6, <3>7 DEF Replay, Answer
  <2>2. CASE ~ \E t \in Threads : \E c \in Commands : Dispatch(t, c)
    <3>1. UNCHANGED vars \/ reply' = NoReply
      BY <1>1, <2>2
      DEF Next, Settle, Revoke, Attach, Activate, Detach, TakeLocal, RuntimeCloses, Silent
    <3>2. \A r \in log : r.command \in Commands
      BY <1>1 DEF RingInv, RingTypes
    <3>3. QED
      BY <3>1, <3>2, CommandsAssumption DEF NoReply
  <2>3. QED
    BY <2>1, <2>2
<1>2. QED
  BY <1>1, RingInit, RingStep, PTL DEF Spec, SameAnswer
-------------------------------------------------------------------------------
(* Control and revisions.                                                   *)

\* Who is in control, and the state shown with the revision there is.
ControllerIsOwner ==
    \A s \in Sessions :
        standing[s] = "remote" <=> lease.kind = "Remote" /\ lease.owner = s

RevisionShown ==
    revision \in NamedRevisions => seen[revision] = [config |-> config, mode |-> Mode]

ControlInv == LeaseInv /\ ControllerIsOwner /\ RevisionShown

LEMMA ControlInit == Init => ControlInv
<1>1. SUFFICES ASSUME Init PROVE ControllerIsOwner /\ RevisionShown
  BY LeaseInit DEF ControlInv
<1>2. QED
  BY <1>1 DEF Init, ControllerIsOwner, RevisionShown, NoLease, Mode

\* Each step keeps the revision with what is shown under it, or takes the next one
\* and shows the state under that.
LEMMA RevisionStep ==
  ASSUME revision \in Nat, RevisionShown,
         \/ SameRevision /\ config' = config /\ Mode' = Mode
         \/ NewRevision(config', Mode')
  PROVE  RevisionShown'
<1>1. CASE SameRevision /\ config' = config /\ Mode' = Mode
  BY <1>1 DEF SameRevision, RevisionShown
<1>2. CASE NewRevision(config', Mode')
  <2>1. /\ revision' = revision + 1
        /\ seen' = [r \in NamedRevisions |->
               IF r = revision + 1 THEN [config |-> config', mode |-> Mode'] ELSE seen[r]]
    BY <1>2 DEF NewRevision
  <2>2. NamedRevisions' = NamedRevisions
    BY DEF NamedRevisions
  <2>3. revision' \in NamedRevisions => seen'[revision'] = [config |-> config', mode |-> Mode']
    BY <2>1
  <2>4. QED
    BY <2>2, <2>3 DEF RevisionShown
<1>3. QED
  BY <1>1, <1>2

LEMMA ControlDispatch ==
  ASSUME revision \in Nat, ControlInv, NEW t \in Threads, NEW c \in Commands, Dispatch(t, c)
  PROVE  ControllerIsOwner' /\ RevisionShown'
<1>1. UNCHANGED <<lease, standing>>
  BY DEF Dispatch, Refuse, Replay, Conflict, Invalid, Unchanged, Configure,
         ConfigureRefused, Restart, RestartRefused, Fails, sessionVars
<1>2. Mode' = Mode
  BY <1>1 DEF Mode
<1>3. (SameRevision /\ config' = config) \/ NewRevision(config', Mode)
  BY DEF Dispatch, Refuse, Replay, Conflict, Invalid, Unchanged, Configure,
         ConfigureRefused, Restart, RestartRefused, Fails, SameRevision, stateVars
<1>4. QED
  BY <1>1, <1>2, <1>3, RevisionStep DEF ControlInv, ControllerIsOwner

LEMMA ControlLease ==
  ASSUME revision \in Nat, ControlInv, NEW s \in Sessions, Attach(s) \/ Activate(s) \/ Detach(s)
  PROVE  ControllerIsOwner' /\ RevisionShown'
<1>1. CASE Attach(s)
  <2>1. SameRevision /\ config' = config /\ Mode' = Mode
    BY <1>1 DEF Attach, MayAttach, Mode, SameRevision, stateVars
  <2>2. ControllerIsOwner'
    BY <1>1 DEF Attach, MayAttach, ControlInv, LeaseInv, LeaseTypes, ControllerIsOwner
  <2>3. QED
    BY <2>1, <2>2, RevisionStep DEF ControlInv
<1>2. CASE Activate(s)
  <2>1. lease' = [kind |-> "Remote", owner |-> s]
    BY <1>2 DEF Activate
  <2>2. NewRevision(config', Mode')
    BY <1>2, <2>1 DEF Activate, Mode
  <2>3. ControllerIsOwner'
    BY <1>2, <2>1 DEF Activate, ControlInv, LeaseInv, LeaseTypes, ControllerIsOwner
  <2>4. QED
    BY <2>2, <2>3, RevisionStep DEF ControlInv
<1>3. CASE Detach(s)
  <2>1. lease.owner = s /\ lease' = NoLease
    BY <1>3 DEF Detach, ControlInv, LeaseInv, LeaseUntilDetach
  <2>2. (SameRevision /\ config' = config /\ Mode' = Mode) \/ NewRevision(config', Mode')
    BY <1>3, <2>1 DEF Detach, Mode, NoLease
  <2>3. ControllerIsOwner'
    BY <1>3, <2>1
    DEF Detach, ControlInv, LeaseInv, LeaseTypes, ControllerIsOwner, NoLease
  <2>4. QED
    BY <2>2, <2>3, RevisionStep DEF ControlInv
<1>4. QED
  BY <1>1, <1>2, <1>3

LEMMA ControlTaken ==
  ASSUME revision \in Nat, ControlInv, NEW t \in Threads, TakeLocal(t)
  PROVE  ControllerIsOwner' /\ RevisionShown'
<1>1. /\ lease.kind \in {"Attached", "Remote"} /\ lease.owner \in Sessions
      /\ lease' = [kind |-> "Revoking", owner |-> lease.owner]
      /\ standing' = [standing EXCEPT ![lease.owner] = "taken"]
  BY DEF TakeLocal, ControlInv, LeaseInv, LeaseTypes, OwnerStands
<1>2. (SameRevision /\ config' = config /\ Mode' = Mode) \/ NewRevision(config', Mode')
  BY <1>1 DEF TakeLocal, Taken, Mode
<1>3. ControllerIsOwner'
  BY <1>1 DEF ControlInv, LeaseInv, LeaseTypes, ControllerIsOwner
<1>4. QED
  BY <1>2, <1>3, RevisionStep DEF ControlInv

LEMMA ControlStep == revision \in Nat /\ ControlInv /\ [Next]_vars => ControlInv'
<1> SUFFICES ASSUME revision \in Nat, ControlInv, [Next]_vars
             PROVE  ControllerIsOwner' /\ RevisionShown'
  BY LeaseStep DEF ControlInv
<1>1. CASE \E t \in Threads : \E c \in Commands : Dispatch(t, c)
  BY <1>1, ControlDispatch
<1>2. CASE \E s \in Sessions : Attach(s) \/ Activate(s) \/ Detach(s)
  BY <1>2, ControlLease
<1>3. CASE \E t \in Takers : TakeLocal(t)
  BY <1>3, ControlTaken DEF Threads
<1>4. CASE \/ \E t \in Threads : Settle(t) \/ Revoke(t)
           \/ RuntimeCloses \/ UNCHANGED vars
  BY <1>4
  DEF Settle, Revoke, RuntimeCloses, vars, stateVars, sessionVars, ControlInv,
      ControllerIsOwner, RevisionShown, Mode
<1>5. QED
  BY <1>1, <1>2, <1>3, <1>4 DEF Next

\* An effect is that of a command that was expected and authorized.
LEMMA EffectPasses ==
  ASSUME RingInv, [Next]_vars, appliedAt' # appliedAt
  PROVE  \E t \in Threads : \E c \in Commands :
             reply'.command = c /\ Passes(t, c) /\ Expected(c)
<1>1. PICK t \in Threads, c \in Commands : Dispatch(t, c)
  BY DEF Next, Settle, Revoke, Attach, Activate, Detach, TakeLocal, RuntimeCloses, vars
<1>2. Passes(t, c) /\ Expected(c)
  BY <1>1
  DEF Dispatch, Refuse, Replay, Conflict, Invalid, Unchanged, Configure,
      ConfigureRefused, Restart, RestartRefused, Fails
<1>3. QED
  BY <1>1, <1>2, DispatchKinds

\* For any commands, sessions and threads: a command that names a revision has an
\* effect only on the state, mode included, that was shown with that revision.
THEOREM RevisionNamesState == Spec => ExpectedIsActual
<1> DEFINE Actual ==
        appliedAt' # appliedAt /\ reply'.command.expected # AnyRevision =>
            seen[reply'.command.expected] = [config |-> config, mode |-> Mode]
<1>1. ASSUME RingInv, ControlInv, [Next]_vars PROVE [Actual]_vars
  <2>1. SUFFICES ASSUME appliedAt' # appliedAt, reply'.command.expected # AnyRevision
                 PROVE  seen[reply'.command.expected] = [config |-> config, mode |-> Mode]
    OBVIOUS
  <2>2. PICK c \in Commands : reply'.command = c /\ Expected(c)
    BY <1>1, <2>1, EffectPasses
  <2>3. c.expected = revision /\ c.expected \in NamedRevisions
    BY <2>1, <2>2 DEF Expected, NamedRevisions
  <2>4. QED
    BY <1>1, <2>2, <2>3 DEF ControlInv, RevisionShown
<1>2. RingInv => revision \in Nat
  BY DEF RingInv, RingTypes
<1>3. QED
  BY <1>1, <1>2, RingInit, RingStep, ControlInit, ControlStep, PTL
  DEF Spec, ExpectedIsActual

\* For any sessions and threads: only the session that has activated control, until
\* it is taken over or detaches, and only Web clients when there is none, have an
\* effect (ControlAuthority::authorizes).
THEOREM ControllerOnly == Spec => OnlyController
<1> DEFINE Controller ==
        appliedAt' # appliedAt =>
            LET c == reply'.command
                controllers == {s \in Sessions : standing[s] = "remote"}
            IN  IF c.origin = "Scpi" THEN controllers = {c.session}
                ELSE controllers = {}
<1>1. ASSUME RingInv, ControlInv, [Next]_vars PROVE [Controller]_vars
  <2>1. SUFFICES ASSUME appliedAt' # appliedAt PROVE Controller
    OBVIOUS
  <2>2. PICK t \in Threads, c \in Commands : reply'.command = c /\ Passes(t, c)
    BY <1>1, <2>1, EffectPasses
  <2>3. Authorizes(c)
    BY <2>2 DEF Passes
  <2>4. lease.kind = "Remote" => lease.owner \in Sessions
    BY <1>1 DEF ControlInv, LeaseInv, LeaseTypes, OwnerStands
  <2>5. QED
    BY <1>1, <2>2, <2>3, <2>4 DEF ControlInv, ControllerIsOwner, Authorizes
<1>2. RingInv => revision \in Nat
  BY DEF RingInv, RingTypes
<1>3. QED
  BY <1>1, <1>2, RingInit, RingStep, ControlInit, ControlStep, PTL
  DEF Spec, OnlyController
===============================================================================
