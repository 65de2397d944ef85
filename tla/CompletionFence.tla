---------------------------- MODULE CompletionFence ----------------------------
(***************************************************************************)
(* OperationManager and its completion fences: threads create Operations,  *)
(* move them through their life cycle, capture fences over a session's     *)
(* unfinished Operations, subscribe callbacks to them and cancel the       *)
(* subscriptions; the owner destroys the manager.                          *)
(*                                                                         *)
(* Three kinds of mutex protect the state (manager, coordinator, one per   *)
(* subscription); an action is one critical section, or several where the  *)
(* outer mutex keeps every other thread out of them.  Callbacks run with   *)
(* none of them held.                                                      *)
(***************************************************************************)
EXTENDS Integers, FiniteSets, Operations

CONSTANTS
    Threads,          \* callers of the manager
    Sessions,         \* sessions that Operations are submitted by
    MaxOps,           \* bound: Operations ever created
    MaxSubscriptions, \* bound: fences ever captured
    Outcomes,         \* bound: the terminal outcomes that are told apart
    CallbackCancels   \* <<s, x>>: the callback of s may cancel subscription x

OpIds == 1..MaxOps
Subs == 1..MaxSubscriptions   \* numbered in the order of subscribe

ASSUME FenceBounds == MaxOps \in Nat /\ MaxSubscriptions \in Nat
ASSUME OutcomesAssumption == Outcomes \subseteq Terminal
ASSUME CallbackAssumption == CallbackCancels \subseteq Subs \X Subs

NoOp == 0
NoSub == 0
NoSession == "none"
NoThread == "nobody"
NoFence == [captured |-> {}, held |-> FALSE]
NoCall == [step |-> "idle", op |-> NoOp, sub |-> NoSub]

VARIABLES
    ops,            \* operations_: id -> state
    session,        \* operations_: id -> session
    phase,          \* FenceSubscriptionState: phase
    outstanding,    \* FenceSubscriptionState: outstandingIds
    callbackThread, \* FenceSubscriptionState: callbackThread
    registered,     \* FenceCoordinator: subscriptions, in the order of numbers
    shutdown,       \* FenceCoordinator: shutdown
    dying,          \* subscriptions the destructor still has to cancel
    fence,          \* per thread: the CompletionFence it holds
    handles,        \* subscriptions with a FenceSubscription in a caller's hands
    call,           \* per thread: where it is in complete or subscribe
    canceling,      \* per thread: the subscription it is inside cancel of
    captured,       \* history: what the fence of a subscription captured
    released        \* history: <<s, t>> when cancel of s has returned to t

managerVars == <<ops, session>>
subscriptionVars == <<phase, outstanding, callbackThread>>
destructionVars == <<shutdown, dying>>
vars == <<managerVars, subscriptionVars, registered, destructionVars, fence,
          handles, call, canceling, captured, released>>

Free(t) == call[t] = NoCall /\ canceling[t] = NoSub

-------------------------------------------------------------------------------
(* Operations.                                                              *)

Create(x) ==
    /\ ~shutdown
    /\ \E o \in OpIds :
         /\ ops[o] = "Absent" /\ \A p \in 1..(o - 1) : ops[p] # "Absent"
         /\ ops' = [ops EXCEPT ![o] = "Queued"]
         /\ session' = [session EXCEPT ![o] = x]
    /\ UNCHANGED <<subscriptionVars, registered, destructionVars, fence,
                   handles, call, canceling, captured, released>>

MarkRunning(o) ==
    /\ ~shutdown /\ CanMarkRunning(ops[o])
    /\ ops' = [ops EXCEPT ![o] = "Running"]
    /\ UNCHANGED <<session, subscriptionVars, registered, destructionVars,
                   fence, handles, call, canceling, captured, released>>

RequestCancel(o) ==
    /\ ~shutdown /\ CanRequestCancel(ops[o])
    /\ ops' = [ops EXCEPT ![o] = "CancelRequested"]
    /\ UNCHANGED <<session, subscriptionVars, registered, destructionVars,
                   fence, handles, call, canceling, captured, released>>

\* complete, up to the release of the manager's mutex; a refused transition
\* changes nothing.
Complete(t, o, outcome) ==
    /\ ~shutdown /\ Free(t)
    /\ CanComplete(ops[o], outcome)
    /\ ops' = [ops EXCEPT ![o] = outcome]
    /\ call' = [call EXCEPT ![t] = [step |-> "scan", op |-> o, sub |-> NoSub]]
    /\ UNCHANGED <<session, subscriptionVars, registered, destructionVars,
                   fence, handles, canceling, captured, released>>

-------------------------------------------------------------------------------
(* Delivery, on the thread that completed an Operation or subscribed.       *)

\* Subscriptions that wait for nothing but Operation o.
ReadyFor(o) ==
    {s \in registered : phase[s] = "Pending" /\ outstanding[s] \ {o} = {}}

\* claimNextTerminal erases o from what it looks at and drops what is no longer
\* pending.
Erased(o, seen) ==
    [s \in Subs |-> IF s \in seen THEN outstanding[s] \ {o} ELSE outstanding[s]]
Stale(seen) == {s \in seen : phase[s] # "Pending"}

\* It looks in order up to the first subscription that is ready, and claims it.
ClaimFirst(t) ==
    LET o == call[t].op IN
    /\ call[t].step = "scan"
    /\ \E s \in ReadyFor(o) :
         LET seen == {r \in registered : r <= s} IN
         /\ \A r \in ReadyFor(o) : s <= r
         /\ outstanding' = Erased(o, seen)
         /\ registered' = registered \ ({s} \cup Stale(seen))
         /\ phase' = [phase EXCEPT ![s] = "Claimed"]
         /\ call' = [call EXCEPT ![t].step = "claimed", ![t].sub = s]
    /\ UNCHANGED <<managerVars, callbackThread, destructionVars, fence, handles,
                   canceling, captured, released>>

\* Nothing is ready any more: complete returns.
CompleteReturns(t) ==
    LET o == call[t].op IN
    /\ call[t].step = "scan" /\ ReadyFor(o) = {}
    /\ outstanding' = Erased(o, registered)
    /\ registered' = registered \ Stale(registered)
    /\ call' = [call EXCEPT ![t] = NoCall]
    /\ UNCHANGED <<managerVars, phase, callbackThread, destructionVars, fence,
                   handles, canceling, captured, released>>

\* Faulty variant: the subscription handed out is read after the call is over.
DeliveredLate(t) ==
    /\ call' = [call EXCEPT ![t] =
                   IF @.op = NoOp THEN NoCall
                   ELSE [@ EXCEPT !.step = "scan", !.sub = NoSub]]
    /\ handles' = handles \cup {call'[t].sub}

\* deliver returns: complete scans again, subscribe hands its subscription out.
Delivered(t) ==
    /\ call' = [call EXCEPT ![t] =
                   IF @.op = NoOp THEN NoCall
                   ELSE [@ EXCEPT !.step = "scan", !.sub = NoSub]]
    /\ handles' = IF call[t].op = NoOp THEN handles \cup {call[t].sub}
                  ELSE handles

\* Faulty variant: a claimed subscription runs even when canceled since.
MayStartAlways(s) == TRUE

\* A subscription canceled since it was claimed is not called.
MayStart(s) == phase[s] = "Claimed"

BeginCallback(t) ==
    LET s == call[t].sub IN
    /\ call[t].step = "claimed"
    /\ IF MayStart(s)
       THEN /\ phase' = [phase EXCEPT ![s] = "Running"]
            /\ callbackThread' = [callbackThread EXCEPT ![s] = t]
            /\ call' = [call EXCEPT ![t].step = "callback"]
            /\ UNCHANGED handles
       ELSE /\ Delivered(t)
            /\ UNCHANGED <<phase, callbackThread>>
    /\ UNCHANGED <<managerVars, outstanding, registered, destructionVars, fence,
                   canceling, captured, released>>

\* The callback returned or threw.
EndCallback(t) ==
    LET s == call[t].sub IN
    /\ call[t].step = "callback" /\ canceling[t] = NoSub
    /\ phase' = [phase EXCEPT ![s] = "Finished"]
    /\ callbackThread' = [callbackThread EXCEPT ![s] = NoThread]
    /\ call' = [call EXCEPT ![t].step = "remove"]
    /\ UNCHANGED <<managerVars, outstanding, registered, destructionVars, fence,
                   handles, canceling, captured, released>>

Remove(t) ==
    /\ call[t].step = "remove"
    /\ registered' = registered \ {call[t].sub}
    /\ Delivered(t)
    /\ UNCHANGED <<managerVars, subscriptionVars, destructionVars, fence,
                   canceling, captured, released>>

Deliver(t) ==
    \/ ClaimFirst(t) \/ CompleteReturns(t)
    \/ BeginCallback(t) \/ EndCallback(t) \/ Remove(t)

-------------------------------------------------------------------------------
(* Fences and subscriptions.                                                *)

Unfinished(x) == {o \in OpIds : session[o] = x /\ ops[o] \in Live}

\* Bound: a fence is captured only while a subscription is left for it.
MayCapture ==
    Cardinality({t \in Threads : fence[t].held})
        + Cardinality({s \in Subs : phase[s] # "Unused"}) < MaxSubscriptions

CaptureFence(t, x) ==
    /\ ~shutdown /\ Free(t) /\ ~fence[t].held /\ MayCapture
    /\ fence' = [fence EXCEPT ![t] = [captured |-> Unfinished(x), held |-> TRUE]]
    /\ UNCHANGED <<managerVars, subscriptionVars, registered, destructionVars,
                   handles, call, canceling, captured, released>>

\* Faulty variant: Operations that ended since the capture are waited for.
StillOutstandingAll(operations) == operations

\* What subscribe still waits for: completed Operations have nobody to tell it.
StillOutstanding(operations) == {o \in operations : ops[o] \in Live}

\* subscribe, under the manager's mutex and, inside it, the coordinator's.
Subscribe(t) ==
    LET waits == StillOutstanding(fence[t].captured) IN
    /\ ~shutdown /\ Free(t) /\ fence[t].held
    /\ fence' = [fence EXCEPT ![t] = NoFence]
    /\ \E s \in Subs :
         /\ phase[s] = "Unused" /\ \A r \in 1..(s - 1) : phase[r] # "Unused"
         /\ outstanding' = [outstanding EXCEPT ![s] = waits]
         /\ captured' = [captured EXCEPT ![s] = fence[t].captured]
         /\ IF waits = {}
            THEN /\ phase' = [phase EXCEPT ![s] = "Claimed"]
                 /\ call' = [call EXCEPT ![t] =
                                [step |-> "claimed", op |-> NoOp, sub |-> s]]
                 /\ UNCHANGED <<registered, handles>>
            ELSE /\ phase' = [phase EXCEPT ![s] = "Pending"]
                 /\ registered' = registered \cup {s}
                 /\ handles' = handles \cup {s}
                 /\ UNCHANGED call
    /\ UNCHANGED <<managerVars, callbackThread, destructionVars, canceling,
                   released>>

\* A thread may cancel from outside, or from inside a callback it runs.
MayCancel(t, s) ==
    \/ Free(t)
    \/ /\ call[t].step = "callback" /\ canceling[t] = NoSub
       /\ <<call[t].sub, s>> \in CallbackCancels

\* cancel, the destructor and the move assignment of FenceSubscription.
Cancel(t, s) ==
    /\ s \in handles /\ MayCancel(t, s)
    /\ handles' = handles \ {s}
    /\ canceling' = [canceling EXCEPT ![t] = s]
    /\ phase' = [phase EXCEPT ![s] =
                    IF @ \in {"Pending", "Claimed"} THEN "Canceled" ELSE @]
    /\ UNCHANGED <<managerVars, outstanding, callbackThread, registered,
                   destructionVars, fence, call, captured, released>>

\* Faulty variants: cancel never waits, or waits for its own thread.
CanceledAtOnce(t, s) == TRUE
CanceledWhenFinished(t, s) == phase[s] # "Running"

\* cancel waits for a callback that runs, unless it is the one it is called by.
CanceledFor(t, s) == phase[s] # "Running" \/ callbackThread[s] = t

CancelReturn(t) ==
    LET s == canceling[t] IN
    /\ s # NoSub /\ CanceledFor(t, s)
    /\ registered' = registered \ {s}
    /\ canceling' = [canceling EXCEPT ![t] = NoSub]
    /\ released' = released \cup {<<s, t>>}
    /\ UNCHANGED <<managerVars, subscriptionVars, destructionVars, fence,
                   handles, call, captured>>

-------------------------------------------------------------------------------
(* The destructor.  Its owner has joined the calls in flight; handles may   *)
(* outlive the manager.                                                     *)

Destroy ==
    /\ ~shutdown /\ \A t \in Threads : call[t] = NoCall
    /\ shutdown' = TRUE
    /\ dying' = registered
    /\ registered' = {}
    /\ UNCHANGED <<managerVars, subscriptionVars, fence, handles, call,
                   canceling, captured, released>>

DestroySubscription(s) ==
    /\ s \in dying
    /\ dying' = dying \ {s}
    /\ phase' = [phase EXCEPT ![s] =
                    IF @ \in {"Pending", "Claimed"} THEN "Canceled" ELSE @]
    /\ UNCHANGED <<managerVars, outstanding, callbackThread, registered,
                   shutdown, fence, handles, call, canceling, captured,
                   released>>

-------------------------------------------------------------------------------
Init ==
    /\ ops = [o \in OpIds |-> "Absent"]
    /\ session = [o \in OpIds |-> NoSession]
    /\ phase = [s \in Subs |-> "Unused"]
    /\ outstanding = [s \in Subs |-> {}]
    /\ callbackThread = [s \in Subs |-> NoThread]
    /\ registered = {} /\ shutdown = FALSE /\ dying = {}
    /\ fence = [t \in Threads |-> NoFence]
    /\ handles = {}
    /\ call = [t \in Threads |-> NoCall]
    /\ canceling = [t \in Threads |-> NoSub]
    /\ captured = [s \in Subs |-> {}]
    /\ released = {}

ThreadNext(t) ==
    \/ \E o \in OpIds : \E outcome \in Outcomes : Complete(t, o, outcome)
    \/ \E x \in Sessions : CaptureFence(t, x)
    \/ Subscribe(t)
    \/ \E s \in Subs : Cancel(t, s)
    \/ Deliver(t) \/ CancelReturn(t)

Next ==
    \/ \E x \in Sessions : Create(x)
    \/ \E o \in OpIds : MarkRunning(o) \/ RequestCancel(o)
    \/ \E t \in Threads : ThreadNext(t)
    \/ Destroy
    \/ \E s \in Subs : DestroySubscription(s)

Spec == Init /\ [][Next]_vars

\* Calls that have begun go on, and callbacks return.  Nobody has to complete
\* an Operation, cancel a subscription or destroy the manager.
Fairness == \A t \in Threads : WF_vars(Deliver(t)) /\ WF_vars(CancelReturn(t))

FairSpec == Spec /\ Fairness

-------------------------------------------------------------------------------
(* Properties.                                                              *)

Phases == {"Unused", "Pending", "Claimed", "Running", "Finished", "Canceled"}
Calls == [step : {"idle", "scan", "claimed", "callback", "remove"},
          op : OpIds \cup {NoOp}, sub : Subs \cup {NoSub}]

\* Types of the manager, the subscriptions and the threads inside them.
TypeOK ==
    /\ ops \in [OpIds -> OperationStates]
    /\ session \in [OpIds -> Sessions \cup {NoSession}]
    /\ phase \in [Subs -> Phases]
    /\ outstanding \in [Subs -> SUBSET OpIds]
    /\ callbackThread \in [Subs -> Threads \cup {NoThread}]
    /\ registered \subseteq Subs /\ dying \subseteq Subs /\ handles \subseteq Subs
    /\ shutdown \in BOOLEAN
    /\ fence \in [Threads -> [captured : SUBSET OpIds, held : BOOLEAN]]
    /\ call \in [Threads -> Calls]
    /\ canceling \in [Threads -> Subs \cup {NoSub}]
    /\ captured \in [Subs -> SUBSET OpIds]
    /\ released \subseteq Subs \X Threads

\* No wake-up is lost between the end of an Operation and its announcement: a
\* pending subscription is registered and waits for every captured Operation
\* that is unfinished, and for a finished one only while the thread that
\* finished it has yet to scan for it (completion_fence.cpp: subscribe looks at
\* the Operations and registers under both mutexes).
NoLostFence ==
    \A s \in Subs : phase[s] = "Pending" =>
        /\ s \in registered \cup dying
        /\ outstanding[s] # {} /\ outstanding[s] \subseteq captured[s]
        /\ \A o \in captured[s] : ops[o] \in Live => o \in outstanding[s]
        /\ \A o \in outstanding[s] : ops[o] \in Live
              \/ \E t \in Threads : call[t].op = o /\ call[t].step # "idle"

\* Once cancel has returned, the callback does not run and never will, except
\* around the very cancel it made itself; once the destructor has, none does.
QuietOnceReleased ==
    /\ \A s \in Subs, t \in Threads : <<s, t>> \in released =>
         \/ phase[s] \in {"Canceled", "Finished"}
         \/ phase[s] = "Running" /\ callbackThread[s] = t
    /\ shutdown /\ dying = {} =>
         \A s \in Subs : phase[s] \in {"Unused", "Canceled", "Finished"}

\* cancel returns, also when it is called by the callback itself.
CancelReturns == \A t \in Threads : (canceling[t] # NoSub) ~> (canceling[t] = NoSub)

StatusOf(s) ==
    CASE phase[s] = "Unused" -> "unused"
      [] phase[s] \in {"Pending", "Claimed"} -> "waiting"
      [] phase[s] = "Running" -> "called"
      [] phase[s] = "Finished" -> "returned"
      [] phase[s] = "Canceled" -> "canceled"

Contract == INSTANCE FenceContract WITH
    Operations <- OpIds,
    Subscriptions <- Subs,
    ended <- {o \in OpIds : ops[o] \in Terminal},
    status <- [s \in Subs |-> StatusOf(s)]

\* The manager implements the contract of a fence: the callback is called at
\* most once, after all captured Operations ended, not after a cancel, and
\* unless canceled it is called (ADR-0008).
ImplementsContract == Contract!FairSpec
===============================================================================
