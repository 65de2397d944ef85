------------------------ MODULE CompletionFence_proofs ------------------------
(***************************************************************************)
(* Theorems about CompletionFence for any number of threads, sessions,     *)
(* Operations and subscriptions: no fence misses the end of an Operation,  *)
(* a canceled subscription stays quiet, and the manager implements the     *)
(* safety part of FenceContract.                                           *)
(***************************************************************************)
EXTENDS CompletionFence, TLAPS

\* A thread that announces an Operation has ended it.
AnnouncedEnded ==
    \A t \in Threads : call[t].op # NoOp =>
        call[t].step # "idle" /\ ops[call[t].op] \in Terminal

\* Fences capture Operations that exist.
CapturedExist ==
    /\ \A t \in Threads : \A o \in fence[t].captured : ops[o] # "Absent"
    /\ \A s \in Subs : \A o \in captured[s] : ops[o] # "Absent"

\* A subscription is claimed once everything it captured has ended.
ClaimedEnded ==
    \A s \in Subs : phase[s] \in {"Claimed", "Running", "Finished"} =>
        \A o \in captured[s] : ops[o] \in Terminal

\* A thread inside deliver and the phase of what it delivers agree.
StepsAgree ==
    \A t \in Threads :
        /\ call[t].step = "idle" => call[t] = NoCall
        /\ call[t].step = "scan" => call[t].op # NoOp
        /\ call[t].step \in {"claimed", "callback", "remove"} =>
             call[t].sub \in Subs
        /\ call[t].step = "claimed" =>
             phase[call[t].sub] \notin {"Unused", "Pending"}
        /\ call[t].step = "callback" =>
             /\ phase[call[t].sub] = "Running"
             /\ callbackThread[call[t].sub] = t
        /\ call[t].step = "remove" => phase[call[t].sub] = "Finished"

\* What is claimed or running is so on some thread.
ClaimedBySomebody ==
    \A s \in Subs :
        /\ phase[s] = "Claimed" =>
             \E t \in Threads : call[t].step = "claimed" /\ call[t].sub = s
        /\ phase[s] = "Running" =>
             /\ callbackThread[s] \in Threads
             /\ call[callbackThread[s]].step = "callback"
             /\ call[callbackThread[s]].sub = s

\* Subscriptions somebody knows have been made, and those being canceled are
\* past the point where they could still be called.
KnownUsed ==
    /\ \A s \in handles \cup registered \cup dying : phase[s] # "Unused"
    /\ \A t \in Threads : canceling[t] # NoSub =>
         phase[canceling[t]] \notin {"Unused", "Pending", "Claimed"}

\* The destructor has the manager for itself.
Alone ==
    /\ dying # {} => shutdown
    /\ shutdown => registered = {} /\ \A t \in Threads : call[t] = NoCall

FenceInv == /\ NoLostFence /\ QuietOnceReleased /\ AnnouncedEnded
            /\ CapturedExist /\ ClaimedEnded /\ StepsAgree
            /\ ClaimedBySomebody /\ KnownUsed /\ Alone

USE DEF managerVars, subscriptionVars, destructionVars

-------------------------------------------------------------------------------
(* Types.                                                                   *)

LEMMA NoNumbers == NoOp \notin OpIds /\ NoSub \notin Subs
BY FenceBounds DEF NoOp, NoSub, OpIds, Subs

LEMMA NoCallType == NoCall \in Calls
BY DEF NoCall, Calls

LEMMA DeliveredType ==
    ASSUME TypeOK, NEW t \in Threads, Delivered(t), call[t].sub \in Subs
    PROVE  call' \in [Threads -> Calls] /\ handles' \subseteq Subs
<1>1. call[t] \in Calls
    BY DEF TypeOK
<1>2. [call[t] EXCEPT !.step = "scan", !.sub = NoSub] \in Calls
    BY <1>1 DEF Calls
<1> QED
    BY <1>1, <1>2, NoCallType DEF TypeOK, Delivered

\* What deliver has moved on to, the types of the rest being those before.
LEMMA StepType ==
    ASSUME TypeOK, NEW t \in Threads,
           NEW step \in {"idle", "scan", "claimed", "callback", "remove"}
    PROVE  /\ [call EXCEPT ![t].step = step] \in [Threads -> Calls]
           /\ \A s \in Subs : [call EXCEPT ![t].step = step, ![t].sub = s]
                               \in [Threads -> Calls]
<1>1. call[t] \in Calls /\ call \in [Threads -> Calls]
    BY DEF TypeOK
<1>2. [call[t] EXCEPT !.step = step] \in Calls
    BY <1>1 DEF Calls
<1>3. ASSUME NEW s \in Subs
      PROVE  [call[t] EXCEPT !.step = step, !.sub = s] \in Calls
    BY <1>1 DEF Calls
<1>4. [call EXCEPT ![t].step = step] \in [Threads -> Calls]
    BY <1>1, <1>2
<1>5. ASSUME NEW s \in Subs
      PROVE  [call EXCEPT ![t].step = step, ![t].sub = s] \in [Threads -> Calls]
    BY <1>1, <1>3
<1> QED
    BY <1>4, <1>5

LEMMA CreateType ==
    ASSUME TypeOK, NEW x \in Sessions, Create(x)
    PROVE  TypeOK'
BY DEF TypeOK, Create, OperationStates, Live

LEMMA MarkRunningType ==
    ASSUME TypeOK, NEW o \in OpIds, MarkRunning(o)
    PROVE  TypeOK'
BY DEF TypeOK, MarkRunning, OperationStates, Live

LEMMA RequestCancelType ==
    ASSUME TypeOK, NEW o \in OpIds, RequestCancel(o)
    PROVE  TypeOK'
BY DEF TypeOK, RequestCancel, OperationStates, Live

LEMMA CompleteType ==
    ASSUME TypeOK, NEW t \in Threads, NEW o \in OpIds, NEW outcome \in Outcomes, Complete(t, o, outcome)
    PROVE  TypeOK'
BY OutcomesAssumption, NoNumbers DEF TypeOK, Complete, OperationStates, Calls

LEMMA ClaimFirstType ==
    ASSUME TypeOK, NEW t \in Threads, ClaimFirst(t)
    PROVE  TypeOK'
<1>1. PICK s \in ReadyFor(call[t].op) :
          /\ outstanding' = Erased(call[t].op, {r \in registered : r <= s})
          /\ phase' = [phase EXCEPT ![s] = "Claimed"]
          /\ call' = [call EXCEPT ![t].step = "claimed", ![t].sub = s]
          /\ registered' \subseteq registered
    BY DEF ClaimFirst
<1>2. s \in Subs
    BY DEF TypeOK, ReadyFor
<1>3. outstanding' \in [Subs -> SUBSET OpIds]
    BY <1>1 DEF TypeOK, Erased
<1>4. phase' \in [Subs -> Phases]
    BY <1>1 DEF TypeOK, Phases
<1>5. [call EXCEPT ![t].step = "claimed", ![t].sub = s] \in [Threads -> Calls]
    BY <1>2, StepType
<1> QED
    BY <1>1, <1>3, <1>4, <1>5 DEF TypeOK, ClaimFirst

LEMMA CompleteReturnsType ==
    ASSUME TypeOK, NEW t \in Threads, CompleteReturns(t)
    PROVE  TypeOK'
<1>1. outstanding' \in [Subs -> SUBSET OpIds]
    BY DEF TypeOK, CompleteReturns, Erased
<1> QED
    BY <1>1, NoCallType DEF TypeOK, CompleteReturns

LEMMA BeginCallbackType ==
    ASSUME TypeOK, NEW t \in Threads, call[t].sub \in Subs, BeginCallback(t)
    PROVE  TypeOK'
<1>1. CASE MayStart(call[t].sub)
  <2>1. call' \in [Threads -> Calls]
    <3>1. [call EXCEPT ![t].step = "callback"] \in [Threads -> Calls]
        BY StepType
    <3> QED
        BY <1>1, <3>1 DEF BeginCallback
  <2>2. phase' \in [Subs -> Phases] /\ callbackThread' \in [Subs -> Threads \cup {NoThread}]
      BY <1>1 DEF BeginCallback, TypeOK, Phases
  <2> QED
      BY <1>1, <2>1, <2>2 DEF BeginCallback, TypeOK
<1>2. CASE ~MayStart(call[t].sub)
    BY <1>2, DeliveredType DEF BeginCallback, TypeOK
<1> QED
    BY <1>1, <1>2

LEMMA EndCallbackType ==
    ASSUME TypeOK, NEW t \in Threads, EndCallback(t)
    PROVE  TypeOK'
<1>1. call' \in [Threads -> Calls]
    BY StepType DEF EndCallback
<1>2. phase' \in [Subs -> Phases] /\ callbackThread' \in [Subs -> Threads \cup {NoThread}]
    BY DEF EndCallback, TypeOK, Phases
<1> QED
    BY <1>1, <1>2 DEF EndCallback, TypeOK

LEMMA RemoveType ==
    ASSUME TypeOK, NEW t \in Threads, call[t].sub \in Subs, Remove(t)
    PROVE  TypeOK'
BY DeliveredType DEF Remove, TypeOK

LEMMA CaptureFenceType ==
    ASSUME TypeOK, NEW t \in Threads, NEW x \in Sessions, CaptureFence(t, x)
    PROVE  TypeOK'
BY DEF TypeOK, CaptureFence, Unfinished

LEMMA SubscribeType ==
    ASSUME TypeOK, NEW t \in Threads, Subscribe(t)
    PROVE  TypeOK'
<1> DEFINE waits == StillOutstanding(fence[t].captured)
<1>1. fence[t].captured \in SUBSET OpIds /\ waits \in SUBSET OpIds
    BY DEF TypeOK, StillOutstanding
<1>2. fence' \in [Threads -> [captured : SUBSET OpIds, held : BOOLEAN]]
    BY DEF Subscribe, TypeOK, NoFence
<1>3. PICK s \in Subs :
          /\ outstanding' = [outstanding EXCEPT ![s] = waits]
          /\ captured' = [captured EXCEPT ![s] = fence[t].captured]
          /\ IF waits = {}
             THEN /\ phase' = [phase EXCEPT ![s] = "Claimed"]
                  /\ call' = [call EXCEPT ![t] =
                                 [step |-> "claimed", op |-> NoOp, sub |-> s]]
                  /\ UNCHANGED <<registered, handles>>
             ELSE /\ phase' = [phase EXCEPT ![s] = "Pending"]
                  /\ registered' = registered \cup {s}
                  /\ handles' = handles \cup {s}
                  /\ UNCHANGED call
    BY DEF Subscribe
<1> HIDE DEF waits
<1>4. outstanding' \in [Subs -> SUBSET OpIds] /\ captured' \in [Subs -> SUBSET OpIds]
    BY <1>1, <1>3 DEF TypeOK
<1>5. phase' \in [Subs -> Phases]
    BY <1>3 DEF TypeOK, Phases
<1>6. call' \in [Threads -> Calls]
    BY <1>3 DEF TypeOK, Calls
<1>7. registered' \subseteq Subs /\ handles' \subseteq Subs
    BY <1>3 DEF TypeOK
<1> QED
    BY <1>2, <1>4, <1>5, <1>6, <1>7 DEF Subscribe, TypeOK

LEMMA CancelType ==
    ASSUME TypeOK, NEW t \in Threads, NEW s \in Subs, Cancel(t, s)
    PROVE  TypeOK'
BY NoNumbers DEF TypeOK, Cancel, Phases

LEMMA CancelReturnType ==
    ASSUME TypeOK, NEW t \in Threads, CancelReturn(t)
    PROVE  TypeOK'
BY NoNumbers DEF TypeOK, CancelReturn

LEMMA DestroyType ==
    ASSUME TypeOK, Destroy
    PROVE  TypeOK'
BY DEF TypeOK, Destroy

LEMMA DestroySubscriptionType ==
    ASSUME TypeOK, NEW s \in Subs, DestroySubscription(s)
    PROVE  TypeOK'
BY DEF TypeOK, DestroySubscription, Phases

-------------------------------------------------------------------------------
(* The inductive invariant.                                                 *)

LEMMA DistinctStates ==
    /\ \A x : ~(x \in Live /\ x \in Terminal)
    /\ "Absent" \notin Live /\ "Absent" \notin Terminal
BY DEF Live, Terminal

\* Operations move on without ending.
LEMMA OpsStep ==
    ASSUME TypeOK, FenceInv,
           \A o \in OpIds :
               /\ ops[o] # "Absent" => ops'[o] # "Absent"
               /\ ops[o] # "Absent" => (ops'[o] \in Live <=> ops[o] \in Live)
               /\ ops[o] \in Terminal => ops'[o] \in Terminal,
           UNCHANGED <<subscriptionVars, registered, destructionVars, fence,
                       handles, call, canceling, captured, released>>
    PROVE  FenceInv'
<1>1. NoLostFence'
    BY DistinctStates DEF TypeOK, FenceInv, NoLostFence, CapturedExist
<1>2. QuietOnceReleased'
    BY DEF FenceInv, QuietOnceReleased
<1>3. AnnouncedEnded'
    BY DEF TypeOK, Calls, FenceInv, AnnouncedEnded
<1>4. CapturedExist'
    BY DEF TypeOK, FenceInv, CapturedExist
<1>5. ClaimedEnded'
    BY DEF TypeOK, FenceInv, ClaimedEnded
<1>6. StepsAgree' /\ ClaimedBySomebody' /\ KnownUsed' /\ Alone'
    BY DEF FenceInv, StepsAgree, ClaimedBySomebody, KnownUsed, Alone
<1> QED
    BY <1>1, <1>2, <1>3, <1>4, <1>5, <1>6 DEF FenceInv

LEMMA CreateInv ==
    ASSUME TypeOK, FenceInv, NEW x \in Sessions, Create(x)
    PROVE  FenceInv'
BY OpsStep, DistinctStates DEF Create, TypeOK

LEMMA MarkRunningInv ==
    ASSUME TypeOK, FenceInv, NEW o \in OpIds, MarkRunning(o)
    PROVE  FenceInv'
BY OpsStep DEF MarkRunning, CanMarkRunning, Live, Terminal, TypeOK

LEMMA RequestCancelInv ==
    ASSUME TypeOK, FenceInv, NEW o \in OpIds, RequestCancel(o)
    PROVE  FenceInv'
BY OpsStep DEF RequestCancel, CanRequestCancel, Live, Terminal, TypeOK


\* After deliver a thread scans again or has left.
LEMMA DeliveredStep ==
    ASSUME TypeOK, NEW t \in Threads, Delivered(t)
    PROVE  /\ \A u \in Threads : u # t => call'[u] = call[u]
           /\ call[t].op = NoOp =>
                call'[t] = NoCall /\ handles' = handles \cup {call[t].sub}
           /\ call[t].op # NoOp =>
                /\ call'[t].step = "scan" /\ call'[t].op = call[t].op
                /\ handles' = handles
<1>1. call \in [Threads -> Calls] /\ call[t] \in Calls
    BY DEF TypeOK
<1>2. [call[t] EXCEPT !.step = "scan", !.sub = NoSub].step = "scan"
      /\ [call[t] EXCEPT !.step = "scan", !.sub = NoSub].op = call[t].op
    BY <1>1 DEF Calls
<1> QED
    BY <1>1, <1>2 DEF Delivered

\* A step that only moves thread t on keeps what it announces.
LEMMA CallStep ==
    ASSUME TypeOK, NEW t \in Threads, NEW step,
           call' = [call EXCEPT ![t].step = step]
    PROVE  /\ \A u \in Threads : u # t => call'[u] = call[u]
           /\ call'[t].step = step /\ call'[t].op = call[t].op
           /\ call'[t].sub = call[t].sub
<1>1. call \in [Threads -> Calls] /\ call[t] \in Calls
    BY DEF TypeOK
<1>2. [call[t] EXCEPT !.step = step].step = step
      /\ [call[t] EXCEPT !.step = step].op = call[t].op
      /\ [call[t] EXCEPT !.step = step].sub = call[t].sub
    BY <1>1 DEF Calls
<1> QED
    BY <1>1, <1>2

LEMMA CompleteInv ==
    ASSUME TypeOK, FenceInv, NEW t \in Threads, NEW o \in OpIds,
           NEW outcome \in Outcomes, Complete(t, o, outcome)
    PROVE  FenceInv'
<1>1. /\ call[t] = NoCall /\ call[t].step = "idle" /\ call[t].op = NoOp
      /\ call[t].sub = NoSub
    BY DEF Complete, Free, NoCall
<1>2. /\ \A u \in Threads : u # t => call'[u] = call[u]
      /\ call'[t].step = "scan" /\ call'[t].op = o /\ o # NoOp
    BY NoNumbers DEF Complete, TypeOK
<1>3. /\ \A p \in OpIds : p # o => ops'[p] = ops[p]
      /\ ops'[o] \in Terminal /\ ops'[o] \notin Live /\ ops'[o] # "Absent"
    BY OutcomesAssumption, DistinctStates DEF Complete, TypeOK
<1>4. UNCHANGED <<subscriptionVars, registered, destructionVars, fence,
                  handles, canceling, captured, released>> /\ ~shutdown
    BY DEF Complete
<1>5. NoLostFence'
  <2> SUFFICES ASSUME NEW s \in Subs, phase[s] = "Pending"
               PROVE  /\ s \in registered \cup dying
                      /\ outstanding[s] # {} /\ outstanding[s] \subseteq captured[s]
                      /\ \A p \in captured[s] : ops'[p] \in Live => p \in outstanding[s]
                      /\ \A p \in outstanding[s] : ops'[p] \in Live
                           \/ \E u \in Threads : call'[u].op = p /\ call'[u].step # "idle"
      BY <1>4 DEF NoLostFence
  <2>1. /\ s \in registered \cup dying
        /\ outstanding[s] # {} /\ outstanding[s] \subseteq captured[s]
        /\ captured[s] \subseteq OpIds
        /\ \A p \in captured[s] : ops[p] \in Live => p \in outstanding[s]
        /\ \A p \in outstanding[s] : ops[p] \in Live
             \/ \E u \in Threads : call[u].op = p /\ call[u].step # "idle"
      BY DEF FenceInv, NoLostFence, TypeOK
  <2>2. \A p \in captured[s] : ops'[p] \in Live => p \in outstanding[s]
      BY <2>1, <1>3
  <2>3. ASSUME NEW p \in outstanding[s]
        PROVE  ops'[p] \in Live
                 \/ \E u \in Threads : call'[u].op = p /\ call'[u].step # "idle"
    <3>1. CASE p = o
        BY <3>1, <1>2
    <3>2. CASE p # o /\ ops[p] \in Live
        BY <3>2, <2>1, <1>3
    <3>3. CASE \E u \in Threads : call[u].op = p /\ call[u].step # "idle"
        BY <3>3, <1>1, <1>2
    <3> QED
        BY <2>1, <3>1, <3>2, <3>3
  <2> QED
      BY <2>1, <2>2, <2>3
<1>6. QuietOnceReleased'
    BY <1>4 DEF FenceInv, QuietOnceReleased
<1>7. AnnouncedEnded'
  <2>1. \A u \in Threads : u # t /\ call[u].op # NoOp => call[u].op \in OpIds
      BY DEF TypeOK, Calls
  <2> QED
      BY <1>2, <1>3, <2>1 DEF FenceInv, AnnouncedEnded
<1>8. CapturedExist'
    BY <1>3, <1>4 DEF TypeOK, FenceInv, CapturedExist
<1>9. ClaimedEnded'
    BY <1>3, <1>4 DEF TypeOK, FenceInv, ClaimedEnded
<1>10. StepsAgree'
    BY <1>2, <1>4 DEF FenceInv, StepsAgree
<1>11. ClaimedBySomebody'
    BY <1>1, <1>2, <1>4 DEF FenceInv, ClaimedBySomebody
<1>12. KnownUsed' /\ Alone'
    BY <1>4 DEF FenceInv, KnownUsed, Alone
<1> QED
    BY <1>5, <1>6, <1>7, <1>8, <1>9, <1>10, <1>11, <1>12 DEF FenceInv

\* A thread that still has something to announce keeps the destructor out.
LEMMA NotAlone ==
    ASSUME FenceInv, NEW t \in Threads, call[t].step # "idle"
    PROVE  ~shutdown /\ dying = {}
BY DEF FenceInv, Alone, NoCall

LEMMA ClaimFirstInv ==
    ASSUME TypeOK, FenceInv, NEW t \in Threads, ClaimFirst(t)
    PROVE  FenceInv'
<1> DEFINE o == call[t].op
<1>1. PICK s \in ReadyFor(o) :
          LET seen == {r \in registered : r <= s} IN
          /\ \A r \in ReadyFor(o) : s <= r
          /\ outstanding' = Erased(o, seen)
          /\ registered' = registered \ ({s} \cup Stale(seen))
          /\ phase' = [phase EXCEPT ![s] = "Claimed"]
          /\ call' = [call EXCEPT ![t].step = "claimed", ![t].sub = s]
    BY DEF ClaimFirst
<1>2. s \in Subs /\ s \in registered /\ phase[s] = "Pending"
      /\ outstanding[s] \subseteq {o}
    BY DEF ReadyFor, TypeOK
<1>3. /\ \A u \in Threads : u # t => call'[u] = call[u]
      /\ call'[t].step = "claimed" /\ call'[t].op = o /\ call'[t].sub = s
  <2>1. call' = [call EXCEPT ![t].step = "claimed", ![t].sub = s]
      BY <1>1
  <2>2. call \in [Threads -> Calls] /\ call[t] \in Calls
      BY DEF TypeOK
  <2>3. /\ [call[t] EXCEPT !.step = "claimed", !.sub = s].step = "claimed"
        /\ [call[t] EXCEPT !.step = "claimed", !.sub = s].op = o
        /\ [call[t] EXCEPT !.step = "claimed", !.sub = s].sub = s
      BY <2>2 DEF Calls
  <2> QED
      BY <2>1, <2>2, <2>3
<1>4. phase'[s] = "Claimed" /\ \A r \in Subs : r # s => phase'[r] = phase[r]
    BY <1>1, <1>2 DEF TypeOK
<1>5. UNCHANGED <<ops, callbackThread, destructionVars, fence, handles,
                  canceling, captured, released>>
    BY DEF ClaimFirst
<1>6. call[t].step = "scan" /\ o # NoOp /\ ops[o] \in Terminal
      /\ dying = {} /\ ~shutdown
    BY NotAlone DEF ClaimFirst, FenceInv, StepsAgree, AnnouncedEnded
<1>7. NoLostFence'
  <2> SUFFICES ASSUME NEW r \in Subs, phase'[r] = "Pending"
               PROVE  /\ r \in registered' \cup dying'
                      /\ outstanding'[r] # {} /\ outstanding'[r] \subseteq captured'[r]
                      /\ \A p \in captured'[r] : ops'[p] \in Live => p \in outstanding'[r]
                      /\ \A p \in outstanding'[r] : ops'[p] \in Live
                           \/ \E u \in Threads : call'[u].op = p /\ call'[u].step # "idle"
      BY DEF NoLostFence
  <2>1. r # s /\ phase[r] = "Pending"
      BY <1>4
  <2>2. /\ r \in registered
        /\ outstanding[r] # {} /\ outstanding[r] \subseteq captured[r]
        /\ \A p \in captured[r] : ops[p] \in Live => p \in outstanding[r]
        /\ \A p \in outstanding[r] : ops[p] \in Live
             \/ \E u \in Threads : call[u].op = p /\ call[u].step # "idle"
      BY <2>1, <1>6 DEF FenceInv, NoLostFence
  <2>3. r \in registered'
      BY <1>1, <2>1, <2>2 DEF Stale
  <2>4. \/ outstanding'[r] = outstanding[r]
        \/ outstanding'[r] = outstanding[r] \ {o} /\ r <= s
    <3>1. outstanding' = Erased(o, {q \in registered : q <= s})
        BY <1>1
    <3>2. outstanding'[r] = IF r \in {q \in registered : q <= s}
                            THEN outstanding[r] \ {o} ELSE outstanding[r]
        BY <3>1 DEF Erased
    <3>3. CASE r <= s
        BY <3>2, <3>3, <2>2
    <3>4. CASE ~(r <= s)
        BY <3>2, <3>4
    <3> QED
        BY <3>3, <3>4
  <2>5. outstanding'[r] # {}
    <3>1. r <= s => r \notin ReadyFor(o)
        BY <1>1, <1>2, <2>1, FenceBounds DEF Subs
    <3> QED
        BY <2>1, <2>2, <2>4, <3>1 DEF ReadyFor
  <2>6. \A u \in Threads : call'[u].op = call[u].op
                           /\ (call[u].step # "idle" => call'[u].step # "idle")
      BY <1>3
  <2> QED
      BY <1>5, <1>6, <2>2, <2>3, <2>4, <2>5, <2>6, DistinctStates
<1>8. QuietOnceReleased'
    BY <1>2, <1>4, <1>5, <1>6 DEF FenceInv, QuietOnceReleased
<1>9. AnnouncedEnded'
    BY <1>3, <1>5 DEF FenceInv, AnnouncedEnded
<1>10. CapturedExist'
    BY <1>5 DEF FenceInv, CapturedExist
<1>11. ClaimedEnded'
  <2>1. \A p \in captured[s] : ops[p] \in Terminal
    <3>1. captured[s] \subseteq OpIds
        BY <1>2 DEF TypeOK
    <3>2. \A p \in captured[s] : ops[p] \in Live => p = o
        BY <1>2 DEF FenceInv, NoLostFence
    <3>3. \A p \in captured[s] : ops[p] # "Absent"
        BY <1>2 DEF FenceInv, CapturedExist
    <3> QED
        BY <1>6, <3>1, <3>2, <3>3 DEF TypeOK, OperationStates
  <2> QED
      BY <1>4, <1>5, <2>1 DEF FenceInv, ClaimedEnded
<1>12. StepsAgree'
    BY <1>2, <1>3, <1>4, <1>5 DEF FenceInv, StepsAgree, TypeOK
<1>13. ClaimedBySomebody'
    BY <1>2, <1>3, <1>4, <1>5, <1>6 DEF FenceInv, ClaimedBySomebody
<1>14. KnownUsed'
    BY <1>1, <1>2, <1>4, <1>5 DEF FenceInv, KnownUsed, TypeOK
<1>15. Alone'
    BY <1>5, <1>6 DEF FenceInv, Alone
<1> QED
    BY <1>7, <1>8, <1>9, <1>10, <1>11, <1>12, <1>13, <1>14, <1>15 DEF FenceInv

LEMMA CompleteReturnsInv ==
    ASSUME TypeOK, FenceInv, NEW t \in Threads, CompleteReturns(t)
    PROVE  FenceInv'
<1> DEFINE o == call[t].op
<1>1. /\ \A u \in Threads : u # t => call'[u] = call[u]
      /\ call'[t] = NoCall
    BY DEF CompleteReturns, TypeOK
<1>2. UNCHANGED <<ops, phase, callbackThread, destructionVars, fence, handles,
                  canceling, captured, released>>
    BY DEF CompleteReturns
<1>3. call[t].step = "scan" /\ o # NoOp /\ ops[o] \in Terminal
      /\ dying = {} /\ ~shutdown
    BY NotAlone DEF CompleteReturns, FenceInv, StepsAgree, AnnouncedEnded
<1>4. registered' \subseteq registered
    BY DEF CompleteReturns
<1>5. NoLostFence'
  <2> SUFFICES ASSUME NEW r \in Subs, phase'[r] = "Pending"
               PROVE  /\ r \in registered' \cup dying'
                      /\ outstanding'[r] # {} /\ outstanding'[r] \subseteq captured'[r]
                      /\ \A p \in captured'[r] : ops'[p] \in Live => p \in outstanding'[r]
                      /\ \A p \in outstanding'[r] : ops'[p] \in Live
                           \/ \E u \in Threads : call'[u].op = p /\ call'[u].step # "idle"
      BY DEF NoLostFence
  <2>1. /\ r \in registered /\ phase[r] = "Pending"
        /\ outstanding[r] # {} /\ outstanding[r] \subseteq captured[r]
        /\ \A p \in captured[r] : ops[p] \in Live => p \in outstanding[r]
        /\ \A p \in outstanding[r] : ops[p] \in Live
             \/ \E u \in Threads : call[u].op = p /\ call[u].step # "idle"
      BY <1>2, <1>3 DEF FenceInv, NoLostFence
  <2>2. r \in registered' /\ outstanding'[r] = outstanding[r] \ {o}
      BY <2>1 DEF CompleteReturns, Stale, Erased
  <2>3. outstanding'[r] # {}
      BY <2>1, <2>2 DEF CompleteReturns, ReadyFor
  <2>4. \A p \in outstanding'[r] : ops'[p] \in Live
            \/ \E u \in Threads : call'[u].op = p /\ call'[u].step # "idle"
    <3> SUFFICES ASSUME NEW p \in outstanding'[r], ops[p] \notin Live
                 PROVE  \E u \in Threads : call'[u].op = p /\ call'[u].step # "idle"
        BY <1>2
    <3>1. PICK u \in Threads : call[u].op = p /\ call[u].step # "idle"
        BY <2>1, <2>2
    <3>2. u # t
        BY <2>2, <3>1
    <3> QED
        BY <1>1, <3>1, <3>2
  <2> QED
      BY <1>2, <1>3, <2>1, <2>2, <2>3, <2>4, DistinctStates
<1>6. QuietOnceReleased'
    BY <1>2, <1>3 DEF FenceInv, QuietOnceReleased
<1>7. AnnouncedEnded' /\ StepsAgree'
    BY <1>1, <1>2 DEF FenceInv, AnnouncedEnded, StepsAgree, NoCall
<1>8. CapturedExist' /\ ClaimedEnded'
    BY <1>2 DEF FenceInv, CapturedExist, ClaimedEnded
<1>9. ClaimedBySomebody'
    BY <1>1, <1>2, <1>3 DEF FenceInv, ClaimedBySomebody
<1>10. KnownUsed' /\ Alone'
    BY <1>2, <1>3, <1>4 DEF FenceInv, KnownUsed, Alone
<1> QED
    BY <1>5, <1>6, <1>7, <1>8, <1>9, <1>10 DEF FenceInv

\* deliver has returned, from a callback or without one.
LEMMA DeliveredInv ==
    ASSUME TypeOK, FenceInv, NEW t \in Threads, Delivered(t),
           call[t].step \in {"claimed", "remove"}, call[t].sub \in Subs,
           phase[call[t].sub] \notin {"Unused", "Pending", "Claimed"},
           registered' \in {registered, registered \ {call[t].sub}},
           UNCHANGED <<ops, phase, outstanding, callbackThread,
                       destructionVars, fence, canceling, captured, released>>
    PROVE  FenceInv'
<1> DEFINE s == call[t].sub
<1>1. dying = {} /\ ~shutdown
    BY NotAlone
<1>2. \A u \in Threads : u # t => call'[u] = call[u]
    BY DeliveredStep
<1>3. \/ call[t].op = NoOp /\ call'[t] = NoCall
      \/ call[t].op # NoOp /\ call'[t].step = "scan" /\ call'[t].op = call[t].op
    BY DeliveredStep
<1>4. handles' \in {handles, handles \cup {s}}
    BY DeliveredStep
<1>5. NoLostFence'
  <2>1. \A r \in Subs : phase[r] = "Pending" /\ r \in registered => r \in registered'
      OBVIOUS
  <2>2. \A r \in Subs, p \in OpIds :
            (\E u \in Threads : call[u].op = p /\ call[u].step # "idle")
            => (\E u \in Threads : call'[u].op = p /\ call'[u].step # "idle")
      BY <1>2, <1>3, NoNumbers
  <2>3. \A r \in Subs : outstanding[r] \subseteq OpIds
      BY DEF TypeOK
  <2> QED
      BY <1>1, <2>1, <2>2, <2>3 DEF FenceInv, NoLostFence
<1>6. QuietOnceReleased'
    BY <1>1 DEF FenceInv, QuietOnceReleased
<1>7. AnnouncedEnded' /\ StepsAgree'
    BY <1>2, <1>3 DEF FenceInv, AnnouncedEnded, StepsAgree, NoCall
<1>8. CapturedExist' /\ ClaimedEnded'
    BY DEF FenceInv, CapturedExist, ClaimedEnded
<1>9. ClaimedBySomebody'
    BY <1>2 DEF FenceInv, ClaimedBySomebody
<1>10. KnownUsed' /\ Alone'
    BY <1>1, <1>4 DEF FenceInv, KnownUsed, Alone
<1> QED
    BY <1>5, <1>6, <1>7, <1>8, <1>9, <1>10 DEF FenceInv

LEMMA BeginCallbackInv ==
    ASSUME TypeOK, FenceInv, NEW t \in Threads, BeginCallback(t)
    PROVE  FenceInv'
<1> DEFINE s == call[t].sub
<1>1. /\ call[t].step = "claimed" /\ s \in Subs
      /\ phase[s] \notin {"Unused", "Pending"}
      /\ dying = {} /\ ~shutdown
    BY NotAlone DEF BeginCallback, FenceInv, StepsAgree
<1>2. UNCHANGED <<ops, outstanding, registered, destructionVars, fence,
                  canceling, captured, released>>
    BY DEF BeginCallback
<1>3. CapturedExist'
    BY <1>2 DEF FenceInv, CapturedExist
<1>4. CASE phase[s] = "Claimed"
  <2>1. /\ phase'[s] = "Running"
        /\ \A r \in Subs : r # s => phase'[r] = phase[r]
        /\ callbackThread'[s] = t
        /\ \A r \in Subs : r # s => callbackThread'[r] = callbackThread[r]
        /\ handles' = handles
      BY <1>1, <1>4 DEF BeginCallback, MayStart, TypeOK
  <2>2. /\ \A u \in Threads : u # t => call'[u] = call[u]
        /\ call'[t].step = "callback" /\ call'[t].op = call[t].op
        /\ call'[t].sub = s
    <3>1. call' = [call EXCEPT ![t].step = "callback"]
        BY <1>4 DEF BeginCallback, MayStart
    <3> QED
        BY <3>1, CallStep
  <2>3. NoLostFence'
    <3>1. \A u \in Threads : call'[u].op = call[u].op
                             /\ (call[u].step # "idle" => call'[u].step # "idle")
        BY <2>2
    <3> QED
        BY <1>2, <2>1, <3>1 DEF FenceInv, NoLostFence
  <2>4. QuietOnceReleased'
      BY <1>1, <1>2, <1>4, <2>1 DEF FenceInv, QuietOnceReleased
  <2>5. AnnouncedEnded'
      BY <1>2, <2>2 DEF FenceInv, AnnouncedEnded
  <2>6. ClaimedEnded'
      BY <1>1, <1>2, <1>4, <2>1 DEF FenceInv, ClaimedEnded
  <2>7. StepsAgree'
      BY <1>1, <1>2, <1>4, <2>1, <2>2 DEF FenceInv, StepsAgree, TypeOK
  <2>8. ClaimedBySomebody'
      BY <1>1, <1>2, <1>4, <2>1, <2>2 DEF FenceInv, ClaimedBySomebody
  <2>9. KnownUsed'
      BY <1>1, <1>2, <1>4, <2>1 DEF FenceInv, KnownUsed, TypeOK
  <2>10. Alone'
      BY <1>1, <1>2 DEF FenceInv, Alone
  <2> QED
      BY <1>3, <2>3, <2>4, <2>5, <2>6, <2>7, <2>8, <2>9, <2>10 DEF FenceInv
<1>5. CASE phase[s] # "Claimed"
  <2>1. UNCHANGED <<phase, callbackThread>> /\ Delivered(t)
      BY <1>5 DEF BeginCallback, MayStart
  <2>2. /\ call[t].step \in {"claimed", "remove"} /\ call[t].sub \in Subs
        /\ phase[call[t].sub] \notin {"Unused", "Pending", "Claimed"}
        /\ registered' \in {registered, registered \ {call[t].sub}}
      BY <1>1, <1>2, <1>5
  <2>3. UNCHANGED <<ops, phase, outstanding, callbackThread,
                    destructionVars, fence, canceling, captured, released>>
      BY <1>2, <2>1
  <2> QED
      BY <2>1, <2>2, <2>3, DeliveredInv
<1> QED
    BY <1>4, <1>5

LEMMA EndCallbackInv ==
    ASSUME TypeOK, FenceInv, NEW t \in Threads, EndCallback(t)
    PROVE  FenceInv'
<1> DEFINE s == call[t].sub
<1>1. /\ call[t].step = "callback" /\ s \in Subs
      /\ phase[s] = "Running" /\ callbackThread[s] = t
      /\ dying = {} /\ ~shutdown
    BY NotAlone DEF EndCallback, FenceInv, StepsAgree
<1>2. UNCHANGED <<ops, outstanding, registered, destructionVars, fence,
                  handles, canceling, captured, released>>
    BY DEF EndCallback
<1>3. /\ phase'[s] = "Finished"
      /\ \A r \in Subs : r # s => phase'[r] = phase[r]
      /\ \A r \in Subs : r # s => callbackThread'[r] = callbackThread[r]
    BY <1>1 DEF EndCallback, TypeOK
<1>4. /\ \A u \in Threads : u # t => call'[u] = call[u]
      /\ call'[t].step = "remove" /\ call'[t].op = call[t].op
      /\ call'[t].sub = s
    BY CallStep DEF EndCallback
<1>5. NoLostFence'
  <2>1. \A u \in Threads : call'[u].op = call[u].op
                           /\ (call[u].step # "idle" => call'[u].step # "idle")
      BY <1>4
  <2> QED
      BY <1>2, <1>3, <2>1 DEF FenceInv, NoLostFence
<1>6. QuietOnceReleased'
    BY <1>1, <1>2, <1>3 DEF FenceInv, QuietOnceReleased
<1>7. AnnouncedEnded' /\ CapturedExist'
    BY <1>2, <1>4 DEF FenceInv, AnnouncedEnded, CapturedExist
<1>8. ClaimedEnded'
    BY <1>1, <1>2, <1>3 DEF FenceInv, ClaimedEnded
<1>9. StepsAgree'
    BY <1>1, <1>2, <1>3, <1>4 DEF FenceInv, StepsAgree, TypeOK
<1>10. ClaimedBySomebody'
    BY <1>1, <1>2, <1>3, <1>4 DEF FenceInv, ClaimedBySomebody
<1>11. KnownUsed' /\ Alone'
    BY <1>1, <1>2, <1>3 DEF FenceInv, KnownUsed, Alone, TypeOK
<1> QED
    BY <1>5, <1>6, <1>7, <1>8, <1>9, <1>10, <1>11 DEF FenceInv

LEMMA RemoveInv ==
    ASSUME TypeOK, FenceInv, NEW t \in Threads, Remove(t)
    PROVE  FenceInv'
<1>1. call[t].step = "remove" /\ call[t].sub \in Subs
      /\ phase[call[t].sub] = "Finished"
    BY DEF Remove, FenceInv, StepsAgree
<1> QED
    BY <1>1, DeliveredInv DEF Remove

LEMMA CaptureFenceInv ==
    ASSUME TypeOK, FenceInv, NEW t \in Threads, NEW x \in Sessions,
           CaptureFence(t, x)
    PROVE  FenceInv'
<1>1. UNCHANGED <<managerVars, subscriptionVars, registered, destructionVars,
                  handles, call, canceling, captured, released>>
    BY DEF CaptureFence
<1>2. /\ \A u \in Threads : u # t => fence'[u] = fence[u]
      /\ fence'[t].captured = Unfinished(x)
    BY DEF CaptureFence, TypeOK
<1>3. \A o \in Unfinished(x) : ops[o] # "Absent"
    BY DistinctStates DEF Unfinished
<1>4. CapturedExist'
    BY <1>1, <1>2, <1>3 DEF FenceInv, CapturedExist
<1>5. NoLostFence' /\ QuietOnceReleased' /\ AnnouncedEnded' /\ ClaimedEnded'
      /\ StepsAgree' /\ ClaimedBySomebody' /\ KnownUsed' /\ Alone'
    BY <1>1 DEF FenceInv, NoLostFence, QuietOnceReleased, AnnouncedEnded,
                ClaimedEnded, StepsAgree, ClaimedBySomebody, KnownUsed, Alone
<1> QED
    BY <1>4, <1>5 DEF FenceInv

LEMMA SubscribeInv ==
    ASSUME TypeOK, FenceInv, NEW t \in Threads, Subscribe(t)
    PROVE  FenceInv'
<1> DEFINE waits == StillOutstanding(fence[t].captured)
<1>1. /\ fence[t].captured \subseteq OpIds
      /\ \A o \in fence[t].captured : ops[o] # "Absent"
      /\ waits = {o \in fence[t].captured : ops[o] \in Live}
    BY DEF TypeOK, FenceInv, CapturedExist, StillOutstanding
<1>2. UNCHANGED <<ops, callbackThread, destructionVars, canceling, released>>
      /\ ~shutdown /\ dying = {} /\ Free(t) /\ fence' = [fence EXCEPT ![t] = NoFence]
    BY DEF Subscribe, FenceInv, Alone
<1>3. PICK s \in Subs :
          /\ phase[s] = "Unused"
          /\ outstanding' = [outstanding EXCEPT ![s] = waits]
          /\ captured' = [captured EXCEPT ![s] = fence[t].captured]
          /\ IF waits = {}
             THEN /\ phase' = [phase EXCEPT ![s] = "Claimed"]
                  /\ call' = [call EXCEPT ![t] =
                                 [step |-> "claimed", op |-> NoOp, sub |-> s]]
                  /\ UNCHANGED <<registered, handles>>
             ELSE /\ phase' = [phase EXCEPT ![s] = "Pending"]
                  /\ registered' = registered \cup {s}
                  /\ handles' = handles \cup {s}
                  /\ UNCHANGED call
    BY DEF Subscribe
<1> HIDE DEF waits
<1>4. /\ outstanding'[s] = waits /\ captured'[s] = fence[t].captured
      /\ \A r \in Subs : r # s => outstanding'[r] = outstanding[r]
                                  /\ captured'[r] = captured[r]
    BY <1>3 DEF TypeOK
<1>5. /\ phase'[s] = IF waits = {} THEN "Claimed" ELSE "Pending"
      /\ \A r \in Subs : r # s => phase'[r] = phase[r]
    BY <1>3 DEF TypeOK
<1>6. call[t] = NoCall /\ \A u \in Threads : u # t => call'[u] = call[u]
    BY <1>2, <1>3 DEF Free, TypeOK
<1>7. IF waits = {}
      THEN call'[t] = [step |-> "claimed", op |-> NoOp, sub |-> s]
           /\ registered' = registered /\ handles' = handles
      ELSE call' = call /\ registered' = registered \cup {s}
           /\ handles' = handles \cup {s}
    BY <1>3 DEF TypeOK
<1>8. NoLostFence'
  <2> SUFFICES ASSUME NEW r \in Subs, phase'[r] = "Pending"
               PROVE  /\ r \in registered' \cup dying'
                      /\ outstanding'[r] # {} /\ outstanding'[r] \subseteq captured'[r]
                      /\ \A p \in captured'[r] : ops'[p] \in Live => p \in outstanding'[r]
                      /\ \A p \in outstanding'[r] : ops'[p] \in Live
                           \/ \E u \in Threads : call'[u].op = p /\ call'[u].step # "idle"
      BY DEF NoLostFence
  <2>1. CASE r = s
      BY <2>1, <1>1, <1>2, <1>4, <1>5, <1>7
  <2>2. CASE r # s
    <3>1. /\ r \in registered'
          /\ outstanding'[r] # {} /\ outstanding'[r] \subseteq captured'[r]
          /\ \A p \in captured'[r] : ops'[p] \in Live => p \in outstanding'[r]
        BY <2>2, <1>2, <1>4, <1>5, <1>7 DEF FenceInv, NoLostFence
    <3>2. \A p \in outstanding'[r] : ops'[p] \in Live
              \/ \E u \in Threads : call[u].op = p /\ call[u].step # "idle"
        BY <2>2, <1>2, <1>4, <1>5 DEF FenceInv, NoLostFence
    <3>3. \A u \in Threads : call[u].step # "idle" => call'[u] = call[u]
        BY <1>6 DEF NoCall
    <3> QED
        BY <3>1, <3>2, <3>3
  <2> QED
      BY <2>1, <2>2
<1>9. QuietOnceReleased'
  <2>1. \A u \in Threads : <<s, u>> \notin released
      BY <1>3 DEF FenceInv, QuietOnceReleased
  <2> QED
      BY <1>2, <1>5, <2>1 DEF FenceInv, QuietOnceReleased
<1>10. AnnouncedEnded'
    BY <1>2, <1>6, <1>7 DEF FenceInv, AnnouncedEnded
<1>11. CapturedExist'
  <2>1. \A u \in Threads : fence'[u].captured \subseteq fence[u].captured
      BY <1>2 DEF NoFence, TypeOK
  <2> QED
      BY <1>1, <1>2, <1>4, <2>1 DEF FenceInv, CapturedExist
<1>12. ClaimedEnded'
  <2>1. waits = {} => \A o \in fence[t].captured : ops[o] \in Terminal
      BY <1>1 DEF TypeOK, OperationStates
  <2> QED
      BY <1>2, <1>4, <1>5, <2>1 DEF FenceInv, ClaimedEnded
<1>13. StepsAgree'
    BY <1>2, <1>3, <1>5, <1>6, <1>7 DEF FenceInv, StepsAgree
<1>14. ClaimedBySomebody'
    BY <1>2, <1>3, <1>5, <1>6, <1>7 DEF FenceInv, ClaimedBySomebody, NoCall
<1>15. KnownUsed'
    BY <1>2, <1>3, <1>5, <1>7 DEF FenceInv, KnownUsed, TypeOK
<1>16. Alone'
    BY <1>2 DEF FenceInv, Alone
<1> QED
    BY <1>8, <1>9, <1>10, <1>11, <1>12, <1>13, <1>14, <1>15, <1>16 DEF FenceInv

LEMMA CancelInv ==
    ASSUME TypeOK, FenceInv, NEW t \in Threads, NEW s \in Subs, Cancel(t, s)
    PROVE  FenceInv'
<1>1. UNCHANGED <<managerVars, outstanding, callbackThread, registered,
                  destructionVars, fence, call, captured, released>>
    BY DEF Cancel
<1>2. /\ phase'[s] = IF phase[s] \in {"Pending", "Claimed"} THEN "Canceled"
                     ELSE phase[s]
      /\ \A r \in Subs : r # s => phase'[r] = phase[r]
      /\ phase[s] # "Unused" /\ handles' \subseteq handles
    BY DEF Cancel, TypeOK, FenceInv, KnownUsed
<1>3. canceling' = [canceling EXCEPT ![t] = s]
    BY DEF Cancel
<1>4. NoLostFence'
    BY <1>1, <1>2 DEF FenceInv, NoLostFence
<1>5. QuietOnceReleased'
    BY <1>1, <1>2 DEF FenceInv, QuietOnceReleased
<1>6. AnnouncedEnded' /\ CapturedExist' /\ Alone'
    BY <1>1 DEF FenceInv, AnnouncedEnded, CapturedExist, Alone
<1>7. ClaimedEnded' /\ ClaimedBySomebody'
    BY <1>1, <1>2 DEF FenceInv, ClaimedEnded, ClaimedBySomebody
<1>8. StepsAgree'
    BY <1>1, <1>2 DEF FenceInv, StepsAgree
<1>9. KnownUsed'
    BY <1>1, <1>2, <1>3 DEF FenceInv, KnownUsed, TypeOK
<1> QED
    BY <1>4, <1>5, <1>6, <1>7, <1>8, <1>9 DEF FenceInv

LEMMA CancelReturnInv ==
    ASSUME TypeOK, FenceInv, NEW t \in Threads, CancelReturn(t)
    PROVE  FenceInv'
<1> DEFINE s == canceling[t]
<1>1. /\ s \in Subs /\ phase[s] \notin {"Unused", "Pending", "Claimed"}
      /\ (phase[s] # "Running" \/ callbackThread[s] = t)
    BY DEF CancelReturn, CanceledFor, FenceInv, KnownUsed, TypeOK
<1>2. UNCHANGED <<managerVars, subscriptionVars, destructionVars, fence,
                  handles, call, captured>>
      /\ registered' = registered \ {s} /\ released' = released \cup {<<s, t>>}
    BY DEF CancelReturn
<1>3. \A u \in Threads : canceling'[u] \in {canceling[u], NoSub}
    BY DEF CancelReturn, TypeOK
<1>4. NoLostFence'
    BY <1>1, <1>2 DEF FenceInv, NoLostFence
<1>5. QuietOnceReleased'
  <2>1. phase[s] \in Phases
      BY <1>1 DEF TypeOK
  <2>2. \/ phase[s] \in {"Canceled", "Finished"}
        \/ phase[s] = "Running" /\ callbackThread[s] = t
      BY <1>1, <2>1 DEF Phases
  <2> QED
      BY <1>2, <2>2 DEF FenceInv, QuietOnceReleased
<1>6. AnnouncedEnded' /\ CapturedExist' /\ ClaimedEnded' /\ StepsAgree'
      /\ ClaimedBySomebody'
    BY <1>2 DEF FenceInv, AnnouncedEnded, CapturedExist, ClaimedEnded,
                StepsAgree, ClaimedBySomebody
<1>7. KnownUsed' /\ Alone'
    BY <1>2, <1>3 DEF FenceInv, KnownUsed, Alone
<1> QED
    BY <1>4, <1>5, <1>6, <1>7 DEF FenceInv

LEMMA DestroyInv ==
    ASSUME TypeOK, FenceInv, Destroy
    PROVE  FenceInv'
<1>1. /\ \A t \in Threads : call[t] = NoCall
      /\ dying = {} /\ dying' = registered /\ registered' = {} /\ shutdown'
    BY DEF Destroy, FenceInv, Alone
<1>2. UNCHANGED <<managerVars, subscriptionVars, fence, handles, call,
                  canceling, captured, released>>
    BY DEF Destroy
<1>3. \A s \in Subs : phase[s] \notin {"Claimed", "Running"}
    BY <1>1 DEF FenceInv, ClaimedBySomebody, NoCall
<1>4. NoLostFence'
    BY <1>1, <1>2 DEF FenceInv, NoLostFence
<1>5. QuietOnceReleased'
  <2>1. dying' = {} => \A s \in Subs : phase[s] # "Pending"
      BY <1>1 DEF FenceInv, NoLostFence
  <2> QED
      BY <1>2, <1>3, <2>1 DEF FenceInv, QuietOnceReleased, TypeOK, Phases
<1>6. AnnouncedEnded' /\ CapturedExist' /\ ClaimedEnded' /\ StepsAgree'
      /\ ClaimedBySomebody' /\ KnownUsed' /\ Alone'
    BY <1>1, <1>2 DEF FenceInv, AnnouncedEnded, CapturedExist, ClaimedEnded,
                      StepsAgree, ClaimedBySomebody, KnownUsed, Alone
<1> QED
    BY <1>4, <1>5, <1>6 DEF FenceInv

LEMMA DestroySubscriptionInv ==
    ASSUME TypeOK, FenceInv, NEW s \in Subs, DestroySubscription(s)
    PROVE  FenceInv'
<1>1. UNCHANGED <<managerVars, outstanding, callbackThread, registered,
                  shutdown, fence, handles, call, canceling, captured, released>>
      /\ s \in dying /\ dying' = dying \ {s}
    BY DEF DestroySubscription
<1>2. /\ phase'[s] = IF phase[s] \in {"Pending", "Claimed"} THEN "Canceled"
                     ELSE phase[s]
      /\ \A r \in Subs : r # s => phase'[r] = phase[r]
      /\ phase[s] # "Unused"
    BY <1>1 DEF DestroySubscription, TypeOK, FenceInv, KnownUsed
<1>3. shutdown /\ registered = {} /\ \A t \in Threads : call[t] = NoCall
    BY <1>1 DEF FenceInv, Alone
<1>4. NoLostFence'
    BY <1>1, <1>2 DEF FenceInv, NoLostFence
<1>5. QuietOnceReleased'
  <2>1. \A r \in Subs : phase[r] \notin {"Claimed", "Running"}
      BY <1>3 DEF FenceInv, ClaimedBySomebody, NoCall
  <2>2. dying' = {} => \A r \in Subs : phase'[r] \notin {"Pending", "Claimed", "Running"}
      BY <1>1, <1>2, <1>3, <2>1 DEF FenceInv, NoLostFence
  <2>3. \A r \in Subs : phase'[r] \in Phases
      BY <1>2 DEF TypeOK, Phases
  <2> QED
      BY <1>1, <1>2, <2>2, <2>3 DEF FenceInv, QuietOnceReleased, Phases
<1>6. AnnouncedEnded' /\ CapturedExist' /\ Alone'
    BY <1>1 DEF FenceInv, AnnouncedEnded, CapturedExist, Alone
<1>7. ClaimedEnded' /\ StepsAgree' /\ ClaimedBySomebody' /\ KnownUsed'
  <2>1. \A r \in Subs : /\ phase'[r] \in {"Claimed", "Running", "Finished"}
                              => phase'[r] = phase[r]
                        /\ phase[r] # "Unused" => phase'[r] # "Unused"
      BY <1>2
  <2>2. ClaimedEnded' /\ ClaimedBySomebody'
      BY <1>1, <2>1 DEF FenceInv, ClaimedEnded, ClaimedBySomebody
  <2>3. StepsAgree'
      BY <1>1, <1>3 DEF FenceInv, StepsAgree, NoCall
  <2>4. KnownUsed'
      BY <1>1, <1>2, <2>1 DEF FenceInv, KnownUsed, TypeOK
  <2> QED
      BY <2>2, <2>3, <2>4
<1> QED
    BY <1>4, <1>5, <1>6, <1>7 DEF FenceInv

-------------------------------------------------------------------------------
(* The invariants.                                                          *)

\* Every step of Next is one of the actions.
LEMMA NextSteps ==
    ASSUME Next
    PROVE  \/ \E x \in Sessions : Create(x)
           \/ \E o \in OpIds : MarkRunning(o) \/ RequestCancel(o)
           \/ \E t \in Threads, o \in OpIds, outcome \in Outcomes : Complete(t, o, outcome)
           \/ \E t \in Threads, x \in Sessions : CaptureFence(t, x)
           \/ \E t \in Threads : Subscribe(t) \/ CancelReturn(t)
           \/ \E t \in Threads, s \in Subs : Cancel(t, s)
           \/ \E t \in Threads : ClaimFirst(t) \/ CompleteReturns(t)
           \/ \E t \in Threads : BeginCallback(t) \/ EndCallback(t) \/ Remove(t)
           \/ Destroy
           \/ \E s \in Subs : DestroySubscription(s)
BY DEF Next, ThreadNext, Deliver

\* What a thread delivers is a subscription.
LEMMA DeliveredSub ==
    ASSUME FenceInv, NEW t \in Threads, BeginCallback(t) \/ Remove(t)
    PROVE  call[t].sub \in Subs
BY DEF FenceInv, StepsAgree, BeginCallback, Remove

LEMMA NextType ==
    ASSUME TypeOK, FenceInv, Next
    PROVE  TypeOK'
BY NextSteps, DeliveredSub, CreateType, MarkRunningType, RequestCancelType,
   CompleteType, ClaimFirstType, CompleteReturnsType, BeginCallbackType,
   EndCallbackType, RemoveType, CaptureFenceType, SubscribeType, CancelType,
   CancelReturnType, DestroyType, DestroySubscriptionType

LEMMA NextInv ==
    ASSUME TypeOK, FenceInv, Next
    PROVE  FenceInv'
BY NextSteps, CreateInv, MarkRunningInv, RequestCancelInv, CompleteInv,
   ClaimFirstInv, CompleteReturnsInv, BeginCallbackInv, EndCallbackInv,
   RemoveInv, CaptureFenceInv, SubscribeInv, CancelInv, CancelReturnInv,
   DestroyInv, DestroySubscriptionInv

LEMMA InitInv ==
    ASSUME Init
    PROVE  TypeOK /\ FenceInv
<1>1. TypeOK
    BY NoCallType DEF Init, TypeOK, OperationStates, Phases, NoFence
<1>2. NoLostFence /\ QuietOnceReleased
    BY DEF Init, NoLostFence, QuietOnceReleased
<1>3. AnnouncedEnded /\ CapturedExist /\ ClaimedEnded
    BY DEF Init, AnnouncedEnded, CapturedExist, ClaimedEnded, NoCall, NoFence
<1>4. StepsAgree /\ ClaimedBySomebody
    BY DEF Init, StepsAgree, ClaimedBySomebody, NoCall
<1>5. KnownUsed /\ Alone
    BY DEF Init, KnownUsed, Alone
<1> QED
    BY <1>1, <1>2, <1>3, <1>4, <1>5 DEF FenceInv

LEMMA StutterInv ==
    ASSUME TypeOK, FenceInv, UNCHANGED vars
    PROVE  TypeOK' /\ FenceInv'
<1>1. TypeOK'
    BY DEF vars, TypeOK
<1>2. NoLostFence' /\ QuietOnceReleased'
    BY DEF vars, FenceInv, NoLostFence, QuietOnceReleased
<1>3. AnnouncedEnded' /\ CapturedExist' /\ ClaimedEnded'
    BY DEF vars, FenceInv, AnnouncedEnded, CapturedExist, ClaimedEnded
<1>4. StepsAgree' /\ ClaimedBySomebody' /\ KnownUsed' /\ Alone'
    BY DEF vars, FenceInv, StepsAgree, ClaimedBySomebody, KnownUsed, Alone
<1> QED
    BY <1>1, <1>2, <1>3, <1>4 DEF FenceInv

LEMMA Invariant == Spec => [](TypeOK /\ FenceInv)
<1>1. Init => TypeOK /\ FenceInv
    BY InitInv
<1>2. TypeOK /\ FenceInv /\ [Next]_vars => (TypeOK /\ FenceInv)'
    BY NextType, NextInv, StutterInv
<1> QED
    BY <1>1, <1>2, PTL DEF Spec

\* The manager, the subscriptions and the threads inside them keep their types.
THEOREM FenceTypes == Spec => []TypeOK
BY Invariant, PTL

\* No wake-up is lost between complete and subscribe: a pending subscription
\* waits for exactly such Operations as somebody will still announce.
THEOREM FencesNotLost == Spec => []NoLostFence
<1>1. FenceInv => NoLostFence
    BY DEF FenceInv
<1> QED
    BY <1>1, Invariant, PTL

\* Once cancel or the destructor has returned, no callback runs any more, but
\* for the one that cancels itself.
THEOREM CanceledQuiet == Spec => []QuietOnceReleased
<1>1. FenceInv => QuietOnceReleased
    BY DEF FenceInv
<1> QED
    BY <1>1, Invariant, PTL

-------------------------------------------------------------------------------
(* The contract.                                                            *)

Ended == {o \in OpIds : ops[o] \in Terminal}
Status == [s \in Subs |-> StatusOf(s)]

\* A step that ends no Operation and changes no phase is none of the contract.
LEMMA ContractStutter ==
    ASSUME \A o \in OpIds : ops'[o] \in Terminal <=> ops[o] \in Terminal,
           UNCHANGED <<phase, captured>>
    PROVE  UNCHANGED Contract!vars
<1>1. Ended' = Ended /\ Status' = Status
    BY DEF Ended, Status, StatusOf
<1> QED
    BY <1>1 DEF Contract!vars, Ended, Status

\* The change of one subscription.
LEMMA ContractBecome ==
    ASSUME TypeOK, NEW s \in Subs, NEW new \in Phases,
           phase' = [phase EXCEPT ![s] = new]
    PROVE  Status' = [Status EXCEPT ![s] = StatusOf(s)']
<1>1. phase \in [Subs -> Phases]
    BY DEF TypeOK
<1>2. \A r \in Subs : r # s => phase'[r] = phase[r]
    BY <1>1
<1>3. \A r \in Subs : r # s => StatusOf(r)' = StatusOf(r)
    BY <1>2 DEF StatusOf
<1> QED
    BY <1>3 DEF Status

LEMMA ContractInit ==
    ASSUME Init
    PROVE  Contract!Init
<1>1. Ended = {}
    BY DistinctStates DEF Init, Ended
<1>2. Status = [s \in Subs |-> "unused"]
    BY DEF Init, Status, StatusOf
<1> QED
    BY <1>1, <1>2 DEF Init, Contract!Init, Ended, Status

\* Steps between which a fence cannot tell.
LEMMA ContractQuiet ==
    ASSUME TypeOK, FenceInv,
           \/ \E x \in Sessions : Create(x)
           \/ \E o \in OpIds : MarkRunning(o) \/ RequestCancel(o)
           \/ \E t \in Threads, x \in Sessions : CaptureFence(t, x)
           \/ \E t \in Threads : CompleteReturns(t) \/ CancelReturn(t) \/ Remove(t)
           \/ Destroy
    PROVE  UNCHANGED Contract!vars
<1>1. UNCHANGED <<phase, captured>>
    BY DEF Create, MarkRunning, RequestCancel, CaptureFence, CompleteReturns,
           CancelReturn, Remove, Destroy
<1>2. \A o \in OpIds : ops'[o] \in Terminal <=> ops[o] \in Terminal
  <2>1. CASE UNCHANGED ops
      BY <2>1
  <2>2. CASE \E x \in Sessions : Create(x)
      BY <2>2, DistinctStates DEF Create, TypeOK, Live, Terminal
  <2>3. CASE \E o \in OpIds : MarkRunning(o) \/ RequestCancel(o)
      BY <2>3 DEF MarkRunning, RequestCancel, CanMarkRunning, CanRequestCancel,
                  TypeOK, Live, Terminal
  <2> QED
      BY <2>1, <2>2, <2>3 DEF CaptureFence, CompleteReturns, CancelReturn, Remove,
                              Destroy
<1> QED
    BY <1>1, <1>2, ContractStutter

\* complete ends an Operation.
LEMMA ContractEnd ==
    ASSUME TypeOK, NEW t \in Threads, NEW o \in OpIds, NEW outcome \in Outcomes,
           Complete(t, o, outcome)
    PROVE  Contract!End(o)
<1>1. /\ ops' = [ops EXCEPT ![o] = outcome] /\ outcome \in Terminal
      /\ UNCHANGED <<phase, captured>>
    BY OutcomesAssumption DEF Complete
<1>2. Ended' = Ended \cup {o}
    BY <1>1 DEF Ended, TypeOK
<1>3. Status' = Status
    BY <1>1 DEF Status, StatusOf
<1> QED
    BY <1>1, <1>2, <1>3 DEF Contract!End, Ended, Status

\* A claim changes nothing a caller sees.
LEMMA ContractClaim ==
    ASSUME TypeOK, NEW t \in Threads, ClaimFirst(t)
    PROVE  UNCHANGED Contract!vars
<1>1. PICK s \in Subs : phase[s] = "Pending" /\ phase' = [phase EXCEPT ![s] = "Claimed"]
    BY DEF ClaimFirst, ReadyFor, TypeOK
<1>2. \A r \in Subs : StatusOf(r)' = StatusOf(r)
    BY <1>1 DEF StatusOf, TypeOK
<1>3. Status' = Status
    BY <1>2 DEF Status
<1>4. UNCHANGED <<Ended, captured>>
    BY DEF ClaimFirst, Ended
<1> QED
    BY <1>3, <1>4 DEF Contract!vars, Ended, Status

\* A callback begins, after everything its fence captured has ended; or the
\* subscription had been canceled and nothing happens.
LEMMA ContractCall ==
    ASSUME TypeOK, FenceInv, NEW t \in Threads, BeginCallback(t)
    PROVE  UNCHANGED Contract!vars \/ Contract!Call(call[t].sub)
<1>1. UNCHANGED <<ops, captured>>
    BY DEF BeginCallback
<1> PICK s \in Subs : s = call[t].sub
    BY DeliveredSub
<1>2. CASE phase[s] = "Claimed"
  <2>1. phase' = [phase EXCEPT ![s] = "Running"] /\ "Running" \in Phases
      BY <1>2 DEF BeginCallback, MayStart, Phases
  <2>2. StatusOf(s)' = "called"
      BY <1>1, <2>1 DEF StatusOf, TypeOK
  <2>3. Status' = [Status EXCEPT ![s] = "called"] /\ Status[s] = "waiting"
      BY <1>1, <1>2, <2>1, <2>2, ContractBecome DEF Status, StatusOf
  <2>4. captured[s] \subseteq Ended
      BY <1>1, <1>2 DEF FenceInv, ClaimedEnded, Ended, TypeOK
  <2>5. UNCHANGED <<Ended, captured>>
      BY <1>1 DEF Ended
  <2> QED
      BY <2>3, <2>4, <2>5 DEF Contract!Call, Contract!Become, Ended, Status
<1>3. CASE phase[s] # "Claimed"
  <2>1. UNCHANGED phase
      BY <1>3 DEF BeginCallback, MayStart
  <2> QED
      BY <1>1, <2>1, ContractStutter
<1> QED
    BY <1>2, <1>3

\* A callback returns.
LEMMA ContractReturn ==
    ASSUME TypeOK, FenceInv, NEW t \in Threads, EndCallback(t)
    PROVE  call[t].sub \in Subs /\ Contract!Return(call[t].sub)
<1> PICK s \in Subs : s = call[t].sub
    BY DEF EndCallback, FenceInv, StepsAgree
<1>1. phase[s] = "Running" /\ UNCHANGED <<ops, captured>>
      /\ phase' = [phase EXCEPT ![s] = "Finished"] /\ "Finished" \in Phases
    BY DEF EndCallback, FenceInv, StepsAgree, Phases
<1>2. StatusOf(s)' = "returned"
    BY <1>1 DEF StatusOf, TypeOK
<1>3. Status' = [Status EXCEPT ![s] = "returned"] /\ Status[s] = "called"
    BY <1>1, <1>2, ContractBecome DEF Status, StatusOf
<1>4. UNCHANGED <<Ended, captured>>
    BY <1>1 DEF Ended
<1> QED
    BY <1>1, <1>3, <1>4 DEF Contract!Return, Contract!Become, Ended, Status

\* A fence becomes a subscription.
LEMMA ContractSubscribe ==
    ASSUME TypeOK, NEW t \in Threads, Subscribe(t)
    PROVE  \E s \in Subs : Contract!Subscribe(s, fence[t].captured)
<1>1. PICK s \in Subs :
          /\ phase[s] = "Unused"
          /\ captured' = [captured EXCEPT ![s] = fence[t].captured]
          /\ \/ phase' = [phase EXCEPT ![s] = "Claimed"]
             \/ phase' = [phase EXCEPT ![s] = "Pending"]
    BY DEF Subscribe
<1>2. PICK new \in {"Claimed", "Pending"} : phase' = [phase EXCEPT ![s] = new]
    BY <1>1
<1>3. StatusOf(s)' = "waiting"
    BY <1>2 DEF StatusOf, TypeOK
<1>4. new \in Phases
    BY DEF Phases
<1>5. Status' = [Status EXCEPT ![s] = "waiting"] /\ Status[s] = "unused"
    BY <1>1, <1>2, <1>3, <1>4, ContractBecome DEF Status, StatusOf
<1>6. UNCHANGED Ended
    BY DEF Subscribe, Ended
<1> QED
    BY <1>1, <1>5, <1>6 DEF Contract!Subscribe, Contract!Become, Ended, Status

\* A cancel keeps a waiting subscription from being called, and comes too late
\* for any other; so does the destructor.
LEMMA ContractCancel ==
    ASSUME TypeOK, FenceInv, NEW s \in Subs,
           (\E t \in Threads : Cancel(t, s)) \/ DestroySubscription(s)
    PROVE  UNCHANGED Contract!vars \/ Contract!Cancel(s)
<1>1. /\ phase' = [phase EXCEPT ![s] = IF phase[s] \in {"Pending", "Claimed"}
                                       THEN "Canceled" ELSE phase[s]]
      /\ UNCHANGED <<ops, captured>>
    BY DEF Cancel, DestroySubscription
<1>2. CASE phase[s] \in {"Pending", "Claimed"}
  <2>1. phase' = [phase EXCEPT ![s] = "Canceled"] /\ "Canceled" \in Phases
      BY <1>1, <1>2 DEF Phases
  <2>2. StatusOf(s)' = "canceled"
      BY <2>1 DEF StatusOf, TypeOK
  <2>3. Status' = [Status EXCEPT ![s] = "canceled"] /\ Status[s] = "waiting"
      BY <1>2, <2>1, <2>2, ContractBecome DEF Status, StatusOf
  <2>4. UNCHANGED <<Ended, captured>>
      BY <1>1 DEF Ended
  <2> QED
      BY <2>3, <2>4 DEF Contract!Cancel, Contract!Become, Ended, Status
<1>3. CASE phase[s] \notin {"Pending", "Claimed"}
  <2>1. UNCHANGED phase
      BY <1>1, <1>3 DEF TypeOK
  <2> QED
      BY <1>1, <2>1, ContractStutter
<1> QED
    BY <1>2, <1>3

LEMMA ContractNext ==
    ASSUME TypeOK, FenceInv, Next
    PROVE  Contract!Next \/ UNCHANGED Contract!vars
<1>1. CASE \/ \E x \in Sessions : Create(x)
           \/ \E o \in OpIds : MarkRunning(o) \/ RequestCancel(o)
           \/ \E t \in Threads, x \in Sessions : CaptureFence(t, x)
           \/ \E t \in Threads : CompleteReturns(t) \/ CancelReturn(t) \/ Remove(t)
           \/ Destroy
    BY <1>1, ContractQuiet
<1>2. CASE \E t \in Threads, o \in OpIds, outcome \in Outcomes : Complete(t, o, outcome)
    BY <1>2, ContractEnd DEF Contract!Next
<1>3. CASE \E t \in Threads : ClaimFirst(t)
    BY <1>3, ContractClaim
<1>4. CASE \E t \in Threads : BeginCallback(t)
    BY <1>4, ContractCall, DeliveredSub DEF Contract!Next
<1>5. CASE \E t \in Threads : EndCallback(t)
    BY <1>5, ContractReturn DEF Contract!Next
<1>6. CASE \E t \in Threads : Subscribe(t)
  <2>1. PICK t \in Threads : Subscribe(t)
      BY <1>6
  <2>2. fence[t].captured \in SUBSET OpIds
      BY DEF TypeOK
  <2> QED
      BY <2>1, <2>2, ContractSubscribe DEF Contract!Next
<1>7. CASE \E s \in Subs : (\E t \in Threads : Cancel(t, s)) \/ DestroySubscription(s)
    BY <1>7, ContractCancel DEF Contract!Next
<1> QED
    BY <1>1, <1>2, <1>3, <1>4, <1>5, <1>6, <1>7, NextSteps

\* The manager implements the safety part of the contract of a fence: at most
\* one call, after all that was captured has ended, and none after a cancel
\* that came in time.
THEOREM ContractImplemented == Spec => Contract!Spec
<1>1. Init => Contract!Init
    BY ContractInit
<1>2. TypeOK /\ FenceInv /\ [Next]_vars => [Contract!Next]_(Contract!vars)
  <2>1. ASSUME UNCHANGED vars
        PROVE  UNCHANGED Contract!vars
      BY <2>1 DEF vars, Contract!vars, StatusOf
  <2> QED
      BY <2>1, ContractNext
<1> QED
    BY <1>1, <1>2, Invariant, PTL DEF Spec, Contract!Spec

===============================================================================
