----------------------------- MODULE FenceContract -----------------------------
(***************************************************************************)
(* What a completion fence promises (ADR-0008): the callback of a          *)
(* subscription is called once, after every Operation its fence captured   *)
(* has ended, unless the subscription is canceled first; and it is called. *)
(***************************************************************************)
CONSTANTS Operations, Subscriptions

VARIABLES ended, captured, status
vars == <<ended, captured, status>>

Init == /\ ended = {}
        /\ captured = [s \in Subscriptions |-> {}]
        /\ status = [s \in Subscriptions |-> "unused"]

Become(s, next) == status' = [status EXCEPT ![s] = next]

End(o) == /\ ended' = ended \cup {o}
          /\ UNCHANGED <<captured, status>>

Subscribe(s, operations) == /\ status[s] = "unused"
                            /\ Become(s, "waiting")
                            /\ captured' = [captured EXCEPT ![s] = operations]
                            /\ UNCHANGED ended

Call(s) == /\ status[s] = "waiting" /\ captured[s] \subseteq ended
           /\ Become(s, "called")
           /\ UNCHANGED <<ended, captured>>

Return(s) == /\ status[s] = "called"
             /\ Become(s, "returned")
             /\ UNCHANGED <<ended, captured>>

Cancel(s) == /\ status[s] = "waiting"
             /\ Become(s, "canceled")
             /\ UNCHANGED <<ended, captured>>

Next == \/ \E o \in Operations : End(o)
        \/ \E s \in Subscriptions :
             \/ \E operations \in SUBSET Operations : Subscribe(s, operations)
             \/ Call(s) \/ Return(s) \/ Cancel(s)

Spec == Init /\ [][Next]_vars

FairSpec == Spec /\ \A s \in Subscriptions : WF_vars(Call(s)) /\ WF_vars(Return(s))
===============================================================================
