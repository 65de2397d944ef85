------------------------------ MODULE Operations ------------------------------
(***************************************************************************)
(* The life cycle of one Operation as OperationManager enforces it: which  *)
(* transition calls are accepted in a state and the state they leave.  The *)
(* calls themselves are atomic (one manager mutex); the modules that own   *)
(* operations apply these operators inside their own actions.              *)
(***************************************************************************)

\* "Absent" is an id the manager has not handed out yet.
Live == {"Queued", "Running", "CancelRequested"}
Terminal == {"Succeeded", "Failed", "Canceled"}
OperationStates == {"Absent"} \cup Live \cup Terminal

\* markRunning is idempotent on a running Operation.
CanMarkRunning(s) == s \in {"Queued", "Running"}

\* requestCancel is idempotent on CancelRequested.
CanRequestCancel(s) == s \in Live

\* A Canceled outcome has to be asked for first: Running cannot become Canceled.
CanComplete(s, outcome) ==
    /\ s \in {"Running", "CancelRequested"}
    /\ ~(s = "Running" /\ outcome = "Canceled")

\* cancelDetachedRequests: requestCancel and then complete(Canceled), on an
\* Operation only the caller still knows.
CancelDetachedState(s) == IF CanRequestCancel(s) THEN "Canceled" ELSE s

\* Faulty variant: a queued Operation is not settled.
FailureStateOfActive(s) ==
    CASE s = "Running" -> "Failed"
      [] s = "CancelRequested" -> "Canceled"
      [] OTHER -> s

\* settleTerminalFailure: whatever is still live reaches a terminal state.
FailureState(s) ==
    CASE s = "Running" -> "Failed"
      [] s \in {"Queued", "CancelRequested"} -> "Canceled"
      [] OTHER -> s
===============================================================================
