--------------------------- MODULE DelegationLedger ---------------------------
(***************************************************************************)
(* What one turn has spent on native workers                               *)
(* (whole_life/runtime/delegation.py).  The ledger is a value; the run     *)
(* observer owns it and charges every announced worker event to it.        *)
(***************************************************************************)
EXTENDS Naturals, FiniteSets, Outcome

CONSTANTS
    MaxConcurrent,    \* budget: workers live at once
    MaxTotalStarts,   \* budget: worker starts in the whole turn
    MaxDepth          \* budget: how deep a worker may have been spawned

\* The launch gate refuses a budget with a negative field.
ASSUME BudgetAssumption ==
    /\ MaxConcurrent \in Nat
    /\ MaxTotalStarts \in Nat
    /\ MaxDepth \in Nat

EmptyLedger == [started |-> 0, live |-> {}]

\* A worker was announced as started and never as finished.
Unresolved(ledger) == ledger.live # {}

\* The depth is judged before anything is counted: a worker that must not
\* exist is not a use of the budget.
WorkerStarted(ledger, worker, depth) ==
    IF depth > MaxDepth
    THEN ledger
    ELSE [started |-> ledger.started + 1, live |-> ledger.live \cup {worker}]

\* Mutant of StartBreach: the limits are compared before the start is counted.
StartBreachLate(ledger, worker, depth) ==
    IF depth > MaxDepth
    THEN DepthExceeded
    ELSE IF \/ ledger.started > MaxTotalStarts
            \/ Cardinality(ledger.live) > MaxConcurrent
    THEN BudgetExceeded
    ELSE NoBreach

\* The diagnostic of that start.  The start that reaches a limit is allowed,
\* the first one past it is the breach.
StartBreach(ledger, worker, depth) ==
    LET charged == WorkerStarted(ledger, worker, depth)
    IN  IF depth > MaxDepth
        THEN DepthExceeded
        ELSE IF \/ charged.started > MaxTotalStarts
                \/ Cardinality(charged.live) > MaxConcurrent
        THEN BudgetExceeded
        ELSE NoBreach

\* A finish whose start was never seen changes nothing.
WorkerFinished(ledger, worker) == [ledger EXCEPT !.live = @ \ {worker}]
=============================================================================
