------------------------------- MODULE Outcome -------------------------------
(***************************************************************************)
(* How a run ended (whole_life/runtime/outcome.py).                        *)
(*                                                                         *)
(* Two witnesses decide: the provider's terminal event and the exit status *)
(* of its process.  A diagnostic is modelled by the SET of facts it names: *)
(* the code joins two facts with "+", keeping the first one's wording.     *)
(***************************************************************************)

TerminalEvent == {"completed", "failed", "none"}

\* "unobserved" is Python's None: nobody has waited for the process yet.
ExitCode == {"unobserved", "zero", "nonzero"}

RunStatus == {"completed", "failed", "unknown_outcome"}

\* Why a turn overspent its delegation budget; "none" when it did not.
NoBreach == "none"
DepthExceeded == "DelegationDepthExceeded"
BudgetExceeded == "DelegationBudgetExceeded"
Breach == {NoBreach, DepthExceeded, BudgetExceeded}

\* Mutant of WithWorkerFact: one diagnostic, one fact.
WithoutWorkerFact(fact, unresolved) == {fact}

\* The worker fact rides along with another reason instead of being dropped.
WithWorkerFact(fact, unresolved) ==
    {fact} \cup IF unresolved THEN {"NativeWorkerUnresolved"} ELSE {}

RunOutcome(status, exit, facts) ==
    [status |-> status, exitCode |-> exit, diagnostic |-> facts]

(***************************************************************************)
(* The order of the branches is the contract: the ordering fact first, the *)
(* provider's own failure next, and the exit status only while it is still *)
(* an independent witness.                                                 *)
(***************************************************************************)
ResolveOutcome(terminal, exit, before, after, breach, unresolved) ==
    IF before
    THEN RunOutcome("unknown_outcome", exit,
             WithWorkerFact(IF breach = NoBreach THEN "CancelledBeforeTerminal"
                                                 ELSE breach, unresolved))
    ELSE IF terminal = "failed"
    THEN RunOutcome("failed", exit, {"ProviderReportedFailure"})
    ELSE IF after /\ terminal = "completed"
    THEN IF unresolved
         THEN RunOutcome("unknown_outcome", exit, {"NativeWorkerUnresolved"})
         ELSE RunOutcome("completed", exit, {})
    ELSE IF exit = "unobserved"
    THEN RunOutcome("unknown_outcome", exit,
             WithWorkerFact("ProcessExitUnobserved", unresolved))
    ELSE IF exit = "nonzero"
    THEN RunOutcome("failed", exit,
             {IF terminal = "completed" THEN "TerminalExitDisagreement"
                                        ELSE "NonZeroExit"})
    ELSE IF unresolved
    THEN RunOutcome("unknown_outcome", exit, {"NativeWorkerUnresolved"})
    ELSE IF terminal = "none"
    THEN RunOutcome("unknown_outcome", exit, {"TerminalEventMissing"})
    ELSE RunOutcome("completed", exit, {})
=============================================================================
