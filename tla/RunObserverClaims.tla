-------------------------- MODULE RunObserverClaims --------------------------
(***************************************************************************)
(* Statements the repository makes about a run that the code of the run    *)
(* does not keep.  Each is the property of a run that is expected to find  *)
(* a counterexample.                                                       *)
(***************************************************************************)
EXTENDS RunObserver

\* outcome.py:60-63: a process that exited nonzero is failure "regardless of
\* what the provider announced beforehand - announcing completion and then
\* exiting nonzero disowns the announcement".  Once that was the verdict of a
\* finished run it stays a failure.
DisownedStaysFailed ==
    [][(consumer \in Finished /\ Verdict.diagnostic = {"TerminalExitDisagreement"})
        => (Verdict.status)' = "failed"]_vars

\* lifecycle.py:97-100: "a nonzero taskkill, or a process still alive after
\* the bounded wait, both mean descendants may still be running. That is
\* reported as False", and so cancel() answers unknown: never forced over a
\* descendant that a nonzero taskkill left running.
NonzeroKillerIsUnknown ==
    \A s \in Stoppers :
        (killerStatus[s] = "nonzero" /\ descendant # "none")
            => result[s] \in {"none", "unknown"}

\* Spec line 282: a terminal result that was committed first is the end, which
\* observe.py:172 repeats ("once a terminal result is committed, that state is
\* the end").  So a turn that nobody cancelled, and whose provider reported a
\* failure, is reported as failed, whatever the provider announces after it.
CommittedFailureIsReported ==
    (consumer \in Finished /\ terminal = "failed" /\ \A s \in Stoppers : stage[s] = "idle")
        => Verdict.status = "failed"
=============================================================================
