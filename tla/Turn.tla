--------------------------------- MODULE Turn ---------------------------------
(***************************************************************************)
(* What one turn promises whoever waits for it: which of the provider's    *)
(* result and a stop decided it, and the status reported for it.  What     *)
(* came first is final (spec line 282), and so is a decided status.  The   *)
(* run observer implements this but for two steps, which are findings      *)
(* (RunObserver, ImplementsTurn).                                          *)
(***************************************************************************)
VARIABLES
    decided,   \* what came first: "open" until something did
    status     \* what wait() says; "pending" until the events have ended

turnVars == <<decided, status>>

Results == {"completed", "failed"}

\* The statuses a turn decided this way may be given when it ends.  Only a
\* completed result leaves room: the exit status may disown it, and a native
\* worker that is still running makes it unknown.
Reportable(d) ==
    CASE d = "open" -> {"failed", "unknown_outcome"}
      [] d = "completed" -> {"completed", "failed", "unknown_outcome"}
      [] d = "failed" -> {"failed"}
      [] d = "stopped" -> {"unknown_outcome"}

Init == decided = "open" /\ status = "pending"

\* The provider commits its result.
Commit(r) ==
    /\ decided = "open" /\ status = "pending"
    /\ decided' = r
    /\ UNCHANGED status

\* A cancellation, a shutdown or an overspent budget stops an undecided turn;
\* one that was decided is not for them to stop.
Stop ==
    /\ decided = "open" /\ status = "pending"
    /\ decided' = "stopped"
    /\ UNCHANGED status

\* The events have ended and the process is reaped.
Conclude(s) ==
    /\ status = "pending"
    /\ s \in Reportable(decided)
    /\ status' = s
    /\ UNCHANGED decided

\* A stop that comes after the end is still recorded: a turn that ended
\* undecided becomes unknown.  No other status is ever revised.
StopAfterEnd ==
    /\ decided = "open" /\ status \in Reportable("open")
    /\ decided' = "stopped" /\ status' = "unknown_outcome"

Next ==
    \/ \E r \in Results : Commit(r)
    \/ Stop
    \/ \E s \in {"completed", "failed", "unknown_outcome"} : Conclude(s)
    \/ StopAfterEnd

TurnSpec == Init /\ [][Next]_turnVars
=============================================================================
