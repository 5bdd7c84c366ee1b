------------------------- MODULE RunObserverEndProofs -------------------------
(***************************************************************************)
(* How an observed run ends: what it leaves behind, and that it implements *)
(* the abstract Turn, for any workers, repertoire, queue bound and number  *)
(* of concurrent cancellations and shutdowns.                              *)
(***************************************************************************)
EXTENDS RunObserverProofs

\* The readers are over before the generator waits for the child, and what
\* close_transport and the reaping settled stays settled.
CleanupHolds ==
    /\ consumer = "reaping" => DrainTasksDone /\ ~held
    /\ ConcludedRunLeavesNothing

LEMMA CleanupStep ==
    ASSUME TypeOK, CleanupHolds, [Next]_vars
    PROVE CleanupHolds'
<1> USE DEF CleanupHolds, ConcludedRunLeavesNothing, Finished, DrainTasksDone
<1>1. CASE OperatingSystem
  <2>1. Reaped => Reaped' /\ returncode' = returncode
    BY ReapedOnce DEF Reaped
  <2>2. UNCHANGED <<consumer, stdoutTask, stderrTask, held, exitCode, transportOpen>>
    BY <1>1 DEF OperatingSystem, ChildExits, ChildClosesStreams, DescendantExits,
       taskVars, consumerVars
  <2> QED
    BY <2>1, <2>2
<1>2. CASE StdoutDrain \/ StderrEnds
  <2>1. UNCHANGED <<childVars, consumer, exitCode, held>>
    BY <1>2 DEF StdoutDrain, ReadEvent, ReadOverspend, ReadAfterTerminal,
       ReadCorrupt, ReadEof, Unpark, StdoutCancelled, StderrEnds, consumerVars,
       taskVars
  <2>2. DrainTasksDone => DrainTasksDone'
    BY <1>2 DEF StdoutDrain, StdoutReads, ReadEvent, ReadOverspend,
       ReadAfterTerminal, ReadCorrupt, ReadEof, Unpark, StdoutCancelled,
       StderrEnds, taskVars
  <2> QED
    BY <2>1, <2>2 DEF childVars, Reaped
<1>3. CASE Consumer
  <2>1. CASE StartEvents \/ Receive \/ ReceiveEnd \/ Resume \/ Abandon
    BY <2>1 DEF StartEvents, Receive, ReceiveEnd, Resume, Abandon, BeginCleanup
  <2>2. CASE Gathered
    BY <2>2 DEF Gathered, Conclude, CloseTransport, Reaped
  <2>3. CASE ReapChild
    BY <2>3 DEF ReapChild, WaitReleased, Conclude, CloseTransport, Reaped, taskVars
  <2> QED
    BY <1>3, <2>1, <2>2, <2>3 DEF Consumer
<1>4. ASSUME NEW s \in Stoppers, Stop(s) \/ StopProceeds(s) PROVE CleanupHolds'
  <2>1. /\ UNCHANGED <<returncode, consumer, stdoutTask, stderrTask, exitCode>>
        /\ ~held => ~held'
        /\ ~transportOpen => ~transportOpen'
    BY <1>4 DEF Stop, StopProceeds, GraceExit, GraceTimeoutReaped, GraceTimeout,
       GraceTimeoutNoKiller, KillerNotStarted, KillerEnds, TreeReaped, TreeTimeout,
       ChildReaped, ChildTimeout, Drained, CancelReturns, CloseTransport,
       childVars, taskVars, consumerVars
  <2> QED
    BY <2>1 DEF Reaped
<1>5. CASE UNCHANGED vars
  BY <1>5 DEF vars, childVars, taskVars, consumerVars, Reaped
<1> QED
  BY <1>1, <1>2, <1>3, <1>4, <1>5 DEF Next

LEMMA CleanupAlways == Spec => []CleanupHolds
<1>1. Init => CleanupHolds
  BY DEF Init, CleanupHolds, ConcludedRunLeavesNothing, Finished
<1> QED
  BY <1>1, CleanupStep, RunTypeCorrect, PTL DEF Spec

\* Whatever ended the observation, and whoever killed, closed or cancelled in
\* between: the child is reaped, its status is the one the verdict reads, both
\* readers are over and the pipes are closed (the finally block of events()).
THEOREM NothingIsLeft == Spec => []ConcludedRunLeavesNothing
<1>1. CleanupHolds => ConcludedRunLeavesNothing
  BY DEF CleanupHolds
<1> QED
  BY <1>1, CleanupAlways, PTL

-----------------------------------------------------------------------------
(* shutdown().                                                             *)

\* A shutdown that returns leaves no reader pending and no pipe open, also
\* when it returns while the generator is still waiting for the child
\* (RunObserver.shutdown, after cancel()).
THEOREM ShutdownIsThorough == Spec => ShutdownEndsTheTasks
<1>1. TypeOK /\ [Next]_vars =>
        \A s \in Closers : (stage[s] # "done" /\ stage'[s] = "done")
            => ~PendingDrainTasks' /\ ~transportOpen'
  <2> SUFFICES ASSUME TypeOK, [Next]_vars, NEW k \in Closers,
                      stage[k] # "done", stage'[k] = "done"
               PROVE ~PendingDrainTasks' /\ ~transportOpen'
    OBVIOUS
  <2>1. PICK s \in Stoppers : Stop(s) \/ StopProceeds(s)
    BY OthersLeaveStops DEF Next, stopVars
  <2>2. ASSUME NEW from, NEW outcome, NEW closed, CancelReturns(s, from, outcome, closed),
               UNCHANGED held
        PROVE ~PendingDrainTasks' /\ ~transportOpen'
    <3>1. s = k /\ ~held
      BY <2>2 DEF CancelReturns, Move, TypeOK, StopTypes
    <3> QED
      BY <2>2, <3>1 DEF CancelReturns, CloseTransport, PendingDrainTasks
  <2>3. CASE Drained(s)
    BY <2>3 DEF Drained, CloseTransport, PendingDrainTasks
  <2>4. ASSUME NEW to, NEW from, Move(s, from, to), to # "done" PROVE FALSE
    BY <2>4 DEF Move, TypeOK, StopTypes
  <2>5. CASE Stop(s)
    BY <2>2, <2>4, <2>5 DEF Stop
  <2>6. CASE GraceExit(s) \/ GraceTimeoutReaped(s) \/ TreeReaped(s) \/ TreeTimeout(s)
             \/ ChildReaped(s) \/ ChildTimeout(s)
    BY <2>2, <2>6 DEF GraceExit, GraceTimeoutReaped, TreeReaped, TreeTimeout,
       ChildReaped, ChildTimeout
  <2>7. CASE GraceTimeout(s) \/ GraceTimeoutNoKiller(s) \/ KillerNotStarted(s)
    BY <2>4, <2>7 DEF GraceTimeout, GraceTimeoutNoKiller, KillerNotStarted
  <2>8. ASSUME NEW status, KillerEnds(s, status)
        PROVE ~PendingDrainTasks' /\ ~transportOpen'
    BY <2>2, <2>4, <2>8 DEF KillerEnds
  <2> QED
    BY <2>1, <2>3, <2>5, <2>6, <2>7, <2>8 DEF StopProceeds
<1> QED
  BY <1>1, RunTypeCorrect, PTL DEF Spec, ShutdownEndsTheTasks

-----------------------------------------------------------------------------
(* The run implements Turn.                                                *)

\* The statuses a run may be given are those its abstract decision allows,
\* whatever the other witnesses say (the branches of resolve_outcome).
VerdictIsReportable == Verdict.status \in TheTurn!Reportable(Decided)

LEMMA DecisionTypes ==
    ASSUME TypeOK
    PROVE /\ Decided \in {"open", "stopped"} \cup TheTurn!Results
          /\ Decided = "stopped" <=> cancelledBefore
          /\ Decided = "open" <=> ~cancelledBefore /\ terminal = "none"
          /\ Decided \in TheTurn!Results => ~cancelledBefore /\ Decided = terminal
  BY DEF TypeOK, StreamTypes, StopTypes, TerminalEvent, Decided, TheTurn!Results

LEMMA VerdictAllowed == ASSUME TypeOK PROVE VerdictIsReportable
<1>1. /\ cancelledBefore => Verdict.status = "unknown_outcome"
      /\ ~cancelledBefore /\ terminal = "failed" => Verdict.status = "failed"
      /\ ~cancelledBefore /\ terminal = "none"
            => Verdict.status \in {"failed", "unknown_outcome"}
      /\ Verdict.status \in {"completed", "failed", "unknown_outcome"}
  BY DEF Verdict, ResolveOutcome, RunOutcome
<1>2. /\ TheTurn!Reportable("open") = {"failed", "unknown_outcome"}
      /\ TheTurn!Reportable("completed") = {"completed", "failed", "unknown_outcome"}
      /\ TheTurn!Reportable("failed") = {"failed"}
      /\ TheTurn!Reportable("stopped") = {"unknown_outcome"}
  BY Zenon DEF TheTurn!Reportable
<1>3. Decided \in {"open", "stopped", "completed", "failed"}
  BY DecisionTypes DEF TheTurn!Results
<1>4. /\ Decided = "stopped" => cancelledBefore
      /\ Decided = "open" => ~cancelledBefore /\ terminal = "none"
      /\ Decided = "failed" => ~cancelledBefore /\ terminal = "failed"
  BY DecisionTypes DEF TheTurn!Results
<1> QED
  BY <1>1, <1>2, <1>3, <1>4 DEF VerdictIsReportable

\* What is decided stays: a result is the first one, and nothing but a start
\* past the budget stops a turn after it.
LEMMA DecisionsStand ==
    ASSUME [Next]_vars
    PROVE /\ cancelledBefore => cancelledBefore'
          /\ terminal # "none" => terminal' = terminal
          /\ (terminal # "none" /\ ~cancelledBefore /\ cancelledBefore') => breach' # NoBreach
<1>1. CASE OperatingSystem
  BY <1>1 DEF OperatingSystem, ChildExits, ChildClosesStreams, DescendantExits,
     streamVars, orderVars
<1>2. CASE StdoutDrain \/ StderrEnds
  <2>1. cancelledBefore => cancelledBefore'
    BY <1>2 DEF StdoutDrain, ReadEvent, ReadOverspend, ReadAfterTerminal,
       ReadCorrupt, ReadEof, Unpark, StdoutCancelled, StderrEnds, orderVars
  <2>2. terminal # "none" => terminal' = terminal
    BY <1>2 DEF StdoutDrain, ReadEvent, ReadOverspend, ReadAfterTerminal,
       ReadCorrupt, ReadEof, Unpark, StdoutCancelled, StderrEnds, streamVars
  <2>3. cancelledBefore' # cancelledBefore => breach' # NoBreach
    BY <1>2 DEF StdoutDrain, ReadEvent, ReadOverspend, Overspends, ReadAfterTerminal,
       ReadCorrupt, ReadEof, Unpark, StdoutCancelled, StderrEnds, orderVars
  <2> QED
    BY <2>1, <2>2, <2>3
<1>3. CASE Consumer
  <2>1. UNCHANGED <<terminal, cancelledBefore>>
    BY <1>3 DEF Consumer, StartEvents, Receive, ReceiveEnd, Resume, Abandon,
       Gathered, ReapChild, streamVars, orderVars
  <2> QED
    BY <2>1
<1>4. ASSUME NEW s \in Stoppers, Stop(s) \/ StopProceeds(s)
      PROVE /\ UNCHANGED terminal
            /\ cancelledBefore => cancelledBefore'
            /\ terminal # "none" => UNCHANGED cancelledBefore
  <2>1. Stop(s) => RecordOrder /\ UNCHANGED terminal
    BY DEF Stop, streamVars
  <2>2. StopProceeds(s) => UNCHANGED <<terminal, cancelledBefore>>
    BY DEF StopProceeds, GraceExit, GraceTimeoutReaped, GraceTimeout,
       GraceTimeoutNoKiller, KillerNotStarted, KillerEnds, TreeReaped, TreeTimeout,
       ChildReaped, ChildTimeout, Drained, streamVars, orderVars
  <2>3. /\ RecordOrder => (cancelledBefore => cancelledBefore')
        /\ RecordOrder => (terminal # "none" => UNCHANGED cancelledBefore)
    BY DEF RecordOrder
  <2> QED
    BY <1>4, <2>1, <2>2, <2>3
<1>5. CASE UNCHANGED vars
  BY <1>5 DEF vars, streamVars, orderVars
<1> QED
  BY <1>1, <1>2, <1>3, <1>4, <1>5 DEF Next

\* The step that ends the observation decides nothing.
LEMMA ConclusionDecidesNothing ==
    ASSUME consumer \notin Finished, consumer' \in Finished, [Next]_vars
    PROVE UNCHANGED <<terminal, cancelledBefore>>
<1>1. CASE Consumer
  BY <1>1 DEF Consumer, StartEvents, Receive, ReceiveEnd, Resume, Abandon,
     BeginCleanup, Finished, Gathered, ReapChild, streamVars, orderVars
<1>2. CASE OperatingSystem \/ StdoutDrain \/ StderrEnds \/ UNCHANGED vars
  BY <1>2 DEF OperatingSystem, ChildExits, ChildClosesStreams, DescendantExits,
     StdoutDrain, ReadEvent, ReadOverspend, ReadAfterTerminal, ReadCorrupt, ReadEof,
     Unpark, StdoutCancelled, StderrEnds, vars, consumerVars
<1>3. ASSUME NEW s \in Stoppers, Stop(s) \/ StopProceeds(s) PROVE UNCHANGED consumer
  BY <1>3 DEF Stop, StopProceeds, GraceExit, GraceTimeoutReaped, GraceTimeout,
     GraceTimeoutNoKiller, KillerNotStarted, KillerEnds, TreeReaped, TreeTimeout,
     ChildReaped, ChildTimeout, Drained, consumerVars
<1> QED
  BY <1>1, <1>2, <1>3 DEF Next

\* Once it has ended only a late stop touches what the verdict is made of.
LEMMA OnlyStopsAfterEnd ==
    ASSUME ReadingIsOver, consumer \in Finished, [Next]_vars
    PROVE /\ UNCHANGED <<consumer, terminal, ledger, breach, exitCode>>
          /\ \/ UNCHANGED <<cancelledBefore, cancelledAfter>>
             \/ RecordOrder
<1> USE DEF ReadingIsOver, Finished
<1>1. CASE OperatingSystem \/ UNCHANGED vars
  BY <1>1 DEF OperatingSystem, ChildExits, ChildClosesStreams, DescendantExits,
     vars, streamVars, consumerVars, orderVars
<1>2. CASE StdoutDrain \/ StderrEnds
  BY <1>2 DEF StdoutDrain, StdoutReads, ReadEvent, ReadOverspend, ReadAfterTerminal,
     ReadCorrupt, ReadEof, Unpark, StdoutCancelled, StderrEnds, streamVars,
     consumerVars, orderVars
<1>3. CASE Consumer
  BY <1>3 DEF Consumer, StartEvents, Receive, ReceiveEnd, Resume, Abandon,
     Gathered, ReapChild
<1>4. ASSUME NEW s \in Stoppers, Stop(s)
      PROVE UNCHANGED <<consumer, terminal, ledger, breach, exitCode>> /\ RecordOrder
  BY <1>4 DEF Stop, streamVars, consumerVars
<1>5. ASSUME NEW s \in Stoppers, StopProceeds(s)
      PROVE UNCHANGED <<consumer, terminal, ledger, breach, exitCode, orderVars>>
  BY <1>5 DEF StopProceeds, GraceExit, GraceTimeoutReaped, GraceTimeout,
     GraceTimeoutNoKiller, KillerNotStarted, KillerEnds, TreeReaped, TreeTimeout,
     ChildReaped, ChildTimeout, Drained, streamVars, consumerVars
<1> QED
  BY <1>1, <1>2, <1>3, <1>4, <1>5 DEF Next, orderVars

\* A late stop of a reaped run: what it may make of the verdict.
LEMMA LateStopVerdict ==
    ASSUME TypeOK, consumer \in Finished, CleanupHolds, ~cancelledBefore,
           terminal = "completed", UNCHANGED <<terminal, ledger, breach, exitCode>>,
           cancelledAfter', UNCHANGED cancelledBefore
    PROVE /\ Verdict.status = "failed"
                => Verdict.diagnostic = {"TerminalExitDisagreement"} /\ ~cancelledAfter
          /\ Verdict.status # "failed" => (Verdict.status)' = Verdict.status
<1>1. exitCode \in {"zero", "nonzero"}
  BY DEF CleanupHolds, ConcludedRunLeavesNothing, Reaped, TypeOK, ConsumerTypes, ExitCode
<1>2. Unresolved(ledger)' = Unresolved(ledger)
  BY DEF Unresolved
<1>3. (Verdict.status)' = IF Unresolved(ledger) THEN "unknown_outcome" ELSE "completed"
  BY <1>2 DEF Verdict, ResolveOutcome, RunOutcome
<1>4. Verdict.status = IF cancelledAfter \/ exitCode = "zero"
                       THEN IF Unresolved(ledger) THEN "unknown_outcome" ELSE "completed"
                       ELSE "failed"
  BY <1>1 DEF Verdict, ResolveOutcome, RunOutcome
<1>5. ~cancelledAfter /\ exitCode # "zero"
        => Verdict.diagnostic = {"TerminalExitDisagreement"}
  BY <1>1 DEF Verdict, ResolveOutcome, RunOutcome
<1> QED
  BY <1>3, <1>4, <1>5

\* Every step of a run but two is a step of its turn or leaves the turn alone.
LEMMA TurnStep ==
    ASSUME TypeOK, TypeOK', ReadingIsOver, CleanupHolds, VerdictIsReportable,
           VerdictIsReportable', [Next]_vars
    PROVE ResultOverspent \/ DisownedThenStopped \/ [TheTurn!Next]_(TheTurn!turnVars)
<1> USE DEF TheTurn!Next, TheTurn!turnVars
<1>0. /\ Decided \in {"open", "stopped"} \cup TheTurn!Results
      /\ Decided' \in {"open", "stopped"} \cup TheTurn!Results
  BY DEF TypeOK, StreamTypes, TerminalEvent, Decided, TheTurn!Results
<1>1. CASE consumer \notin Finished /\ consumer' \notin Finished
  <2>1. Reported = "pending" /\ Reported' = "pending"
    BY <1>1 DEF Reported
  <2>2. /\ Decided = "stopped" => Decided' = "stopped"
        /\ Decided \in TheTurn!Results => Decided' \in {Decided, "stopped"}
    BY DecisionsStand DEF Decided, TheTurn!Results
  <2>3. CASE Decided' = Decided
    BY <2>1, <2>3
  <2>4. CASE Decided = "open" /\ Decided' \in TheTurn!Results
    BY <2>1, <2>4 DEF TheTurn!Commit
  <2>5. CASE Decided = "open" /\ Decided' = "stopped"
    BY <2>1, <2>5 DEF TheTurn!Stop
  <2>6. CASE Decided \in TheTurn!Results /\ Decided' = "stopped"
    <3>1. terminal # "none" /\ ~cancelledBefore /\ cancelledBefore'
      BY <2>6 DEF TypeOK, StreamTypes, TerminalEvent, Decided, TheTurn!Results
    <3> QED
      BY <2>6, <3>1, DecisionsStand DEF ResultOverspent
  <2> QED
    BY <1>0, <2>2, <2>3, <2>4, <2>5, <2>6
<1>2. CASE consumer \notin Finished /\ consumer' \in Finished
  <2>1. Reported = "pending" /\ Reported' = (Verdict.status)'
    BY <1>2 DEF Reported
  <2>2. Decided' = Decided
    BY <1>2, ConclusionDecidesNothing DEF Decided
  <2>3. (Verdict.status)' \in TheTurn!Reportable(Decided)
    BY <2>2 DEF VerdictIsReportable
  <2>4. (Verdict.status)' \in {"completed", "failed", "unknown_outcome"}
    BY DEF Verdict, ResolveOutcome, RunOutcome
  <2> QED
    BY <2>1, <2>2, <2>3, <2>4 DEF TheTurn!Conclude
<1>3. CASE consumer \in Finished
  <2>1. /\ UNCHANGED <<consumer, terminal, ledger, breach, exitCode>>
        /\ UNCHANGED <<cancelledBefore, cancelledAfter>> \/ RecordOrder
    BY <1>3, OnlyStopsAfterEnd
  <2>2. Reported = Verdict.status /\ Reported' = (Verdict.status)'
    BY <1>3, <2>1 DEF Reported
  <2>3. CASE UNCHANGED <<cancelledBefore, cancelledAfter>>
    <3>1. Decided' = Decided /\ Unresolved(ledger)' = Unresolved(ledger)
      BY <2>1, <2>3 DEF Decided, Unresolved
    <3>2. (Verdict.status)' = Verdict.status
      BY <2>1, <2>3, <3>1 DEF Verdict
    <3> QED
      BY <2>2, <3>1, <3>2
  <2>4. CASE cancelledBefore /\ RecordOrder
    <3>1. cancelledBefore'
      BY <2>4 DEF RecordOrder
    <3>2. Verdict.status = "unknown_outcome" /\ (Verdict.status)' = "unknown_outcome"
      BY <2>4, <3>1 DEF Verdict, ResolveOutcome, RunOutcome
    <3>3. Decided = "stopped" /\ Decided' = "stopped"
      BY <2>4, <3>1 DEF Decided
    <3> QED
      BY <2>2, <3>2, <3>3
  <2>5. CASE ~cancelledBefore /\ terminal = "none" /\ RecordOrder
    <3>1. Decided = "open" /\ Decided' = "stopped"
      BY <2>5 DEF Decided, RecordOrder
    <3>2. (Verdict.status)' = "unknown_outcome"
      BY <2>5 DEF RecordOrder, Verdict, ResolveOutcome, RunOutcome
    <3>3. Verdict.status \in TheTurn!Reportable("open")
      BY <3>1 DEF VerdictIsReportable
    <3> QED
      BY <2>2, <3>1, <3>2, <3>3 DEF TheTurn!StopAfterEnd
  <2>6. CASE ~cancelledBefore /\ terminal = "failed" /\ RecordOrder
    <3>1. terminal' = "failed" /\ cancelledBefore' = cancelledBefore
      BY <2>1, <2>6 DEF RecordOrder
    <3>2. Verdict.status = "failed" /\ (Verdict.status)' = "failed"
      BY <2>6, <3>1 DEF Verdict, ResolveOutcome, RunOutcome
    <3>3. Decided' = Decided
      BY <2>6, <3>1 DEF Decided
    <3> QED
      BY <2>2, <3>2, <3>3
  <2>7. CASE ~cancelledBefore /\ terminal = "completed" /\ RecordOrder
    <3>1. terminal' = "completed" /\ cancelledBefore' = cancelledBefore /\ cancelledAfter'
      BY <2>1, <2>7 DEF RecordOrder
    <3>2. Decided = "completed" /\ Decided' = Decided
      BY <2>7, <3>1 DEF Decided
    <3>3. /\ Verdict.status = "failed"
               => Verdict.diagnostic = {"TerminalExitDisagreement"} /\ ~cancelledAfter
          /\ Verdict.status # "failed" => (Verdict.status)' = Verdict.status
      BY <1>3, <2>1, <2>7, <3>1, LateStopVerdict
    <3> QED
      BY <1>3, <2>2, <3>1, <3>2, <3>3 DEF DisownedThenStopped
  <2> QED
    BY <2>1, <2>3, <2>4, <2>5, <2>6, <2>7 DEF TypeOK, StreamTypes, TerminalEvent
<1> QED
  BY <1>1, <1>2, <1>3

\* A run implements the abstract turn but for the two steps named in
\* ImplementsTurn: the race between the provider's result and every stop is
\* settled once, and a status that was decided is never revised.
THEOREM RunImplementsTurn == Spec => ImplementsTurn
<1>1. Init => TheTurn!Init
  BY DEF Init, TheTurn!Init, Decided, Reported, Finished
<1>2. Init => ReadingIsOver
  BY DEF Init, ReadingIsOver, Finished
<1>3. TypeOK => VerdictIsReportable
  BY VerdictAllowed
<1>4. TypeOK /\ ReadingIsOver /\ [Next]_vars => ReadingIsOver'
  BY ReadingStaysOver
<1>5. /\ TypeOK /\ TypeOK' /\ ReadingIsOver /\ CleanupHolds /\ VerdictIsReportable
      /\ VerdictIsReportable' /\ [Next]_vars
      => [ResultOverspent \/ DisownedThenStopped
            \/ [TheTurn!Next]_(TheTurn!turnVars)]_vars
  BY TurnStep
<1> QED
  BY <1>1, <1>2, <1>3, <1>4, <1>5, RunTypeCorrect, CleanupAlways, PTL
     DEF Spec, ImplementsTurn
=============================================================================
