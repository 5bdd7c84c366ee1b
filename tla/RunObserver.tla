----------------------------- MODULE RunObserver -----------------------------
(***************************************************************************)
(* One observed run: the provider's child process, the two tasks that      *)
(* drain its pipes, the caller that iterates events(), and any number of   *)
(* tasks that call cancel() or shutdown() on it                            *)
(* (whole_life/runtime/observe.py and lifecycle.py).                       *)
(*                                                                         *)
(* An action is what one asyncio task does between two awaits.  A provider *)
(* line carries at most one event here: a line with two is a line followed *)
(* at once by another.  Bytes, decoding and the line bounds live in the    *)
(* "corrupt line" that ReadCorrupt reads.                                  *)
(***************************************************************************)
EXTENDS DelegationLedger, Sequences

CONSTANTS
    Cancellers,   \* tasks that call cancel() once
    Closers,      \* tasks that call shutdown() once, as close() does
    Workers,      \* identifiers the provider gives its native workers
    NoWorker,     \* the worker of an event that is not about one
    Repertoire,   \* the events this provider may announce
    Descendants,  \* what else may be running: "none", or a child's child that
                  \* is "holding" the pipes it inherited or is "detached"
    QueueMax,     \* asyncio.Queue(maxsize=...)
    MaxLines      \* bound of the model: lines the provider prints

Event == [kind : {"message", "completed", "failed", "start", "finish"},
          worker : Workers \cup {NoWorker},
          depth : Nat]

\* The sentinel that tells the consumer the stream is over.
End == [kind |-> "end", worker |-> NoWorker, depth |-> 0]

ASSUME ObserverAssumption ==
    /\ Cancellers \cap Closers = {}
    /\ NoWorker \notin Workers
    /\ Repertoire \subseteq Event
    /\ \A e \in Repertoire : e.kind \in {"start", "finish"} => e.worker \in Workers
    /\ Descendants \subseteq {"none", "holding", "detached"}
    /\ QueueMax \in Nat \ {0}
    /\ MaxLines \in Nat

Stoppers == Cancellers \cup Closers

VARIABLES
    \* the child process and what asyncio knows of it
    returncode,      \* the exit status once the event loop has noticed it
    killed,          \* a kill reached the process before it was reaped
    streamsOpen,     \* the child still holds its stdout and stderr
    descendant,      \* a process the child started: "holding" our pipes or not
    transportOpen,   \* asyncio's transport and our ends of the pipes
    \* the drain tasks
    stdoutTask, stderrTask,
    parked,          \* the item a full queue made the stdout task wait with
    cancelRequested, \* tasks on which cancel() was called
    held,            \* the observer's _readers is not empty
    \* what the observer remembers
    queue, terminal, failure, ledger, breach, exitCode, streamEnded,
    cancelledBefore, cancelledAfter, cleanupFailure, reapFailure,
    \* the caller of events()
    consumer,
    seen,            \* the events it received, in order
    lines,           \* lines read so far
    \* the callers of cancel() and shutdown()
    stage, result,
    killerStatus     \* the exit status of the taskkill each of them ran

childVars == <<returncode, killed, streamsOpen, descendant, transportOpen>>
taskVars == <<stdoutTask, stderrTask, parked, cancelRequested, held>>
streamVars == <<queue, terminal, failure, ledger, breach, lines>>
consumerVars == <<consumer, seen, streamEnded, exitCode>>
orderVars == <<cancelledBefore, cancelledAfter>>
cleanupVars == <<cleanupFailure, reapFailure>>
stopVars == <<stage, result, killerStatus>>
vars == <<childVars, taskVars, streamVars, consumerVars, orderVars,
          cleanupVars, stopVars>>

-----------------------------------------------------------------------------

Reaped == returncode # "unobserved"

\* Our end is closed, or no process is left to write on the other end.
Eof == ~transportOpen \/ (~streamsOpen /\ descendant # "holding")

\* A wait() entered before the exit was noticed is released only once every
\* pipe is disconnected as well; one entered later returns at once.
WaitReleased == Reaped /\ Eof

TerminalOf(e) == IF e.kind \in {"completed", "failed"} THEN e.kind ELSE "none"

DrainTasks == {"stdout", "stderr"}
DrainTasksDone == stdoutTask = "done" /\ stderrTask = "done"
PendingDrainTasks == held /\ ~DrainTasksDone

Finished == {"returned", "raised", "abandoned"}

\* Mutant of Verdict: outcome() does not hand over the unresolved workers.
VerdictForgetsWorkers ==
    ResolveOutcome(terminal, exitCode, cancelledBefore, cancelledAfter, breach, FALSE)

\* resolve_outcome over what the observer knows now.
Verdict ==
    ResolveOutcome(terminal, exitCode, cancelledBefore, cancelledAfter,
                   breach, Unresolved(ledger))

Init ==
    /\ returncode = "unobserved" /\ killed = FALSE
    /\ streamsOpen = TRUE /\ transportOpen = TRUE
    /\ descendant \in Descendants
    /\ stdoutTask = "unborn" /\ stderrTask = "unborn"
    /\ parked = <<>> /\ cancelRequested = {} /\ held = FALSE
    /\ queue = <<>> /\ terminal = "none" /\ failure = FALSE
    /\ ledger = EmptyLedger /\ breach = NoBreach /\ lines = 0
    /\ consumer = "unborn" /\ seen = <<>>
    /\ streamEnded = FALSE /\ exitCode = "unobserved"
    /\ cancelledBefore = FALSE /\ cancelledAfter = FALSE
    /\ cleanupFailure = FALSE /\ reapFailure = FALSE
    /\ stage = [s \in Stoppers |-> "idle"]
    /\ result = [s \in Stoppers |-> "none"]
    /\ killerStatus = [s \in Stoppers |-> "unobserved"]

-----------------------------------------------------------------------------
(* The operating system.                                                   *)

\* The child ends, of itself or killed, and the event loop notices.  A kill
\* may arrive at a process that had already ended cleanly.
ChildExits(code) ==
    /\ ~Reaped
    /\ returncode' = code
    /\ streamsOpen' = FALSE
    /\ UNCHANGED <<killed, descendant, transportOpen, taskVars, streamVars,
                   consumerVars, orderVars, cleanupVars, stopVars>>

\* A child may close its streams and still be finishing.
ChildClosesStreams ==
    /\ ~Reaped /\ streamsOpen
    /\ streamsOpen' = FALSE
    /\ UNCHANGED <<returncode, killed, descendant, transportOpen, taskVars,
                   streamVars, consumerVars, orderVars, cleanupVars, stopVars>>

DescendantExits ==
    /\ descendant # "none"
    /\ descendant' = "none"
    /\ UNCHANGED <<returncode, killed, streamsOpen, transportOpen, taskVars,
                   streamVars, consumerVars, orderVars, cleanupVars, stopVars>>

\* process.kill(): nothing to do once the exit was noticed.
Kill == killed' = (killed \/ ~Reaped)

\* Closing the transport disconnects the pipes, and kills a live child.
CloseTransport == transportOpen' = FALSE /\ Kill

-----------------------------------------------------------------------------
(* The stdout drain task.                                                  *)

\* Mutant of Put: put_nowait on a queue without a bound.
PutNowait(item, next) ==
    queue' = Append(queue, item) /\ stdoutTask' = next /\ UNCHANGED parked

\* await queue.put(item): a full queue parks the task, item in hand.
Put(item, next) ==
    \/ /\ Len(queue) < QueueMax
       /\ queue' = Append(queue, item)
       /\ stdoutTask' = next
       /\ UNCHANGED parked
    \/ /\ Len(queue) >= QueueMax
       /\ parked' = <<item>>
       /\ stdoutTask' = "parked"
       /\ UNCHANGED queue

StdoutReads ==
    /\ stdoutTask = "reading"
    /\ "stdout" \notin cancelRequested

\* One event is charged to the ledger before anything else is decided, even
\* when the turn has already ended.
Charge(e) ==
    ledger' = CASE e.kind = "start" -> WorkerStarted(ledger, e.worker, e.depth)
                [] e.kind = "finish" -> WorkerFinished(ledger, e.worker)
                [] OTHER -> ledger

Overspends(e) ==
    e.kind = "start" /\ StartBreach(ledger, e.worker, e.depth) # NoBreach

\* The first start past the budget ends the reading: the ordering fact is
\* recorded, the event is not queued, and the sentinel is.
ReadOverspend(e) ==
    /\ StdoutReads /\ lines < MaxLines
    /\ Overspends(e)
    /\ lines' = lines + 1
    /\ Charge(e)
    /\ breach' = StartBreach(ledger, e.worker, e.depth)
    /\ cancelledBefore' = TRUE
    /\ Put(End, "done")
    /\ UNCHANGED <<childVars, stderrTask, cancelRequested, held, terminal,
                   failure, consumerVars, cancelledAfter, cleanupVars, stopVars>>

\* Once a terminal event is committed nothing after it is queued, and the
\* pipe is drained all the same.
ReadAfterTerminal(e) ==
    /\ StdoutReads /\ lines < MaxLines
    /\ ~Overspends(e)
    /\ terminal # "none"
    /\ lines' = lines + 1
    /\ Charge(e)
    /\ UNCHANGED <<childVars, taskVars, queue, terminal, failure, breach,
                   consumerVars, orderVars, cleanupVars, stopVars>>

\* Mutant of ReadEvent: _emit does not look whether the turn has ended.
ReadEventEver(e) ==
    /\ StdoutReads /\ lines < MaxLines
    /\ ~Overspends(e)
    /\ lines' = lines + 1
    /\ Charge(e)
    /\ terminal' = TerminalOf(e)
    /\ Put(e, "reading")
    /\ UNCHANGED <<childVars, stderrTask, cancelRequested, held, failure,
                   breach, consumerVars, orderVars, cleanupVars, stopVars>>

ReadEvent(e) ==
    /\ StdoutReads /\ lines < MaxLines
    /\ ~Overspends(e)
    /\ terminal = "none"
    /\ lines' = lines + 1
    /\ Charge(e)
    /\ terminal' = TerminalOf(e)
    /\ Put(e, "reading")
    /\ UNCHANGED <<childVars, stderrTask, cancelRequested, held, failure,
                   breach, consumerVars, orderVars, cleanupVars, stopVars>>

\* Mutant of ReadCorrupt: the failure is noted and reading goes on.
ReadCorruptOn ==
    /\ StdoutReads /\ lines < MaxLines
    /\ lines' = lines + 1
    /\ failure' = TRUE
    /\ Put(End, "reading")
    /\ UNCHANGED <<childVars, stderrTask, cancelRequested, held, terminal,
                   ledger, breach, consumerVars, orderVars, cleanupVars, stopVars>>

\* Mutant of ReadCorrupt: the task ends without telling the consumer.
ReadCorruptSilent ==
    /\ StdoutReads /\ lines < MaxLines
    /\ lines' = lines + 1
    /\ failure' = TRUE
    /\ stdoutTask' = "done"
    /\ UNCHANGED <<childVars, stderrTask, parked, cancelRequested, held, queue,
                   terminal, ledger, breach, consumerVars, orderVars,
                   cleanupVars, stopVars>>

\* Too long, not UTF-8, not JSON or not the schema: the stream has failed,
\* and the consumer must still be told that it is over.
ReadCorrupt ==
    /\ StdoutReads /\ lines < MaxLines
    /\ lines' = lines + 1
    /\ failure' = TRUE
    /\ Put(End, "done")
    /\ UNCHANGED <<childVars, stderrTask, cancelRequested, held, terminal,
                   ledger, breach, consumerVars, orderVars, cleanupVars, stopVars>>

ReadEof ==
    /\ StdoutReads /\ Eof
    /\ Put(End, "done")
    /\ UNCHANGED <<childVars, stderrTask, cancelRequested, held, terminal,
                   failure, ledger, breach, lines, consumerVars, orderVars,
                   cleanupVars, stopVars>>

\* The parked put goes through once the consumer has made room.
Unpark ==
    /\ stdoutTask = "parked" /\ "stdout" \notin cancelRequested
    /\ Len(queue) < QueueMax
    /\ queue' = queue \o parked
    /\ parked' = <<>>
    /\ stdoutTask' = IF parked = <<End>> THEN "done" ELSE "reading"
    /\ UNCHANGED <<childVars, stderrTask, cancelRequested, held, terminal,
                   failure, ledger, breach, lines, consumerVars, orderVars,
                   cleanupVars, stopVars>>

\* Cancelled, the task ends without a sentinel and drops what it had in hand.
StdoutCancelled ==
    /\ stdoutTask \in {"reading", "parked"} /\ "stdout" \in cancelRequested
    /\ stdoutTask' = "done"
    /\ parked' = <<>>
    /\ UNCHANGED <<childVars, stderrTask, cancelRequested, held, streamVars,
                   consumerVars, orderVars, cleanupVars, stopVars>>

\* The stderr task only fills its ring until the pipe ends or it is cancelled.
StderrEnds ==
    /\ stderrTask = "reading"
    /\ Eof \/ "stderr" \in cancelRequested
    /\ stderrTask' = "done"
    /\ UNCHANGED <<childVars, stdoutTask, parked, cancelRequested, held,
                   streamVars, consumerVars, orderVars, cleanupVars, stopVars>>

-----------------------------------------------------------------------------
(* The caller of events().                                                 *)

\* Both readers start before anything is consumed.
StartEvents ==
    /\ consumer = "unborn"
    /\ consumer' = "getting"
    /\ stdoutTask' = "reading" /\ stderrTask' = "reading" /\ held' = TRUE
    /\ UNCHANGED <<childVars, parked, cancelRequested, streamVars, seen,
                   streamEnded, exitCode, orderVars, cleanupVars, stopVars>>

\* Anything but the stream ending on its own means the child must go.
Aborted == failure \/ breach # NoBreach \/ ~streamEnded

\* The finally block up to its first await; ended is _stream_ended.
BeginCleanup(ended) ==
    /\ consumer' = "gathering"
    /\ streamEnded' = ended
    /\ IF failure \/ breach # NoBreach \/ ~ended
       THEN Kill /\ cancelRequested' = DrainTasks
       ELSE UNCHANGED <<killed, cancelRequested>>
    /\ UNCHANGED <<returncode, streamsOpen, descendant, transportOpen,
                   stdoutTask, stderrTask, parked, held, exitCode>>

Receive ==
    /\ consumer = "getting" /\ queue # <<>> /\ Head(queue) # End
    /\ queue' = Tail(queue)
    /\ seen' = Append(seen, Head(queue))
    /\ consumer' = "handling"
    /\ UNCHANGED <<childVars, taskVars, terminal, failure, ledger, breach, lines,
                   streamEnded, exitCode, orderVars, cleanupVars, stopVars>>

ReceiveEnd ==
    /\ consumer = "getting" /\ queue # <<>> /\ Head(queue) = End
    /\ queue' = Tail(queue)
    /\ BeginCleanup(TRUE)
    /\ UNCHANGED <<seen, terminal, failure, ledger, breach, lines, orderVars,
                   cleanupVars, stopVars>>

\* The caller comes back for the next event.
Resume ==
    /\ consumer = "handling"
    /\ consumer' = "getting"
    /\ UNCHANGED <<childVars, taskVars, streamVars, seen, streamEnded, exitCode,
                   orderVars, cleanupVars, stopVars>>

\* It breaks out of the loop, raises in it, or is cancelled while waiting.
Abandon ==
    /\ consumer \in {"getting", "handling"}
    /\ BeginCleanup(FALSE)
    /\ UNCHANGED <<streamVars, seen, orderVars, cleanupVars, stopVars>>

\* Mutant of Conclude: the exit status is waited for and not kept.
ConcludeUnrecorded ==
    /\ UNCHANGED exitCode
    /\ consumer' = CASE ~streamEnded -> "abandoned"
                     [] streamEnded /\ failure -> "raised"
                     [] OTHER -> "returned"

\* How the generator ends once the process is reaped.
Conclude ==
    /\ exitCode' = returncode
    /\ consumer' = CASE ~streamEnded -> "abandoned"
                     [] streamEnded /\ failure -> "raised"
                     [] OTHER -> "returned"

\* Mutants of ReleaseReaper: every run closes, no run closes.
ReleaseReaperAlways == CloseTransport
ReleaseReaperNever == UNCHANGED <<transportOpen, killed>>

\* Before the child is waited for an aborted run closes the transport, because
\* a pipe nobody reads would park that wait.  Only an aborted one: on the normal
\* path that would kill a child which is still finishing.
ReleaseReaper ==
    IF Aborted THEN CloseTransport ELSE UNCHANGED <<transportOpen, killed>>

\* Both drain tasks are over.
Gathered ==
    /\ consumer = "gathering" /\ DrainTasksDone
    /\ held' = FALSE
    /\ IF Reaped
       THEN Conclude /\ CloseTransport
       ELSE /\ consumer' = "reaping"
            /\ ReleaseReaper
            /\ UNCHANGED exitCode
    /\ UNCHANGED <<returncode, streamsOpen, descendant, stdoutTask, stderrTask,
                   parked, cancelRequested, streamVars, seen, streamEnded,
                   orderVars, cleanupVars, stopVars>>

ReapChild ==
    /\ consumer = "reaping" /\ WaitReleased
    /\ Conclude
    /\ CloseTransport
    /\ UNCHANGED <<returncode, streamsOpen, descendant, taskVars, streamVars,
                   seen, streamEnded, orderVars, cleanupVars, stopVars>>

-----------------------------------------------------------------------------
(* The callers of cancel() and of shutdown().                              *)

Move(s, from, to) == stage[s] = from /\ stage' = [stage EXCEPT ![s] = to]

\* Mutant of CancelReturns: shutdown() cancels the tasks and does not wait.
CancelReturnsAtOnce(s, from, outcome, closed) ==
    /\ Move(s, from, "done")
    /\ result' = [result EXCEPT ![s] = outcome]
    /\ cancelRequested' = IF s \in Closers /\ held THEN DrainTasks ELSE cancelRequested
    /\ IF closed \/ s \in Closers THEN CloseTransport
                                 ELSE UNCHANGED <<transportOpen, killed>>

\* Mutant of CancelReturns: shutdown() waits for tasks it did not cancel.
CancelReturnsToWait(s, from, outcome, closed) ==
    /\ Move(s, from, IF s \in Closers /\ held THEN "draining" ELSE "done")
    /\ result' = [result EXCEPT ![s] = outcome]
    /\ UNCHANGED cancelRequested
    /\ IF closed \/ (s \in Closers /\ ~held) THEN CloseTransport
                                 ELSE UNCHANGED <<transportOpen, killed>>

\* cancel() returns.  shutdown() goes on to cancel the drain tasks and to
\* wait for them; without any it closes the transport and is done.
\* closed says that the cancellation closes it in this very step.
CancelReturns(s, from, outcome, closed) ==
    LET drains == s \in Closers /\ held
        closes == closed \/ (s \in Closers /\ ~held)
    IN  /\ Move(s, from, IF drains THEN "draining" ELSE "done")
        /\ result' = [result EXCEPT ![s] = outcome]
        /\ cancelRequested' = IF drains THEN DrainTasks ELSE cancelRequested
        /\ IF closes THEN CloseTransport ELSE UNCHANGED <<transportOpen, killed>>

\* Mutants of RecordOrder: the latest cancellation revisits the fact, and
\* every cancellation counts as an early one.
RecordOrderAnew ==
    cancelledBefore' = (terminal = "none") /\ cancelledAfter' = (terminal # "none")
RecordOrderBefore == cancelledBefore' = TRUE /\ UNCHANGED cancelledAfter

\* Which came first, the terminal event or this cancellation.
RecordOrder ==
    IF terminal = "none"
    THEN cancelledBefore' = TRUE /\ UNCHANGED cancelledAfter
    ELSE cancelledAfter' = TRUE /\ UNCHANGED cancelledBefore

\* The ordering fact is recorded before anything is ended.  A child that was
\* already reaped makes the wait return at once.
Stop(s) ==
    /\ stage[s] = "idle"
    /\ RecordOrder
    /\ IF Reaped
       THEN CancelReturns(s, "idle", "graceful", FALSE)
       ELSE /\ Move(s, "idle", "grace")
            /\ UNCHANGED <<result, cancelRequested, transportOpen, killed>>
    /\ UNCHANGED <<returncode, streamsOpen, descendant, stdoutTask, stderrTask,
                   parked, held, streamVars, consumerVars, cleanupVars,
                   killerStatus>>

GraceExit(s) ==
    /\ WaitReleased
    /\ CancelReturns(s, "grace", "graceful", FALSE)
    /\ UNCHANGED <<returncode, streamsOpen, descendant, stdoutTask, stderrTask,
                   parked, held, streamVars, consumerVars, orderVars,
                   cleanupVars, killerStatus>>

\* The five seconds are over, and so is the child: nothing is escalated.
GraceTimeoutReaped(s) ==
    /\ Reaped
    /\ CancelReturns(s, "grace", "forced", FALSE)
    /\ UNCHANGED <<returncode, streamsOpen, descendant, stdoutTask, stderrTask,
                   parked, held, streamVars, consumerVars, orderVars,
                   cleanupVars, killerStatus>>

\* taskkill was found under SYSTEMROOT and is being run.
GraceTimeout(s) ==
    /\ ~Reaped
    /\ Move(s, "grace", "killing")
    /\ UNCHANGED <<childVars, taskVars, streamVars, consumerVars, orderVars,
                   cleanupVars, result, killerStatus>>

\* It was not: the reason is kept, and the child alone is killed.
GraceTimeoutNoKiller(s) ==
    /\ ~Reaped
    /\ Move(s, "grace", "reapingChild")
    /\ cleanupFailure' = TRUE
    /\ CloseTransport
    /\ UNCHANGED <<returncode, streamsOpen, descendant, taskVars, streamVars,
                   consumerVars, orderVars, reapFailure, result, killerStatus>>

\* taskkill could not be started: the OSError leaves cancel() and shutdown().
KillerNotStarted(s) ==
    /\ Move(s, "killing", "raised")
    /\ UNCHANGED <<childVars, taskVars, streamVars, consumerVars, orderVars,
                   cleanupVars, result, killerStatus>>

\* taskkill ended.  Zero means the whole tree is dead; nonzero that some of
\* it may not be.  The transport is closed either way, which kills the child.
KillerEnds(s, status) ==
    /\ stage[s] = "killing"
    /\ killerStatus' = [killerStatus EXCEPT ![s] = status]
    /\ descendant' = IF status = "zero" THEN "none" ELSE descendant
    /\ IF Reaped
       THEN CancelReturns(s, "killing", "forced", TRUE)
       ELSE /\ Move(s, "killing", "reapingTree")
            /\ CloseTransport
            /\ UNCHANGED <<result, cancelRequested>>
    /\ UNCHANGED <<returncode, streamsOpen, stdoutTask, stderrTask, parked, held,
                   streamVars, consumerVars, orderVars, cleanupVars>>

\* The bounded wait after the kill.  Its timeout may win even when the exit
\* has just been noticed.
TreeReaped(s) ==
    /\ WaitReleased
    /\ CancelReturns(s, "reapingTree", "forced", FALSE)
    /\ UNCHANGED <<returncode, streamsOpen, descendant, stdoutTask, stderrTask,
                   parked, held, streamVars, consumerVars, orderVars,
                   cleanupVars, killerStatus>>

\* Mutant of TreeTimeout: the kill was issued, so the run counts as ended.
TreeTimeoutForced(s) ==
    /\ CancelReturns(s, "reapingTree", "forced", FALSE)
    /\ UNCHANGED <<returncode, streamsOpen, descendant, stdoutTask, stderrTask,
                   parked, held, streamVars, consumerVars, orderVars,
                   cleanupVars, killerStatus>>

TreeTimeout(s) ==
    /\ CancelReturns(s, "reapingTree", "unknown", FALSE)
    /\ UNCHANGED <<returncode, streamsOpen, descendant, stdoutTask, stderrTask,
                   parked, held, streamVars, consumerVars, orderVars,
                   cleanupVars, killerStatus>>

ChildReaped(s) ==
    /\ WaitReleased
    /\ CancelReturns(s, "reapingChild", "unknown", FALSE)
    /\ UNCHANGED <<returncode, streamsOpen, descendant, stdoutTask, stderrTask,
                   parked, held, streamVars, consumerVars, orderVars,
                   cleanupVars, killerStatus>>

ChildTimeout(s) ==
    /\ CancelReturns(s, "reapingChild", "unknown", FALSE)
    /\ reapFailure' = TRUE
    /\ UNCHANGED <<returncode, streamsOpen, descendant, stdoutTask, stderrTask,
                   parked, held, streamVars, consumerVars, orderVars,
                   cleanupFailure, killerStatus>>

\* shutdown() has seen both drain tasks end and closes the transport.
Drained(s) ==
    /\ DrainTasksDone
    /\ Move(s, "draining", "done")
    /\ held' = FALSE
    /\ CloseTransport
    /\ UNCHANGED <<returncode, streamsOpen, descendant, stdoutTask, stderrTask,
                   parked, cancelRequested, streamVars, consumerVars, orderVars,
                   cleanupVars, result, killerStatus>>

-----------------------------------------------------------------------------
(* The run.                                                                *)

OperatingSystem ==
    \/ \E code \in {"zero", "nonzero"} : ChildExits(code)
    \/ ChildClosesStreams
    \/ DescendantExits

StdoutDrain ==
    \/ \E e \in Repertoire : ReadEvent(e) \/ ReadOverspend(e) \/ ReadAfterTerminal(e)
    \/ ReadCorrupt \/ ReadEof \/ Unpark \/ StdoutCancelled

Consumer ==
    \/ StartEvents \/ Receive \/ ReceiveEnd \/ Resume \/ Abandon
    \/ Gathered \/ ReapChild

\* Every step of a cancellation but its call: each await in it is bounded by
\* a timer, or ends with taskkill or with cancelled tasks.
StopProceeds(s) ==
    \/ GraceExit(s) \/ GraceTimeoutReaped(s) \/ GraceTimeout(s)
    \/ GraceTimeoutNoKiller(s)
    \/ KillerNotStarted(s)
    \/ \E status \in {"zero", "nonzero"} : KillerEnds(s, status)
    \/ TreeReaped(s) \/ TreeTimeout(s) \/ ChildReaped(s) \/ ChildTimeout(s)
    \/ Drained(s)

Next ==
    \/ OperatingSystem
    \/ StdoutDrain
    \/ StderrEnds
    \/ Consumer
    \/ \E s \in Stoppers : Stop(s) \/ StopProceeds(s)

Spec == Init /\ [][Next]_vars

\* The event loop runs every task that can run, timers fire, a killed process
\* ends.  Nothing makes the provider print or end, the caller come back for
\* the next event, or anybody cancel.
Fairness ==
    /\ WF_vars(ReadEof) /\ WF_vars(Unpark) /\ WF_vars(StdoutCancelled)
    /\ WF_vars(StderrEnds)
    /\ WF_vars(Receive) /\ WF_vars(ReceiveEnd)
    /\ WF_vars(Gathered) /\ WF_vars(ReapChild)
    /\ \A s \in Stoppers : WF_vars(StopProceeds(s))
    /\ WF_vars(killed /\ \E code \in {"zero", "nonzero"} : ChildExits(code))

FairSpec == Spec /\ Fairness

-----------------------------------------------------------------------------
(* Properties.                                                             *)

StopStage == {"idle", "grace", "killing", "reapingTree", "reapingChild",
              "draining", "done", "raised"}

ChildTypes ==
    /\ returncode \in ExitCode /\ killed \in BOOLEAN
    /\ streamsOpen \in BOOLEAN /\ transportOpen \in BOOLEAN
    /\ descendant \in {"none", "holding", "detached"}

TaskTypes ==
    /\ stdoutTask \in {"unborn", "reading", "parked", "done"}
    /\ stderrTask \in {"unborn", "reading", "done"}
    /\ parked \in Seq(Event \cup {End}) /\ Len(parked) <= 1
    /\ cancelRequested \subseteq DrainTasks /\ held \in BOOLEAN

StreamTypes ==
    /\ queue \in Seq(Event \cup {End}) /\ Len(queue) <= QueueMax
    /\ terminal \in TerminalEvent /\ failure \in BOOLEAN
    /\ ledger \in [started : Nat, live : SUBSET Workers]
    /\ breach \in Breach /\ lines \in 0 .. MaxLines

ConsumerTypes ==
    /\ consumer \in {"unborn", "getting", "handling", "gathering", "reaping"}
                    \cup Finished
    /\ seen \in Seq(Event)
    /\ streamEnded \in BOOLEAN /\ exitCode \in ExitCode

StopTypes ==
    /\ cancelledBefore \in BOOLEAN /\ cancelledAfter \in BOOLEAN
    /\ cleanupFailure \in BOOLEAN /\ reapFailure \in BOOLEAN
    /\ stage \in [Stoppers -> StopStage]
    /\ result \in [Stoppers -> {"none", "graceful", "forced", "unknown"}]
    /\ killerStatus \in [Stoppers -> ExitCode]

\* The types of the variables; the queue never exceeds its bound.
TypeOK == ChildTypes /\ TaskTypes /\ StreamTypes /\ ConsumerTypes /\ StopTypes

\* Everything committed to the consumer: received, queued, or in hand.
History == seen \o queue \o parked

\* Once a terminal result is committed it is the end: no second terminal, no
\* message and no activity follows it, and it is the terminal that decides
\* (RunObserver._emit).
NothingAfterTerminal ==
    \A i \in DOMAIN History :
        TerminalOf(History[i]) # "none" =>
            /\ terminal = TerminalOf(History[i])
            /\ \A j \in i + 1 .. Len(History) : History[j] = End

\* The workers announced as started and not as finished in the first n events.
LiveAfter(n) ==
    {w \in Workers : \E i \in 1 .. n :
        /\ History[i].kind = "start" /\ History[i].worker = w
        /\ \A j \in i + 1 .. n : ~(History[j].kind = "finish" /\ History[j].worker = w)}

\* No caller is ever handed a turn that overspent: the start that breaks a
\* limit is not queued, whatever was finished, repeated or finished without
\* a start before it (DelegationLedger and RunObserver._breached).
BudgetHeld ==
    LET starts == {i \in DOMAIN History : History[i].kind = "start"}
    IN  /\ Cardinality(starts) <= MaxTotalStarts
        /\ \A i \in starts : History[i].depth <= MaxDepth
        /\ \A i \in starts : Cardinality(LiveAfter(i)) <= MaxConcurrent

\* A turn is never reported complete over a worker nobody saw finish, through
\* a cancellation or without one (spec line 285, DelegationLedger.unresolved).
NoCompletionOverLiveWorker ==
    Verdict.status = "completed" => ~Unresolved(ledger)

\* Whatever else left the turn unknown, the worker that may still be running
\* is named next to it (_with_worker_fact, issue #45).
LiveWorkerIsNamed ==
    (Verdict.status = "unknown_outcome" /\ Unresolved(ledger))
        => "NativeWorkerUnresolved" \in Verdict.diagnostic

\* A turn that ends on its own is never shot: a kill reaches the child only
\* when somebody asked for a stop or the observation was aborted
\* (the branch around _close_transport in events()).
NormalPathNeverKills ==
    killed =>
        \/ \E s \in Stoppers : stage[s] # "idle"
        \/ consumer \in {"gathering", "reaping"} \cup Finished /\ Aborted

\* The sentinel is last: a caller told that the stream is over has received
\* every event before it, also when the stream failed (the docstring of
\* events(): events already observed are not lost to the failure).
StreamEndIsComplete ==
    streamEnded => queue = <<>> /\ parked = <<>> /\ stdoutTask = "done"

\* An observed run leaves nothing behind, whatever ended the observation: the
\* child is reaped and its exit status is the one the verdict reads, both
\* tasks are over, the pipes are closed (the finally block of events()).
ConcludedRunLeavesNothing ==
    consumer \in Finished =>
        /\ Reaped /\ exitCode = returncode
        /\ ~transportOpen /\ DrainTasksDone /\ ~held

\* A cancellation reports graceful or forced only for a child that was
\* reaped, whoever else was killing or reaping it at the time (cancel()).
TidyCancelMeansReaped ==
    \A s \in Stoppers : result[s] \in {"graceful", "forced"} => Reaped

\* A stop that came before the terminal result makes the turn unknown for
\* ever: nothing that is read, reaped or cancelled afterwards upgrades it.
StoppedStaysUnknown ==
    [][cancelledBefore => cancelledBefore' /\ (Verdict.status)' = "unknown_outcome"]_vars

\* A verdict of completed, once given, survives every later cancellation and
\* shutdown (the post-terminal branch of resolve_outcome).
CompletedStands ==
    [][(consumer \in Finished /\ Verdict.status = "completed")
        => (Verdict.status)' = "completed"]_vars

\* When shutdown() returns no drain task is pending, also one that was parked
\* on a full queue of a caller that had stopped reading.
ShutdownEndsTheTasks ==
    [][\A s \in Closers : (stage[s] # "done" /\ stage'[s] = "done")
        => ~PendingDrainTasks' /\ ~transportOpen']_vars

\* Every cancel() and every shutdown() returns, although the caller of
\* events() may never come back.
StopReturns ==
    \A s \in Stoppers : stage[s] = "grace" ~> stage[s] \in {"done", "raised"}

\* Once observation is aborted the generator ends: the readers it cancelled
\* and the child it killed cannot hold it for ever.
AbortConcludes == consumer = "gathering" /\ Aborted ~> consumer \in Finished

\* A reader in get() with nothing queued and nobody left to send the sentinel: a
\* shutdown() has cancelled the stdout task, and the reader is another task.
Stranded ==
    /\ consumer = "getting" /\ queue = <<>>
    /\ stdoutTask = "done" /\ "stdout" \in cancelRequested
    /\ \E s \in Closers : stage[s] # "idle"

\* A run whose processes are gone ends for a caller that always comes back for
\* the next event, at whatever point a stop met it.  There is one other end: a
\* shutdown() may leave that caller stranded, because its comment takes the caller
\* to be the one shutting down (_read_stdout, on cancellation).
DeadRunConcludes ==
    WF_vars(Resume) =>
        (Reaped /\ descendant = "none" /\ consumer # "unborn"
            ~> consumer \in Finished \/ Stranded)

-----------------------------------------------------------------------------
(* The turn this run implements.                                           *)

Decided ==
    IF cancelledBefore THEN "stopped"
    ELSE IF terminal = "none" THEN "open" ELSE terminal

Reported == IF consumer \in Finished THEN Verdict.status ELSE "pending"

TheTurn == INSTANCE Turn WITH decided <- Decided, status <- Reported

\* The two steps of a run that its turn does not allow.  A start past the
\* budget is charged before anybody looks whether the result was committed
\* (_read_stdout), and stops the turn; a stop after the end makes the exit
\* status of a completed turn stop counting (resolve_outcome).
ResultOverspent ==
    Decided \in TheTurn!Results /\ Decided' = "stopped" /\ breach' # NoBreach

DisownedThenStopped ==
    /\ consumer \in Finished /\ Verdict.diagnostic = {"TerminalExitDisagreement"}
    /\ ~cancelledAfter /\ cancelledAfter'

\* The run implements Turn: whichever of the result and a stop came first
\* decides it, the status is one that decision allows, and neither is revised,
\* in every order of reads, stops, exits and the end of the observation.  Two
\* steps are excepted and are shown by runs of their own (RunObserverClaims,
\* CommittedFailureIsReported and DisownedStaysFailed).
ImplementsTurn ==
    /\ TheTurn!Init
    /\ [][ResultOverspent \/ DisownedThenStopped
            \/ [TheTurn!Next]_(TheTurn!turnVars)]_vars
=============================================================================
