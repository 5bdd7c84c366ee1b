--------------------------- MODULE RunObserverProofs ---------------------------
(***************************************************************************)
(* What holds of an observed run for any queue bound, any repertoire, any  *)
(* workers and any number of concurrent cancellations and shutdowns.       *)
(***************************************************************************)
EXTENDS RunObserver, SequenceTheorems, TLAPS

\* What an event of the repertoire is made of.
LEMMA EventParts ==
    ASSUME NEW e \in Repertoire
    PROVE /\ e \in Event /\ e \in Event \cup {End}
          /\ e.kind \in {"message", "completed", "failed", "start", "finish"}
          /\ e.depth \in Nat
          /\ e.kind \in {"start", "finish"} => e.worker \in Workers
          /\ TerminalOf(e) \in TerminalEvent
  BY ObserverAssumption DEF Event, TerminalOf, TerminalEvent

LEMMA ChargeTypes ==
    ASSUME TypeOK, NEW e \in Repertoire, Charge(e)
    PROVE ledger' \in [started : Nat, live : SUBSET Workers]
  BY EventParts, BudgetAssumption
     DEF TypeOK, StreamTypes, Charge, WorkerStarted, WorkerFinished

LEMMA BreachTypes ==
    ASSUME NEW l, NEW w, NEW d
    PROVE StartBreach(l, w, d) \in Breach
  BY DEF StartBreach, Breach

\* A put keeps the queue within its bound and parks at most one item.
LEMMA PutTypes ==
    ASSUME TypeOK, NEW item \in Event \cup {End}, NEW next, Put(item, next)
    PROVE /\ queue' \in Seq(Event \cup {End}) /\ Len(queue') <= QueueMax
          /\ parked' \in Seq(Event \cup {End}) /\ Len(parked') <= 1
          /\ stdoutTask' \in {next, "parked"}
<1> DEFINE Item == Event \cup {End}
<1>1. QueueMax \in Nat /\ queue \in Seq(Item) /\ Len(queue) <= QueueMax
      /\ parked \in Seq(Item) /\ Len(parked) <= 1
  BY ObserverAssumption DEF TypeOK, StreamTypes, TaskTypes
<1> HIDE DEF Item
<1>2. /\ Append(queue, item) \in Seq(Item) /\ Len(Append(queue, item)) = Len(queue) + 1
      /\ <<item>> \in Seq(Item) /\ Len(<<item>>) = 1 /\ Len(queue) \in Nat
  <2>1. item \in Item
    BY DEF Item
  <2> QED
    BY <1>1, <2>1
<1>3. /\ queue' \in Seq(Item) /\ Len(queue') <= QueueMax
      /\ parked' \in Seq(Item) /\ Len(parked') <= 1
      /\ stdoutTask' \in {next, "parked"}
  <2>1. CASE Len(queue) < QueueMax /\ queue' = Append(queue, item)
             /\ stdoutTask' = next /\ UNCHANGED parked
    BY <1>1, <1>2, <2>1
  <2>2. CASE parked' = <<item>> /\ stdoutTask' = "parked" /\ UNCHANGED queue
    BY <1>1, <1>2, <2>2
  <2> QED
    BY <2>1, <2>2 DEF Put
<1> QED
  BY <1>3 DEF Item

\* The consumer takes the head and leaves the rest.
LEMMA TakeTypes ==
    ASSUME TypeOK, queue # <<>>
    PROVE /\ Head(queue) \in Event \cup {End}
          /\ Tail(queue) \in Seq(Event \cup {End}) /\ Len(Tail(queue)) <= QueueMax
<1> DEFINE Item == Event \cup {End}
<1>1. queue \in Seq(Item) /\ Len(queue) <= QueueMax /\ QueueMax \in Nat
  BY ObserverAssumption DEF TypeOK, StreamTypes
<1> HIDE DEF Item
<1>2. /\ Head(queue) \in Item /\ Tail(queue) \in Seq(Item)
      /\ Len(Tail(queue)) = Len(queue) - 1 /\ Len(queue) \in Nat
  BY <1>1, HeadTailProperties, LenProperties
<1>3. Len(Tail(queue)) <= QueueMax
  BY <1>1, <1>2
<1> QED
  BY <1>2, <1>3 DEF Item

\* A parked put that goes through fits.
LEMMA UnparkTypes ==
    ASSUME TypeOK, Len(queue) < QueueMax
    PROVE queue \o parked \in Seq(Event \cup {End}) /\ Len(queue \o parked) <= QueueMax
<1> DEFINE Item == Event \cup {End}
<1>1. /\ queue \in Seq(Item) /\ parked \in Seq(Item)
      /\ Len(parked) <= 1 /\ QueueMax \in Nat
  BY ObserverAssumption DEF TypeOK, StreamTypes, TaskTypes
<1> HIDE DEF Item
<1>2. /\ queue \o parked \in Seq(Item)
      /\ Len(queue \o parked) = Len(queue) + Len(parked)
      /\ Len(queue) \in Nat /\ Len(parked) \in Nat
  BY <1>1, ConcatProperties, LenProperties
<1>3. Len(queue \o parked) <= QueueMax
  BY <1>1, <1>2
<1> QED
  BY <1>2, <1>3 DEF Item

\* Parts nothing touched.
LEMMA Untouched ==
    /\ ChildTypes /\ UNCHANGED childVars => ChildTypes'
    /\ TaskTypes /\ UNCHANGED taskVars => TaskTypes'
    /\ StreamTypes /\ UNCHANGED streamVars => StreamTypes'
    /\ ConsumerTypes /\ UNCHANGED consumerVars => ConsumerTypes'
    /\ StopTypes /\ UNCHANGED <<orderVars, cleanupVars, stopVars>> => StopTypes'
  BY DEF ChildTypes, TaskTypes, StreamTypes, ConsumerTypes, StopTypes,
     childVars, taskVars, streamVars, consumerVars, orderVars, cleanupVars, stopVars

\* What cancel() and shutdown() do when they return keeps the types.
LEMMA ReturnTypes ==
    ASSUME TypeOK, NEW s \in Stoppers, NEW from, NEW closed,
           NEW outcome \in {"graceful", "forced", "unknown"},
           CancelReturns(s, from, outcome, closed)
    PROVE /\ stage' \in [Stoppers -> StopStage]
          /\ result' \in [Stoppers -> {"none", "graceful", "forced", "unknown"}]
          /\ cancelRequested' \subseteq DrainTasks
          /\ transportOpen' \in BOOLEAN /\ killed' \in BOOLEAN
  BY DEF TypeOK, StopTypes, TaskTypes, ChildTypes, CancelReturns, Move,
     CloseTransport, Kill, StopStage

LEMMA TypeStep == ASSUME TypeOK, [Next]_vars PROVE TypeOK'
<1> USE DEF TypeOK
<1>1. ASSUME NEW code \in {"zero", "nonzero"}, ChildExits(code) PROVE TypeOK'
  <2>1. TaskTypes' /\ StreamTypes' /\ ConsumerTypes' /\ StopTypes'
    BY <1>1, Untouched DEF ChildExits
  <2>2. ChildTypes'
    BY <1>1
       DEF ChildExits, ExitCode, ChildTypes
  <2> QED
    BY <2>1, <2>2
<1>2. CASE ChildClosesStreams
  <2>1. TaskTypes' /\ StreamTypes' /\ ConsumerTypes' /\ StopTypes'
    BY <1>2, Untouched DEF ChildClosesStreams
  <2>2. ChildTypes'
    BY <1>2
       DEF ChildClosesStreams, ChildTypes
  <2> QED
    BY <2>1, <2>2
<1>3. CASE DescendantExits
  <2>1. TaskTypes' /\ StreamTypes' /\ ConsumerTypes' /\ StopTypes'
    BY <1>3, Untouched DEF DescendantExits
  <2>2. ChildTypes'
    BY <1>3
       DEF DescendantExits, ChildTypes
  <2> QED
    BY <2>1, <2>2
<1>4. ASSUME NEW e \in Repertoire, ReadEvent(e) PROVE TypeOK'
  <2>1. ChildTypes' /\ ConsumerTypes' /\ StopTypes'
    BY <1>4, Untouched DEF ReadEvent
  <2>2. TaskTypes'
    BY <1>4, EventParts, PutTypes
       DEF ReadEvent, TaskTypes
  <2>3. StreamTypes'
    BY <1>4, EventParts, ChargeTypes, PutTypes, ObserverAssumption
       DEF ReadEvent, StreamTypes
  <2> QED
    BY <2>1, <2>2, <2>3
<1>5. ASSUME NEW e \in Repertoire, ReadOverspend(e) PROVE TypeOK'
  <2>1. ChildTypes' /\ ConsumerTypes'
    BY <1>5, Untouched DEF ReadOverspend
  <2>2. TaskTypes'
    BY <1>5, PutTypes
       DEF ReadOverspend, TaskTypes
  <2>3. breach' \in Breach /\ lines' \in 0 .. MaxLines
    BY <1>5, BreachTypes, ObserverAssumption DEF ReadOverspend, StreamTypes
  <2>4. /\ ledger' \in [started : Nat, live : SUBSET Workers]
        /\ queue' \in Seq(Event \cup {End}) /\ Len(queue') <= QueueMax
    <3>1. End \in Event \cup {End}
      OBVIOUS
    <3> QED
      BY <1>5, <3>1, ChargeTypes, PutTypes DEF ReadOverspend
  <2>5. StreamTypes'
    BY <1>5, <2>3, <2>4 DEF ReadOverspend, StreamTypes
  <2>6. StopTypes'
    BY <1>5
       DEF ReadOverspend, cleanupVars, stopVars, StopTypes
  <2> QED
    BY <2>1, <2>2, <2>5, <2>6
<1>6. ASSUME NEW e \in Repertoire, ReadAfterTerminal(e) PROVE TypeOK'
  <2>1. ChildTypes' /\ TaskTypes' /\ ConsumerTypes' /\ StopTypes'
    BY <1>6, Untouched DEF ReadAfterTerminal
  <2>2. StreamTypes'
    BY <1>6, ChargeTypes, ObserverAssumption
       DEF ReadAfterTerminal, StreamTypes
  <2> QED
    BY <2>1, <2>2
<1>7. CASE ReadCorrupt
  <2>1. ChildTypes' /\ ConsumerTypes' /\ StopTypes'
    BY <1>7, Untouched DEF ReadCorrupt
  <2>2. TaskTypes'
    BY <1>7, PutTypes
       DEF ReadCorrupt, TaskTypes
  <2>3. StreamTypes'
    BY <1>7, PutTypes, ObserverAssumption
       DEF ReadCorrupt, StreamTypes
  <2> QED
    BY <2>1, <2>2, <2>3
<1>8. CASE ReadEof
  <2>1. ChildTypes' /\ ConsumerTypes' /\ StopTypes'
    BY <1>8, Untouched DEF ReadEof
  <2>2. TaskTypes'
    BY <1>8, PutTypes
       DEF ReadEof, TaskTypes
  <2>3. StreamTypes'
    BY <1>8, PutTypes
       DEF ReadEof, StreamTypes
  <2> QED
    BY <2>1, <2>2, <2>3
<1>9. CASE Unpark
  <2>1. ChildTypes' /\ ConsumerTypes' /\ StopTypes'
    BY <1>9, Untouched DEF Unpark
  <2>2. TaskTypes'
    BY <1>9
       DEF Unpark, TaskTypes
  <2>3. StreamTypes'
    BY <1>9, UnparkTypes
       DEF Unpark, StreamTypes
  <2> QED
    BY <2>1, <2>2, <2>3
<1>10. CASE StdoutCancelled
  <2>1. ChildTypes' /\ StreamTypes' /\ ConsumerTypes' /\ StopTypes'
    BY <1>10, Untouched DEF StdoutCancelled
  <2>2. TaskTypes'
    BY <1>10
       DEF StdoutCancelled, TaskTypes
  <2> QED
    BY <2>1, <2>2
<1>11. CASE StderrEnds
  <2>1. ChildTypes' /\ StreamTypes' /\ ConsumerTypes' /\ StopTypes'
    BY <1>11, Untouched DEF StderrEnds
  <2>2. TaskTypes'
    BY <1>11
       DEF StderrEnds, TaskTypes
  <2> QED
    BY <2>1, <2>2
<1>12. CASE StartEvents
  <2>1. ChildTypes' /\ StreamTypes' /\ StopTypes'
    BY <1>12, Untouched DEF StartEvents
  <2>2. TaskTypes'
    BY <1>12
       DEF StartEvents, TaskTypes
  <2>3. ConsumerTypes'
    BY <1>12
       DEF StartEvents, ConsumerTypes
  <2> QED
    BY <2>1, <2>2, <2>3
<1>13. CASE Receive
  <2>1. ChildTypes' /\ TaskTypes' /\ StopTypes'
    BY <1>13, Untouched DEF Receive
  <2>2. StreamTypes'
    BY <1>13, TakeTypes
       DEF Receive, StreamTypes
  <2>3. ConsumerTypes'
    BY <1>13, TakeTypes, AppendProperties
       DEF Receive, ConsumerTypes
  <2> QED
    BY <2>1, <2>2, <2>3
<1>14. CASE ReceiveEnd
  <2>1. StopTypes'
    BY <1>14, Untouched DEF ReceiveEnd
  <2>2. ChildTypes'
    BY <1>14
       DEF ReceiveEnd, BeginCleanup, Kill, ChildTypes
  <2>3. TaskTypes'
    BY <1>14
       DEF ReceiveEnd, BeginCleanup, Kill, TaskTypes
  <2>4. StreamTypes'
    BY <1>14, TakeTypes
       DEF ReceiveEnd, StreamTypes
  <2>5. ConsumerTypes'
    BY <1>14
       DEF ReceiveEnd, BeginCleanup, Kill, ConsumerTypes
  <2> QED
    BY <2>1, <2>2, <2>3, <2>4, <2>5
<1>15. CASE Resume
  <2>1. ChildTypes' /\ TaskTypes' /\ StreamTypes' /\ StopTypes'
    BY <1>15, Untouched DEF Resume
  <2>2. ConsumerTypes'
    BY <1>15
       DEF Resume, ConsumerTypes
  <2> QED
    BY <2>1, <2>2
<1>16. CASE Abandon
  <2>1. StreamTypes' /\ StopTypes'
    BY <1>16, Untouched DEF Abandon
  <2>2. ChildTypes'
    BY <1>16
       DEF Abandon, BeginCleanup, Kill, ChildTypes
  <2>3. TaskTypes'
    BY <1>16
       DEF Abandon, BeginCleanup, Kill, TaskTypes
  <2>4. ConsumerTypes'
    BY <1>16
       DEF Abandon, BeginCleanup, Kill, ConsumerTypes
  <2> QED
    BY <2>1, <2>2, <2>3, <2>4
<1>17. CASE Gathered
  <2>1. StreamTypes' /\ StopTypes'
    BY <1>17, Untouched DEF Gathered
  <2>2. ChildTypes'
    BY <1>17
       DEF Gathered, ReleaseReaper, CloseTransport, Kill, ChildTypes
  <2>3. TaskTypes'
    BY <1>17
       DEF Gathered, TaskTypes
  <2>4. ConsumerTypes'
    BY <1>17
       DEF Gathered, Conclude, Finished, ChildTypes, ConsumerTypes
  <2> QED
    BY <2>1, <2>2, <2>3, <2>4
<1>18. CASE ReapChild
  <2>1. TaskTypes' /\ StreamTypes' /\ StopTypes'
    BY <1>18, Untouched DEF ReapChild
  <2>2. ChildTypes'
    BY <1>18
       DEF ReapChild, CloseTransport, Kill, ChildTypes
  <2>3. ConsumerTypes'
    BY <1>18
       DEF ReapChild, Conclude, Finished, ChildTypes, ConsumerTypes
  <2> QED
    BY <2>1, <2>2, <2>3
<1>19. ASSUME NEW s \in Stoppers, Stop(s) PROVE TypeOK'
  <2>1. StreamTypes' /\ ConsumerTypes'
    BY <1>19, Untouched DEF Stop
  <2>2. ChildTypes'
    BY <1>19, ReturnTypes
       DEF Stop, ChildTypes
  <2>3. TaskTypes'
    BY <1>19, ReturnTypes
       DEF Stop, TaskTypes
  <2>4. StopTypes'
    BY <1>19, ReturnTypes
       DEF Stop, RecordOrder, Move, StopStage, cleanupVars, StopTypes
  <2> QED
    BY <2>1, <2>2, <2>3, <2>4
<1>20. ASSUME NEW s \in Stoppers, GraceExit(s) PROVE TypeOK'
  <2>1. StreamTypes' /\ ConsumerTypes'
    BY <1>20, Untouched DEF GraceExit
  <2>2. ChildTypes'
    BY <1>20, ReturnTypes
       DEF GraceExit, ChildTypes
  <2>3. TaskTypes'
    BY <1>20, ReturnTypes
       DEF GraceExit, TaskTypes
  <2>4. StopTypes'
    BY <1>20, ReturnTypes
       DEF GraceExit, orderVars, cleanupVars, StopTypes
  <2> QED
    BY <2>1, <2>2, <2>3, <2>4
<1>21. ASSUME NEW s \in Stoppers, GraceTimeoutReaped(s) PROVE TypeOK'
  <2>1. StreamTypes' /\ ConsumerTypes'
    BY <1>21, Untouched DEF GraceTimeoutReaped
  <2>2. ChildTypes'
    BY <1>21, ReturnTypes
       DEF GraceTimeoutReaped, ChildTypes
  <2>3. TaskTypes'
    BY <1>21, ReturnTypes
       DEF GraceTimeoutReaped, TaskTypes
  <2>4. StopTypes'
    BY <1>21, ReturnTypes
       DEF GraceTimeoutReaped, orderVars, cleanupVars, StopTypes
  <2> QED
    BY <2>1, <2>2, <2>3, <2>4
<1>22. ASSUME NEW s \in Stoppers, GraceTimeout(s) PROVE TypeOK'
  <2>1. ChildTypes' /\ TaskTypes' /\ StreamTypes' /\ ConsumerTypes'
    BY <1>22, Untouched DEF GraceTimeout
  <2>2. StopTypes'
    BY <1>22
       DEF GraceTimeout, Move, StopStage, orderVars, cleanupVars, StopTypes
  <2> QED
    BY <2>1, <2>2
<1>23. ASSUME NEW s \in Stoppers, GraceTimeoutNoKiller(s) PROVE TypeOK'
  <2>1. TaskTypes' /\ StreamTypes' /\ ConsumerTypes'
    BY <1>23, Untouched DEF GraceTimeoutNoKiller
  <2>2. ChildTypes'
    BY <1>23
       DEF GraceTimeoutNoKiller, CloseTransport, Kill, ChildTypes
  <2>3. StopTypes'
    BY <1>23
       DEF GraceTimeoutNoKiller, Move, StopStage, orderVars, StopTypes
  <2> QED
    BY <2>1, <2>2, <2>3
<1>24. ASSUME NEW s \in Stoppers, KillerNotStarted(s) PROVE TypeOK'
  <2>1. ChildTypes' /\ TaskTypes' /\ StreamTypes' /\ ConsumerTypes'
    BY <1>24, Untouched DEF KillerNotStarted
  <2>2. StopTypes'
    BY <1>24
       DEF KillerNotStarted, Move, StopStage, orderVars, cleanupVars, StopTypes
  <2> QED
    BY <2>1, <2>2
<1>25. ASSUME NEW s \in Stoppers, NEW status \in {"zero", "nonzero"}, KillerEnds(s, status)
      PROVE TypeOK'
  <2>1. StreamTypes' /\ ConsumerTypes'
    BY <1>25, Untouched DEF KillerEnds
  <2>2. ChildTypes'
    BY <1>25, ReturnTypes
       DEF KillerEnds, CloseTransport, Kill, ChildTypes
  <2>3. TaskTypes'
    BY <1>25, ReturnTypes
       DEF KillerEnds, TaskTypes
  <2>4. StopTypes'
    BY <1>25, ReturnTypes
       DEF KillerEnds, Move, StopStage, ExitCode, orderVars, cleanupVars, StopTypes
  <2> QED
    BY <2>1, <2>2, <2>3, <2>4
<1>26. ASSUME NEW s \in Stoppers, TreeReaped(s) PROVE TypeOK'
  <2>1. StreamTypes' /\ ConsumerTypes'
    BY <1>26, Untouched DEF TreeReaped
  <2>2. ChildTypes'
    BY <1>26, ReturnTypes
       DEF TreeReaped, ChildTypes
  <2>3. TaskTypes'
    BY <1>26, ReturnTypes
       DEF TreeReaped, TaskTypes
  <2>4. StopTypes'
    BY <1>26, ReturnTypes
       DEF TreeReaped, orderVars, cleanupVars, StopTypes
  <2> QED
    BY <2>1, <2>2, <2>3, <2>4
<1>27. ASSUME NEW s \in Stoppers, TreeTimeout(s) PROVE TypeOK'
  <2>1. StreamTypes' /\ ConsumerTypes'
    BY <1>27, Untouched DEF TreeTimeout
  <2>2. ChildTypes'
    BY <1>27, ReturnTypes
       DEF TreeTimeout, ChildTypes
  <2>3. TaskTypes'
    BY <1>27, ReturnTypes
       DEF TreeTimeout, TaskTypes
  <2>4. StopTypes'
    BY <1>27, ReturnTypes
       DEF TreeTimeout, orderVars, cleanupVars, StopTypes
  <2> QED
    BY <2>1, <2>2, <2>3, <2>4
<1>28. ASSUME NEW s \in Stoppers, ChildReaped(s) PROVE TypeOK'
  <2>1. StreamTypes' /\ ConsumerTypes'
    BY <1>28, Untouched DEF ChildReaped
  <2>2. ChildTypes'
    BY <1>28, ReturnTypes
       DEF ChildReaped, ChildTypes
  <2>3. TaskTypes'
    BY <1>28, ReturnTypes
       DEF ChildReaped, TaskTypes
  <2>4. StopTypes'
    BY <1>28, ReturnTypes
       DEF ChildReaped, orderVars, cleanupVars, StopTypes
  <2> QED
    BY <2>1, <2>2, <2>3, <2>4
<1>29. ASSUME NEW s \in Stoppers, ChildTimeout(s) PROVE TypeOK'
  <2>1. StreamTypes' /\ ConsumerTypes'
    BY <1>29, Untouched DEF ChildTimeout
  <2>2. ChildTypes'
    BY <1>29, ReturnTypes
       DEF ChildTimeout, ChildTypes
  <2>3. TaskTypes'
    BY <1>29, ReturnTypes
       DEF ChildTimeout, TaskTypes
  <2>4. StopTypes'
    BY <1>29, ReturnTypes
       DEF ChildTimeout, orderVars, StopTypes
  <2> QED
    BY <2>1, <2>2, <2>3, <2>4
<1>30. ASSUME NEW s \in Stoppers, Drained(s) PROVE TypeOK'
  <2>1. StreamTypes' /\ ConsumerTypes'
    BY <1>30, Untouched DEF Drained
  <2>2. ChildTypes'
    BY <1>30
       DEF Drained, CloseTransport, Kill, ChildTypes
  <2>3. TaskTypes'
    BY <1>30
       DEF Drained, TaskTypes
  <2>4. StopTypes'
    BY <1>30
       DEF Drained, Move, StopStage, orderVars, cleanupVars, StopTypes
  <2> QED
    BY <2>1, <2>2, <2>3, <2>4
<1>31. CASE UNCHANGED vars
  BY <1>31, Untouched DEF vars
<1> QED
  BY <1>1, <1>2, <1>3, <1>4, <1>5, <1>6, <1>7, <1>8, <1>9, <1>10, <1>11, <1>12, <1>13, <1>14, <1>15, <1>16, <1>17, <1>18, <1>19, <1>20, <1>21, <1>22, <1>23, <1>24, <1>25, <1>26, <1>27, <1>28, <1>29, <1>30, <1>31
     DEF Next, OperatingSystem, StdoutDrain, Consumer, StopProceeds

\* Every variable keeps its type and the queue its bound.
THEOREM RunTypeCorrect == Spec => []TypeOK
<1>1. Init => TypeOK
  <2> SUFFICES ASSUME Init PROVE TypeOK
    OBVIOUS
  <2>0. /\ <<>> \in Seq(Event \cup {End}) /\ Len(<<>>) = 0
        /\ QueueMax \in Nat /\ MaxLines \in Nat
    BY ObserverAssumption, EmptySeq
  <2>1. ChildTypes /\ TaskTypes
    <3>1. ChildTypes
      BY ObserverAssumption DEF Init, ChildTypes, ExitCode
    <3>2. TaskTypes
      <4>1. parked \in Seq(Event \cup {End}) /\ Len(parked) <= 1
        BY <2>0 DEF Init
      <4> QED
        BY <4>1 DEF Init, TaskTypes
    <3> QED
      BY <3>1, <3>2
  <2>2. StreamTypes
    <3>1. queue \in Seq(Event \cup {End}) /\ Len(queue) <= QueueMax
      BY <2>0 DEF Init
    <3>2. ledger \in [started : Nat, live : SUBSET Workers] /\ lines \in 0 .. MaxLines
      BY <2>0 DEF Init, EmptyLedger
    <3> QED
      BY <3>1, <3>2 DEF Init, StreamTypes, TerminalEvent, Breach, NoBreach
  <2>3. ConsumerTypes
    BY EmptySeq DEF Init, ConsumerTypes, ExitCode
  <2>4. StopTypes
    BY DEF Init, StopTypes, StopStage, ExitCode
  <2> QED
    BY <2>1, <2>2, <2>3, <2>4 DEF TypeOK
<1> QED
  BY <1>1, TypeStep, PTL DEF Spec

-----------------------------------------------------------------------------
(* What each actor leaves alone.                                           *)

\* Only the event loop that notices an exit changes the exit status, and only
\* once.
LEMMA ReapedOnce ==
    ASSUME [Next]_vars
    PROVE Reaped => returncode' = returncode
<1>1. CASE OperatingSystem
  BY <1>1 DEF OperatingSystem, ChildExits, ChildClosesStreams, DescendantExits, Reaped
<1>2. CASE StdoutDrain \/ StderrEnds
  BY <1>2 DEF StdoutDrain, ReadEvent, ReadOverspend, ReadAfterTerminal, ReadCorrupt,
     ReadEof, Unpark, StdoutCancelled, StderrEnds, childVars
<1>3. CASE Consumer
  BY <1>3 DEF Consumer, StartEvents, Receive, ReceiveEnd, Resume, Abandon,
     BeginCleanup, Gathered, ReapChild, childVars
<1>4. ASSUME NEW s \in Stoppers, Stop(s) \/ StopProceeds(s)
      PROVE returncode' = returncode
  BY <1>4 DEF Stop, StopProceeds, GraceExit, GraceTimeoutReaped, GraceTimeout,
     GraceTimeoutNoKiller, KillerNotStarted, KillerEnds, TreeReaped, TreeTimeout,
     ChildReaped, ChildTimeout, Drained, childVars
<1>5. CASE UNCHANGED vars
  BY <1>5 DEF vars, childVars
<1> QED
  BY <1>1, <1>2, <1>3, <1>4, <1>5 DEF Next

\* Nobody but the callers of cancel() and shutdown() moves them.
LEMMA OthersLeaveStops ==
    ASSUME OperatingSystem \/ StdoutDrain \/ StderrEnds \/ Consumer \/ UNCHANGED vars
    PROVE UNCHANGED stopVars
<1>1. CASE OperatingSystem
  BY <1>1 DEF OperatingSystem, ChildExits, ChildClosesStreams, DescendantExits
<1>2. CASE StdoutDrain \/ StderrEnds
  BY <1>2 DEF StdoutDrain, ReadEvent, ReadOverspend, ReadAfterTerminal, ReadCorrupt,
     ReadEof, Unpark, StdoutCancelled, StderrEnds
<1>3. CASE Consumer
  BY <1>3 DEF Consumer, StartEvents, Receive, ReceiveEnd, Resume, Abandon,
     BeginCleanup, Gathered, ReapChild
<1>4. CASE UNCHANGED vars
  BY <1>4 DEF vars
<1> QED
  BY <1>1, <1>2, <1>3, <1>4

-----------------------------------------------------------------------------
(* What a cancellation says.                                               *)

\* A caller told graceful or forced was told so of a child that is reaped,
\* whoever else cancels, shuts down or aborts the run at the same time.
THEOREM TidyMeansReaped == Spec => []TidyCancelMeansReaped
<1>1. Init => TidyCancelMeansReaped
  BY DEF Init, TidyCancelMeansReaped
<1>2. TypeOK /\ TidyCancelMeansReaped /\ [Next]_vars => TidyCancelMeansReaped'
  <2> SUFFICES ASSUME TypeOK, TidyCancelMeansReaped, [Next]_vars
               PROVE TidyCancelMeansReaped'
    OBVIOUS
  <2>1. Reaped => Reaped'
    BY ReapedOnce DEF Reaped
  <2>2. CASE UNCHANGED result
    BY <2>1, <2>2 DEF TidyCancelMeansReaped
  <2>3. ASSUME NEW s \in Stoppers, Stop(s) \/ StopProceeds(s)
        PROVE \/ UNCHANGED result
              \/ result' = [result EXCEPT ![s] = "unknown"]
              \/ \E tidy \in {"graceful", "forced"} :
                    Reaped /\ result' = [result EXCEPT ![s] = tidy]
    BY <2>3 DEF Stop, StopProceeds, GraceExit, GraceTimeoutReaped, GraceTimeout,
       GraceTimeoutNoKiller, KillerNotStarted, KillerEnds, TreeReaped, TreeTimeout,
       ChildReaped, ChildTimeout, Drained, CancelReturns, WaitReleased
  <2>4. ASSUME NEW s \in Stoppers, Stop(s) \/ StopProceeds(s)
        PROVE TidyCancelMeansReaped'
    BY <2>1, <2>2, <2>3, <2>4 DEF TidyCancelMeansReaped, TypeOK, StopTypes
  <2> QED
    BY <2>2, <2>4, OthersLeaveStops DEF Next, stopVars
<1> QED
  BY <1>1, <1>2, RunTypeCorrect, PTL DEF Spec

-----------------------------------------------------------------------------
(* The verdict.                                                            *)

\* The ordering fact outranks every other witness.
LEMMA StoppedIsUnknown ==
    ASSUME cancelledBefore
    PROVE Verdict.status = "unknown_outcome"
  BY DEF Verdict, ResolveOutcome, RunOutcome

\* A stop recorded before the result is never withdrawn and never outweighed.
THEOREM StoppedForEver == Spec => StoppedStaysUnknown
<1>1. [Next]_vars => (cancelledBefore => cancelledBefore')
  <2> SUFFICES ASSUME [Next]_vars, cancelledBefore PROVE cancelledBefore'
    OBVIOUS
  <2>1. CASE OperatingSystem
    BY <2>1 DEF OperatingSystem, ChildExits, ChildClosesStreams, DescendantExits,
       orderVars
  <2>2. CASE StdoutDrain \/ StderrEnds
    BY <2>2 DEF StdoutDrain, ReadEvent, ReadOverspend, ReadAfterTerminal,
       ReadCorrupt, ReadEof, Unpark, StdoutCancelled, StderrEnds, orderVars
  <2>3. CASE Consumer
    BY <2>3 DEF Consumer, StartEvents, Receive, ReceiveEnd, Resume, Abandon,
       BeginCleanup, Gathered, ReapChild, orderVars
  <2>4. ASSUME NEW s \in Stoppers, Stop(s) \/ StopProceeds(s) PROVE cancelledBefore'
    BY <2>4 DEF Stop, RecordOrder, StopProceeds, GraceExit, GraceTimeoutReaped,
       GraceTimeout, GraceTimeoutNoKiller, KillerNotStarted, KillerEnds, TreeReaped,
       TreeTimeout, ChildReaped, ChildTimeout, Drained, orderVars
  <2>5. CASE UNCHANGED vars
    BY <2>5 DEF vars, orderVars
  <2> QED
    BY <2>1, <2>2, <2>3, <2>4, <2>5 DEF Next
<1>2. cancelledBefore' => (Verdict.status)' = "unknown_outcome"
  BY DEF Verdict, ResolveOutcome, RunOutcome
<1> QED
  BY <1>1, <1>2, PTL DEF Spec, StoppedStaysUnknown

\* No verdict of completed passes over a worker nobody saw finish: whatever
\* the other witnesses say, in any order they came (resolve_outcome, outcome()).
THEOREM WorkersCount == Spec => []NoCompletionOverLiveWorker
<1>1. NoCompletionOverLiveWorker
  BY DEF NoCompletionOverLiveWorker, Verdict, ResolveOutcome, RunOutcome
<1> QED
  BY <1>1, PTL

\* A verdict that is unknown for any reason names the worker that may still
\* be running (_with_worker_fact in every branch of resolve_outcome).
THEOREM WorkersAreNamed == Spec => []LiveWorkerIsNamed
<1>1. LiveWorkerIsNamed
  BY DEF LiveWorkerIsNamed, Verdict, ResolveOutcome, RunOutcome, WithWorkerFact
<1> QED
  BY <1>1, PTL

-----------------------------------------------------------------------------
(* The end of the observation.                                             *)

\* Once the drain tasks were gathered nothing more is read.
ReadingIsOver == consumer \in {"reaping"} \cup Finished => stdoutTask = "done"

LEMMA ReadingStaysOver ==
    ASSUME TypeOK, ReadingIsOver, [Next]_vars
    PROVE ReadingIsOver'
<1> USE DEF ReadingIsOver, Finished
<1>1. CASE OperatingSystem
  BY <1>1 DEF OperatingSystem, ChildExits, ChildClosesStreams, DescendantExits,
     taskVars, consumerVars
<1>2. CASE StdoutDrain \/ StderrEnds
  <2>1. UNCHANGED consumer
    BY <1>2 DEF StdoutDrain, ReadEvent, ReadOverspend, ReadAfterTerminal,
       ReadCorrupt, ReadEof, Unpark, StdoutCancelled, StderrEnds, consumerVars
  <2>2. stdoutTask = "done" => stdoutTask' = "done"
    BY <1>2 DEF StdoutDrain, StdoutReads, ReadEvent, ReadOverspend,
       ReadAfterTerminal, ReadCorrupt, ReadEof, Unpark, StdoutCancelled,
       StderrEnds, taskVars
  <2> QED
    BY <2>1, <2>2
<1>3. CASE Consumer
  BY <1>3 DEF Consumer, StartEvents, Receive, ReceiveEnd, Resume, Abandon,
     BeginCleanup, Gathered, ReapChild, Conclude, DrainTasksDone, taskVars
<1>4. ASSUME NEW s \in Stoppers, Stop(s) \/ StopProceeds(s)
      PROVE UNCHANGED <<consumer, stdoutTask>>
  BY <1>4 DEF Stop, StopProceeds, GraceExit, GraceTimeoutReaped, GraceTimeout,
     GraceTimeoutNoKiller, KillerNotStarted, KillerEnds, TreeReaped, TreeTimeout,
     ChildReaped, ChildTimeout, Drained, taskVars, consumerVars
<1>5. CASE UNCHANGED vars
  BY <1>5 DEF vars, taskVars, consumerVars
<1> QED
  BY <1>1, <1>2, <1>3, <1>4, <1>5 DEF Next

\* After the observation only the ordering fact of a stop may still change
\* what the verdict is made of, and for a committed result it is the late one.
LEMMA VerdictAfterEnd ==
    ASSUME ReadingIsOver, consumer \in Finished, terminal # "none", [Next]_vars
    PROVE /\ UNCHANGED <<terminal, ledger, breach, exitCode, cancelledBefore>>
          /\ cancelledAfter => cancelledAfter'
<1> USE DEF ReadingIsOver, Finished
<1>1. CASE OperatingSystem
  BY <1>1 DEF OperatingSystem, ChildExits, ChildClosesStreams, DescendantExits,
     streamVars, consumerVars, orderVars
<1>2. CASE StdoutDrain \/ StderrEnds
  BY <1>2 DEF StdoutDrain, StdoutReads, ReadEvent, ReadOverspend, ReadAfterTerminal,
     ReadCorrupt, ReadEof, Unpark, StdoutCancelled, StderrEnds, streamVars,
     consumerVars, orderVars
<1>3. CASE Consumer
  BY <1>3 DEF Consumer, StartEvents, Receive, ReceiveEnd, Resume, Abandon,
     Gathered, ReapChild
<1>4. ASSUME NEW s \in Stoppers, Stop(s)
      PROVE /\ UNCHANGED <<terminal, ledger, breach, exitCode, cancelledBefore>>
            /\ cancelledAfter'
  BY <1>4 DEF Stop, RecordOrder, streamVars, consumerVars
<1>5. ASSUME NEW s \in Stoppers, StopProceeds(s)
      PROVE UNCHANGED <<terminal, ledger, breach, exitCode, orderVars>>
  BY <1>5 DEF StopProceeds, GraceExit, GraceTimeoutReaped, GraceTimeout,
     GraceTimeoutNoKiller, KillerNotStarted, KillerEnds, TreeReaped, TreeTimeout,
     ChildReaped, ChildTimeout, Drained, streamVars, consumerVars
<1>6. CASE UNCHANGED vars
  BY <1>6 DEF vars, streamVars, consumerVars, orderVars
<1> QED
  BY <1>1, <1>2, <1>3, <1>4, <1>5, <1>6 DEF Next, orderVars

\* A verdict of completed is final: no cancellation and no shutdown that comes
\* after the end of the observation takes it back.
THEOREM CompletedIsFinal == Spec => CompletedStands
<1>1. Init => ReadingIsOver
  BY DEF Init, ReadingIsOver, Finished
<1>2. TypeOK /\ ReadingIsOver /\ [Next]_vars => ReadingIsOver'
  BY ReadingStaysOver
<1>3. TypeOK /\ ReadingIsOver /\ [Next]_vars =>
        ((consumer \in Finished /\ Verdict.status = "completed")
            => (Verdict.status)' = "completed")
  <2> SUFFICES ASSUME TypeOK, ReadingIsOver, [Next]_vars, consumer \in Finished,
                      Verdict.status = "completed"
               PROVE (Verdict.status)' = "completed"
    OBVIOUS
  <2>1. /\ ~cancelledBefore /\ terminal = "completed" /\ ~Unresolved(ledger)
        /\ cancelledAfter \/ exitCode \notin {"unobserved", "nonzero"}
    <3>1. ~cancelledBefore
      BY StoppedIsUnknown
    <3>2. terminal # "failed"
      BY <3>1 DEF Verdict, ResolveOutcome, RunOutcome
    <3>3. CASE cancelledAfter /\ terminal = "completed"
      BY <3>1, <3>3 DEF Verdict, ResolveOutcome, RunOutcome
    <3>4. CASE ~(cancelledAfter /\ terminal = "completed")
      BY <3>1, <3>2, <3>4 DEF Verdict, ResolveOutcome, RunOutcome, TypeOK,
         StreamTypes, TerminalEvent
    <3> QED
      BY <3>1, <3>3, <3>4
  <2>2. /\ UNCHANGED <<terminal, ledger, breach, exitCode, cancelledBefore>>
        /\ cancelledAfter => cancelledAfter'
    BY <2>1, VerdictAfterEnd
  <2>3. ~Unresolved(ledger)'
    BY <2>1, <2>2 DEF Unresolved
  <2> QED
    BY <2>1, <2>2, <2>3 DEF Verdict, ResolveOutcome, RunOutcome
<1> QED
  BY <1>1, <1>2, <1>3, RunTypeCorrect, PTL DEF Spec, CompletedStands

-----------------------------------------------------------------------------
(* Who kills.                                                              *)

Stopped == \E s \in Stoppers : stage[s] # "idle"
Aborting == consumer \in {"gathering", "reaping"} \cup Finished /\ Aborted

\* A caller of cancel() or shutdown() that has begun never begins again.
LEMMA StopsAreStopped ==
    ASSUME TypeOK, NEW s \in Stoppers, Stop(s) \/ StopProceeds(s)
    PROVE Stopped'
<1>1. stage' = [stage EXCEPT ![s] = stage'[s]] /\ stage'[s] # "idle"
  BY DEF Stop, StopProceeds, GraceExit, GraceTimeoutReaped, GraceTimeout,
     GraceTimeoutNoKiller, KillerNotStarted, KillerEnds, TreeReaped, TreeTimeout,
     ChildReaped, ChildTimeout, Drained, CancelReturns, Move, TypeOK, StopTypes
<1> QED
  BY <1>1 DEF Stopped

\* An observation that is being aborted stays aborted: a failure and a breach
\* are never withdrawn, and the stream does not end afterwards.
LEMMA AbortingStays ==
    ASSUME Aborting, [Next]_vars
    PROVE Aborting'
<1> USE DEF Aborting, Aborted, Finished
<1>1. CASE OperatingSystem
  BY <1>1 DEF OperatingSystem, ChildExits, ChildClosesStreams, DescendantExits,
     streamVars, consumerVars
<1>2. CASE StdoutDrain \/ StderrEnds
  <2>1. UNCHANGED <<consumer, streamEnded>>
    BY <1>2 DEF StdoutDrain, ReadEvent, ReadOverspend, ReadAfterTerminal,
       ReadCorrupt, ReadEof, Unpark, StdoutCancelled, StderrEnds, consumerVars
  <2>2. failure => failure'
    BY <1>2 DEF StdoutDrain, ReadEvent, ReadOverspend, ReadAfterTerminal,
       ReadCorrupt, ReadEof, Unpark, StdoutCancelled, StderrEnds, streamVars
  <2>3. breach # NoBreach => breach' # NoBreach
    BY <1>2 DEF StdoutDrain, Overspends, ReadEvent, ReadOverspend, ReadAfterTerminal,
       ReadCorrupt, ReadEof, Unpark, StdoutCancelled, StderrEnds, streamVars
  <2> QED
    BY <2>1, <2>2, <2>3
<1>3. CASE Consumer
  <2>1. Gathered \/ ReapChild
    BY <1>3 DEF Consumer, StartEvents, Receive, ReceiveEnd, Resume, Abandon
  <2>2. UNCHANGED <<streamEnded, failure, breach>>
    BY <2>1 DEF Gathered, ReapChild, streamVars
  <2>3. consumer' \in {"reaping"} \cup Finished
    BY <2>1 DEF Gathered, ReapChild, Conclude
  <2> QED
    BY <2>2, <2>3
<1>4. ASSUME NEW s \in Stoppers, Stop(s) \/ StopProceeds(s)
      PROVE UNCHANGED <<consumer, streamEnded, failure, breach>>
  BY <1>4 DEF Stop, StopProceeds, GraceExit, GraceTimeoutReaped, GraceTimeout,
     GraceTimeoutNoKiller, KillerNotStarted, KillerEnds, TreeReaped, TreeTimeout,
     ChildReaped, ChildTimeout, Drained, streamVars, consumerVars
<1>5. CASE UNCHANGED vars
  BY <1>5 DEF vars, streamVars, consumerVars
<1> QED
  BY <1>1, <1>2, <1>3, <1>4, <1>5 DEF Next

\* A turn that ends on its own is never shot, whatever the order in which its
\* streams close, its exit is noticed and its caller reads.
THEOREM OnlyAskedForKills == Spec => []NormalPathNeverKills
<1> USE DEF NormalPathNeverKills
<1>1. Init => NormalPathNeverKills
  BY DEF Init
<1>2. TypeOK /\ NormalPathNeverKills /\ [Next]_vars => NormalPathNeverKills'
  <2> SUFFICES ASSUME TypeOK, killed => Stopped \/ Aborting, [Next]_vars, killed'
               PROVE Stopped' \/ Aborting'
    BY DEF Stopped, Aborting, Aborted, Finished
  <2>1. CASE Aborting
    BY <2>1, AbortingStays
  <2>2. ASSUME NEW s \in Stoppers, Stop(s) \/ StopProceeds(s) PROVE Stopped'
    BY <2>2, StopsAreStopped
  <2>3. ASSUME Stopped, UNCHANGED stopVars PROVE Stopped'
    BY <2>3 DEF Stopped, stopVars
  <2>4. CASE OperatingSystem \/ StdoutDrain \/ StderrEnds \/ UNCHANGED vars
    <3>1. UNCHANGED killed
      BY <2>4 DEF OperatingSystem, ChildExits, ChildClosesStreams, DescendantExits,
         StdoutDrain, ReadEvent, ReadOverspend, ReadAfterTerminal, ReadCorrupt,
         ReadEof, Unpark, StdoutCancelled, StderrEnds, childVars, vars
    <3> QED
      BY <2>1, <2>3, <2>4, <3>1, OthersLeaveStops
  <2>5. CASE Consumer
    <3>1. UNCHANGED killed \/ Aborting'
      <4>1. CASE StartEvents \/ Receive \/ Resume
        BY <4>1 DEF StartEvents, Receive, Resume, childVars
      <4>2. CASE ReceiveEnd
        BY <4>2 DEF ReceiveEnd, BeginCleanup, Aborting, Aborted
      <4>3. CASE Abandon
        BY <4>3 DEF Abandon, BeginCleanup, Aborting, Aborted
      <4>4. CASE Gathered
        <5>1. CASE Reaped
          BY <4>4, <5>1 DEF Gathered, CloseTransport, Kill, TypeOK, ChildTypes
        <5>2. CASE ~Reaped /\ Aborted
          BY <4>4, <5>2 DEF Gathered, Aborting, Aborted, streamVars
        <5>3. CASE ~Reaped /\ ~Aborted
          BY <4>4, <5>3 DEF Gathered, ReleaseReaper
        <5> QED
          BY <5>1, <5>2, <5>3
      <4>5. CASE ReapChild
        BY <4>5 DEF ReapChild, WaitReleased, CloseTransport, Kill, TypeOK, ChildTypes
      <4> QED
        BY <2>5, <4>1, <4>2, <4>3, <4>4, <4>5 DEF Consumer
    <3> QED
      BY <2>1, <2>3, <2>5, <3>1, OthersLeaveStops
  <2> QED
    BY <2>2, <2>4, <2>5 DEF Next
<1> QED
  BY <1>1, <1>2, RunTypeCorrect, PTL DEF Spec
=============================================================================
