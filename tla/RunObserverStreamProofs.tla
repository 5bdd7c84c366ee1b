------------------------ MODULE RunObserverStreamProofs ------------------------
(***************************************************************************)
(* What the caller of events() is handed: the sentinel is last, nothing    *)
(* follows a terminal result, and no turn that overspent its budget is     *)
(* handed on, for any workers, repertoire, queue bound and budget.         *)
(***************************************************************************)
EXTENDS RunObserverProofs, FiniteSetTheorems

Item == Event \cup {End}

LEMMA EndIsNoEvent == End \notin Event
  BY DEF End, Event

LEMMA OneIsOne == \A n \in Nat \ {0} : n <= 1 => n = 1
  OBVIOUS

\* A sequence of at most one element is empty or that element.
LEMMA AtMostOne ==
    ASSUME NEW S, NEW p \in Seq(S), Len(p) <= 1, p # <<>>
    PROVE Len(p) = 1 /\ p[1] \in S /\ \A e : p = <<e>> <=> p[1] = e
<1>1. Len(p) \in Nat \ {0}
  BY EmptySeq
<1>2. Len(p) = 1
  BY <1>1, OneIsOne
<1> QED
  BY <1>2

\* One element more.
LEMMA OneMore ==
    ASSUME NEW S, NEW q \in Seq(S), NEW p \in Seq(S), Len(p) = 1
    PROVE /\ q \o p \in Seq(S) /\ Len(q \o p) = Len(q) + 1
          /\ \A i \in 1 .. Len(q) : (q \o p)[i] = q[i]
          /\ (q \o p)[Len(q) + 1] = p[1]
<1>1. /\ Len(q) \in Nat /\ Len(q \o p) = Len(q) + Len(p) /\ q \o p \in Seq(S)
      /\ \A i \in 1 .. Len(q) + Len(p) :
            (q \o p)[i] = IF i <= Len(q) THEN q[i] ELSE p[i - Len(q)]
  BY ConcatProperties, LenProperties
<1>2. Len(q \o p) = Len(q) + 1
  BY <1>1
<1>3. \A i \in 1 .. Len(q) + 1 :
            (q \o p)[i] = IF i <= Len(q) THEN q[i] ELSE p[i - Len(q)]
  BY <1>1
<1>4. \A i \in 1 .. Len(q) : (q \o p)[i] = q[i]
  BY <1>1, <1>3
<1>5. (q \o p)[Len(q) + 1] = p[1]
  BY <1>1, <1>3
<1> QED
  BY <1>1, <1>2, <1>4, <1>5

\* What the queue and the hand of a parked task are made of.
LEMMA Holdings ==
    ASSUME TypeOK
    PROVE /\ queue \in Seq(Item) /\ Len(queue) \in Nat
          /\ queue # <<>> => Len(queue) \in Nat \ {0}
          /\ parked \in Seq(Item) /\ Len(parked) \in Nat
          /\ parked # <<>> => Len(parked) = 1
          /\ seen \in Seq(Event) /\ seen \in Seq(Item) /\ Len(seen) \in Nat
<1>1. /\ queue \in Seq(Item) /\ parked \in Seq(Item) /\ Len(parked) <= 1
      /\ seen \in Seq(Event)
  BY DEF TypeOK, StreamTypes, TaskTypes, ConsumerTypes, Item
<1>2. /\ Len(queue) \in Nat /\ Len(parked) \in Nat /\ Len(seen) \in Nat
      /\ queue # <<>> => Len(queue) \in Nat \ {0}
      /\ parked # <<>> => Len(parked) \in Nat \ {0}
  BY <1>1, EmptySeq, LenProperties
<1>3. seen \in Seq(Item)
  BY <1>1, SeqMonotonic DEF Item
<1>4. parked # <<>> => Len(parked) = 1
  BY <1>1, AtMostOne
<1> QED
  BY <1>1, <1>2, <1>3, <1>4

\* The head is taken and the rest moves up.
LEMMA TakeFirst ==
    ASSUME NEW q \in Seq(Item), q # <<>>
    PROVE /\ Tail(q) \in Seq(Item) /\ Len(Tail(q)) \in Nat
          /\ Len(q) = Len(Tail(q)) + 1 /\ Head(q) = q[1]
          /\ \A i \in 1 .. Len(Tail(q)) : Tail(q)[i] = q[i + 1]
  BY HeadTailProperties, EmptySeq

-----------------------------------------------------------------------------
(* The sentinel.                                                           *)

\* The stdout task is parked exactly when it has an item in hand, a queued
\* sentinel is the last thing it ever put, and what was received ends there.
SentinelIsLast ==
    /\ stdoutTask = "parked" <=> parked # <<>>
    /\ \A i \in 1 .. Len(queue) :
        queue[i] = End => i = Len(queue) /\ parked = <<>> /\ stdoutTask = "done"
    /\ consumer = "unborn" => stdoutTask = "unborn" /\ queue = <<>>
    /\ streamEnded => consumer \in {"gathering", "reaping"} \cup Finished
    /\ StreamEndIsComplete

\* A put by a task that reads leaves the sentinel last: it is put by a task
\* that ends with it or waits with it in hand.
LEMMA PutKeepsSentinelLast ==
    ASSUME TypeOK, SentinelIsLast, stdoutTask = "reading", NEW item \in Item,
           NEW next \in {"reading", "done"}, item = End => next = "done",
           Put(item, next), UNCHANGED <<consumer, streamEnded>>
    PROVE SentinelIsLast'
<1> USE DEF SentinelIsLast, StreamEndIsComplete
<1>1. /\ queue \in Seq(Item) /\ Len(queue) \in Nat /\ parked = <<>>
      /\ \A i \in 1 .. Len(queue) : queue[i] # End
      /\ ~streamEnded /\ consumer # "unborn"
  BY LenProperties DEF TypeOK, StreamTypes, Item
<1>2. CASE /\ queue' = Append(queue, item) /\ stdoutTask' = next /\ UNCHANGED parked
  <2>1. /\ Len(queue') = Len(queue) + 1
        /\ \A i \in 1 .. Len(queue) : queue'[i] = queue[i]
        /\ queue'[Len(queue) + 1] = item
    BY <1>1, <1>2, AppendProperties
  <2> QED
    BY <1>1, <1>2, <2>1
<1>3. CASE /\ parked' = <<item>> /\ stdoutTask' = "parked" /\ UNCHANGED queue
  BY <1>1, <1>3
<1> QED
  BY <1>2, <1>3 DEF Put

\* The item in hand becomes the last of the queue.
LEMMA UnparkPuts ==
    ASSUME TypeOK, Unpark, parked # <<>>
    PROVE /\ parked = <<End>> <=> parked[1] = End
          /\ queue' \in Seq(Item) /\ Len(queue') = Len(queue) + 1
          /\ \A i \in 1 .. Len(queue) : queue'[i] = queue[i]
          /\ queue'[Len(queue) + 1] = parked[1]
<1>1. queue \in Seq(Item) /\ parked \in Seq(Item) /\ queue' = queue \o parked
  BY Holdings DEF Unpark
<1>2. Len(parked) <= 1
  BY DEF TypeOK, TaskTypes
<1>3. Len(parked) = 1 /\ (parked = <<End>> <=> parked[1] = End)
  BY <1>1, <1>2, AtMostOne
<1> QED
  BY <1>1, <1>3, OneMore

LEMMA SentinelStep ==
    ASSUME TypeOK, SentinelIsLast, [Next]_vars
    PROVE SentinelIsLast'
<1> USE DEF SentinelIsLast, StreamEndIsComplete, Finished
<1>0. /\ queue \in Seq(Item) /\ Len(queue) \in Nat
      /\ parked \in Seq(Item)
      /\ parked # <<>> => Len(parked) = 1
  BY Holdings
<1>1. CASE OperatingSystem \/ StderrEnds \/ UNCHANGED vars
  <2>1. UNCHANGED <<stdoutTask, parked, queue, consumer, streamEnded>>
    BY <1>1 DEF OperatingSystem, ChildExits, ChildClosesStreams, DescendantExits,
       StderrEnds, vars, taskVars, streamVars, consumerVars
  <2> QED
    BY <2>1
<1>2. CASE StdoutDrain
  <2>1. UNCHANGED <<consumer, streamEnded>>
    BY <1>2 DEF StdoutDrain, ReadEvent, ReadOverspend, ReadAfterTerminal,
       ReadCorrupt, ReadEof, Unpark, StdoutCancelled, consumerVars
  <2>2. ASSUME NEW e \in Repertoire, ReadEvent(e) PROVE SentinelIsLast'
    <3>1. e \in Item /\ e # End
      BY EventParts, EndIsNoEvent DEF Item
    <3> QED
      BY <2>1, <2>2, <3>1, PutKeepsSentinelLast DEF ReadEvent, StdoutReads
  <2>3. ASSUME StdoutReads, Put(End, "done") PROVE SentinelIsLast'
    BY <2>1, <2>3, PutKeepsSentinelLast DEF StdoutReads, Item
  <2>4. CASE ReadCorrupt \/ ReadEof \/ \E e \in Repertoire : ReadOverspend(e)
    BY <2>3, <2>4 DEF ReadCorrupt, ReadEof, ReadOverspend
  <2>5. ASSUME NEW e \in Repertoire, ReadAfterTerminal(e) PROVE SentinelIsLast'
    <3>1. UNCHANGED <<stdoutTask, parked, queue>>
      BY <2>5 DEF ReadAfterTerminal, taskVars
    <3> QED
      BY <2>1, <3>1
  <2>6. CASE Unpark
    <3>1. /\ parked # <<>> /\ queue' = queue \o parked /\ parked' = <<>>
          /\ stdoutTask' = IF parked = <<End>> THEN "done" ELSE "reading"
          /\ \A i \in 1 .. Len(queue) : queue[i] # End
      BY <2>6 DEF Unpark
    <3>2. /\ parked = <<End>> <=> parked[1] = End
          /\ queue' \in Seq(Item) /\ Len(queue') = Len(queue) + 1
          /\ \A i \in 1 .. Len(queue) : queue'[i] = queue[i]
          /\ queue'[Len(queue) + 1] = parked[1]
      BY <2>6, <3>1, UnparkPuts
    <3>3.. consumer # "unborn" /\ ~streamEnded
      BY <2>6 DEF Unpark
    <3> QED
      BY <1>0, <2>1, <3>1, <3>2, <3>3
  <2>7. CASE StdoutCancelled
    BY <2>1, <2>7 DEF StdoutCancelled, streamVars
  <2> QED
    BY <1>2, <2>2, <2>4, <2>5, <2>6, <2>7 DEF StdoutDrain
<1>3. CASE Consumer
  <2>1. CASE StartEvents
    BY <2>1 DEF StartEvents, streamVars
  <2>2. CASE Receive
    <3>1. /\ queue # <<>> /\ queue' = Tail(queue)
          /\ UNCHANGED <<stdoutTask, parked, streamEnded>>
          /\ consumer = "getting" /\ consumer' = "handling"
      BY <2>2 DEF Receive, taskVars
    <3>2. /\ Len(queue) = Len(queue') + 1 /\ Len(queue') \in Nat
          /\ \A i \in 1 .. Len(queue') : queue'[i] = queue[i + 1]
      BY <1>0, <3>1, TakeFirst
    <3>3. \A i \in 1 .. Len(queue') : i + 1 \in 1 .. Len(queue)
      BY <3>2
    <3>4. \A i \in 1 .. Len(queue') :
            queue'[i] = End => i = Len(queue') /\ parked = <<>> /\ stdoutTask = "done"
      BY <1>0, <3>2, <3>3
    <3> QED
      BY <3>1, <3>4
  <2>3. CASE ReceiveEnd
    <3>1. /\ queue # <<>> /\ Head(queue) = End /\ queue' = Tail(queue)
          /\ UNCHANGED <<stdoutTask, parked>> /\ consumer' = "gathering"
      BY <2>3 DEF ReceiveEnd, BeginCleanup
    <3>2. /\ queue[1] = End /\ 1 \in 1 .. Len(queue) /\ queue' \in Seq(Item)
          /\ Len(queue) = Len(queue') + 1 /\ Len(queue') \in Nat
      BY <1>0, <3>1, TakeFirst
    <3>3. Len(queue) = 1 /\ parked = <<>> /\ stdoutTask = "done"
      BY <3>2
    <3>4. Len(queue') = 0 /\ queue' \in Seq(Item)
      BY <3>2, <3>3
    <3>5. queue' = <<>>
      BY <3>4, EmptySeq
    <3> QED
      BY <3>1, <3>3, <3>4, <3>5
  <2>4. CASE Resume
    BY <2>4 DEF Resume, taskVars, streamVars
  <2>5. CASE Abandon
    BY <2>5 DEF Abandon, BeginCleanup, streamVars
  <2>6. CASE Gathered \/ ReapChild
    <3>1. /\ UNCHANGED <<stdoutTask, parked, queue, streamEnded>>
          /\ consumer \in {"gathering", "reaping"}
          /\ consumer' \in {"gathering", "reaping"} \cup Finished
      BY <2>6 DEF Gathered, ReapChild, Conclude, taskVars, streamVars
    <3> QED
      BY <3>1
  <2> QED
    BY <1>3, <2>1, <2>2, <2>3, <2>4, <2>5, <2>6 DEF Consumer
<1>4. ASSUME NEW s \in Stoppers, Stop(s) \/ StopProceeds(s) PROVE SentinelIsLast'
  <2>1. UNCHANGED <<stdoutTask, parked, queue, consumer, streamEnded>>
    BY <1>4 DEF Stop, StopProceeds, GraceExit, GraceTimeoutReaped, GraceTimeout,
       GraceTimeoutNoKiller, KillerNotStarted, KillerEnds, TreeReaped, TreeTimeout,
       ChildReaped, ChildTimeout, Drained, taskVars, streamVars, consumerVars
  <2> QED
    BY <2>1
<1> QED
  BY <1>1, <1>2, <1>3, <1>4 DEF Next

LEMMA SentinelAlwaysLast == Spec => []SentinelIsLast
<1>1. Init => SentinelIsLast
  BY EmptySeq DEF Init, SentinelIsLast, StreamEndIsComplete
<1> QED
  BY <1>1, SentinelStep, RunTypeCorrect, PTL DEF Spec

\* A caller told that the stream is over has received all of it: nothing is
\* queued, in hand or still to be read, also when the stream failed or was
\* stopped in between (RunObserver.events, the sentinel in _read_stdout).
THEOREM StreamsEndComplete == Spec => []StreamEndIsComplete
<1>1. SentinelIsLast => StreamEndIsComplete
  BY DEF SentinelIsLast
<1> QED
  BY <1>1, SentinelAlwaysLast, PTL

-----------------------------------------------------------------------------
(* What was committed to the consumer, and how a step changes it.          *)

LEMMA HistoryIsSeq ==
    ASSUME TypeOK
    PROVE /\ History \in Seq(Item) /\ seen \o queue \in Seq(Item)
          /\ Len(History) \in Nat /\ DOMAIN History = 1 .. Len(History)
<1>1. seen \o queue \in Seq(Item) /\ History \in Seq(Item)
  BY Holdings, ConcatProperties DEF History
<1> QED
  BY <1>1, LenProperties

LEMMA PutAppends ==
    ASSUME TypeOK, parked = <<>>, NEW item \in Item, NEW next, Put(item, next),
           UNCHANGED seen
    PROVE History' = Append(History, item)
<1>1. /\ seen \in Seq(Item) /\ queue \in Seq(Item) /\ <<item>> \in Seq(Item)
      /\ seen \o queue \in Seq(Item)
  BY Holdings, HistoryIsSeq
<1>2. History = seen \o queue
  BY <1>1, ConcatEmptySeq DEF History
<1>3. Append(History, item) = (seen \o queue) \o <<item>>
  BY <1>1, <1>2, AppendIsConcat
<1>4. CASE queue' = Append(queue, item) /\ UNCHANGED parked
  <2>1. queue' = queue \o <<item>> /\ queue' \in Seq(Item)
    BY <1>1, <1>4, AppendIsConcat, AppendProperties
  <2>2. History' = seen \o queue'
    <3>1. seen \o queue' \in Seq(Item)
      BY <1>1, <2>1, ConcatProperties
    <3> QED
      BY <1>4, <3>1, ConcatEmptySeq DEF History
  <2> QED
    BY <1>1, <1>3, <2>1, <2>2, ConcatAssociative
<1>5. CASE parked' = <<item>> /\ UNCHANGED queue
  BY <1>3, <1>5 DEF History
<1> QED
  BY <1>4, <1>5 DEF Put

LEMMA UnparkMoves ==
    ASSUME TypeOK, Unpark
    PROVE History' = History
<1>1. seen \in Seq(Item) /\ queue \in Seq(Item) /\ parked \in Seq(Item)
  BY Holdings
<1>2. queue' = queue \o parked /\ parked' = <<>> /\ seen' = seen
  BY DEF Unpark, consumerVars
<1>3. seen \o (queue \o parked) \in Seq(Item)
  BY <1>1, ConcatProperties
<1>4. History' = seen \o (queue \o parked)
  BY <1>2, <1>3, ConcatEmptySeq DEF History
<1> QED
  BY <1>1, <1>4, ConcatAssociative DEF History

LEMMA ReceiveMoves ==
    ASSUME TypeOK, Receive
    PROVE History' = History
<1>1. /\ seen \in Seq(Item) /\ queue \in Seq(Item) /\ parked \in Seq(Item)
      /\ queue # <<>>
  BY Holdings DEF Receive
<1>2. /\ queue' = Tail(queue) /\ seen' = Append(seen, Head(queue)) /\ parked' = parked
  BY DEF Receive, taskVars
<1>3. /\ Head(queue) \in Item /\ <<Head(queue)>> \in Seq(Item) /\ Tail(queue) \in Seq(Item)
      /\ queue = <<Head(queue)>> \o Tail(queue)
  <2>1. Head(queue) \in Item /\ Tail(queue) \in Seq(Item) /\ Head(queue) = queue[1]
    BY <1>1, HeadTailProperties
  <2>2. 1 \in 1 .. Len(queue) /\ Len(queue) \in 1 .. Len(queue)
    BY <1>1, EmptySeq
  <2>3. SubSeq(queue, 1, Len(queue)) = <<queue[1]>> \o SubSeq(queue, 2, Len(queue))
    BY <1>1, <2>2, SubSeqRecursiveFirst
  <2>4. SubSeq(queue, 1, Len(queue)) = queue /\ SubSeq(queue, 2, Len(queue)) = Tail(queue)
    BY <1>1, SubSeqFull, TailIsSubSeq
  <2> QED
    BY <2>1, <2>3, <2>4
<1>4. seen' = seen \o <<Head(queue)>>
  BY <1>1, <1>2, <1>3, AppendIsConcat
<1>5. seen' \o queue' = seen \o queue
  BY <1>1, <1>2, <1>3, <1>4, ConcatAssociative
<1> QED
  BY <1>2, <1>5 DEF History

\* The sentinel that is taken was the last of what was committed.
LEMMA ReceiveEndShortens ==
    ASSUME TypeOK, SentinelIsLast, ReceiveEnd
    PROVE History = Append(History', End) /\ History' \in Seq(Item)
<1>1. queue \in Seq(Item) /\ queue # <<>> /\ queue[1] = End /\ seen \in Seq(Item)
  BY Holdings, HeadTailProperties DEF ReceiveEnd
<1>2. 1 \in 1 .. Len(queue)
  BY <1>1, EmptySeq
<1>3. Len(queue) = 1 /\ parked = <<>> /\ seen' = seen /\ parked' = parked
  BY <1>1, <1>2 DEF SentinelIsLast, ReceiveEnd, BeginCleanup
<1>4. queue = <<End>> /\ queue' = <<>>
  <2>1. queue = <<End>>
    BY <1>1, <1>3, AtMostOne
  <2> QED
    BY <2>1 DEF ReceiveEnd
<1>5. History' = seen
  BY <1>1, <1>3, <1>4, ConcatEmptySeq DEF History
<1>6. History = seen \o <<End>>
  BY <1>1, <1>3, <1>4, HistoryIsSeq, ConcatEmptySeq DEF History
<1>7. End \in Item
  BY DEF Item
<1> QED
  BY <1>1, <1>5, <1>6, <1>7, AppendIsConcat

\* A cancelled task takes what it had in hand with it.
LEMMA CancelledShortens ==
    ASSUME TypeOK, StdoutCancelled
    PROVE \/ History' = History
          \/ /\ History' \in Seq(Item)
             /\ \E x \in Item : History = Append(History', x)
<1>1. /\ seen \o queue \in Seq(Item) /\ parked \in Seq(Item)
      /\ parked # <<>> => Len(parked) = 1
  BY Holdings, HistoryIsSeq
<1>2. queue' = queue /\ seen' = seen /\ parked' = <<>>
  BY DEF StdoutCancelled, streamVars, consumerVars
<1>3. History' = seen \o queue
  BY <1>1, <1>2, ConcatEmptySeq DEF History
<1>4. CASE parked = <<>>
  BY <1>2, <1>4 DEF History
<1>5. CASE parked # <<>>
  <2>1. Len(parked) <= 1
    BY DEF TypeOK, TaskTypes
  <2>2. parked[1] \in Item /\ parked = <<parked[1]>>
    BY <1>1, <1>5, <2>1, AtMostOne
  <2>3. History = (seen \o queue) \o <<parked[1]>>
    BY <2>2 DEF History
  <2> QED
    BY <1>1, <1>3, <2>2, <2>3, AppendIsConcat
<1> QED
  BY <1>4, <1>5

-----------------------------------------------------------------------------
(* Nothing follows a terminal result.                                      *)

\* NothingAfterTerminal of any sequence of items.
Closed(h, t) ==
    \A i \in DOMAIN h :
        TerminalOf(h[i]) # "none" =>
            t = TerminalOf(h[i]) /\ \A j \in i + 1 .. Len(h) : h[j] = End

LEMMA AppendedParts ==
    ASSUME NEW h \in Seq(Item), NEW x \in Item
    PROVE /\ Len(h) \in Nat /\ DOMAIN h = 1 .. Len(h)
          /\ Len(Append(h, x)) = Len(h) + 1 /\ Append(h, x) \in Seq(Item)
          /\ DOMAIN Append(h, x) = 1 .. Len(h) + 1
          /\ \A i \in 1 .. Len(h) : Append(h, x)[i] = h[i]
          /\ Append(h, x)[Len(h) + 1] = x
  BY AppendProperties, LenProperties

LEMMA ClosedByEnd ==
    ASSUME NEW h \in Seq(Item), NEW t, Closed(h, t)
    PROVE Closed(Append(h, End), t)
<1>1. End \in Item /\ TerminalOf(End) = "none"
  BY DEF Item, End, TerminalOf
<1> QED
  BY <1>1, AppendedParts DEF Closed

\* As long as there is no terminal any event may be added.
LEMMA ClosedByEvent ==
    ASSUME NEW h \in Seq(Item), NEW e \in Item, Closed(h, "none")
    PROVE Closed(Append(h, e), TerminalOf(e))
  BY AppendedParts DEF Closed

LEMMA ClosedPrefix ==
    ASSUME NEW h \in Seq(Item), NEW x \in Item, NEW t, Closed(Append(h, x), t)
    PROVE Closed(h, t)
  BY AppendedParts DEF Closed

\* A result ends the turn for its caller: no second result, no message and no
\* activity is ever queued behind it (RunObserver._emit).
THEOREM TerminalIsFinal == Spec => []NothingAfterTerminal
<1>1. NothingAfterTerminal <=> Closed(History, terminal)
  BY DEF NothingAfterTerminal, Closed
<1>2. Init => Closed(History, terminal)
  <2> SUFFICES ASSUME Init PROVE Closed(History, terminal)
    OBVIOUS
  <2>1. History = <<>>
    BY DEF Init, History
  <2> QED
    BY <2>1 DEF Closed
<1>3. TypeOK /\ SentinelIsLast /\ Closed(History, terminal) /\ [Next]_vars
        => Closed(History, terminal)'
  <2> SUFFICES ASSUME TypeOK, SentinelIsLast, Closed(History, terminal), [Next]_vars
               PROVE Closed(History', terminal')
    BY DEF Closed
  <2>0. History \in Seq(Item) /\ End \in Item
    BY HistoryIsSeq DEF Item
  <2>1. CASE History' = History /\ terminal' = terminal
    BY <2>1
  <2>2. ASSUME StdoutReads, Put(End, "done"), UNCHANGED <<seen, terminal>>
        PROVE Closed(History', terminal')
    <3>1. parked = <<>>
      BY <2>2 DEF SentinelIsLast, StdoutReads
    <3> QED
      BY <2>0, <2>2, <3>1, PutAppends, ClosedByEnd
  <2>3. CASE StdoutDrain
    <3>1. ASSUME NEW e \in Repertoire, ReadEvent(e) PROVE Closed(History', terminal')
      <4>1. e \in Item /\ parked = <<>> /\ terminal = "none" /\ terminal' = TerminalOf(e)
            /\ Put(e, "reading") /\ UNCHANGED seen
        BY <3>1, EventParts DEF ReadEvent, StdoutReads, SentinelIsLast, Item, consumerVars
      <4>2. History' = Append(History, e)
        BY <4>1, PutAppends
      <4> QED
        BY <2>0, <4>1, <4>2, ClosedByEvent
    <3>2. CASE ReadCorrupt \/ ReadEof \/ \E e \in Repertoire : ReadOverspend(e)
      BY <2>2, <3>2 DEF ReadCorrupt, ReadEof, ReadOverspend, consumerVars
    <3>3. ASSUME NEW e \in Repertoire, ReadAfterTerminal(e) PROVE Closed(History', terminal')
      <4>1. UNCHANGED <<seen, queue, parked, terminal>>
        BY <3>3 DEF ReadAfterTerminal, taskVars, consumerVars
      <4> QED
        BY <2>1, <4>1 DEF History
    <3>4. CASE Unpark
      BY <2>1, <3>4, UnparkMoves DEF Unpark
    <3>5. CASE StdoutCancelled
      BY <2>1, <3>5, CancelledShortens, ClosedPrefix DEF StdoutCancelled, streamVars
    <3> QED
      BY <2>3, <3>1, <3>2, <3>3, <3>4, <3>5 DEF StdoutDrain
  <2>4. CASE Receive
    BY <2>1, <2>4, ReceiveMoves DEF Receive
  <2>5. CASE ReceiveEnd
    BY <2>0, <2>5, ReceiveEndShortens, ClosedPrefix DEF ReceiveEnd
  <2>6. CASE OperatingSystem \/ StderrEnds \/ UNCHANGED vars \/ StartEvents \/ Resume
             \/ Abandon \/ Gathered \/ ReapChild
    <3>1. UNCHANGED <<seen, queue, parked, terminal>>
      BY <2>6 DEF OperatingSystem, ChildExits, ChildClosesStreams, DescendantExits,
         StderrEnds, StartEvents, Resume, Abandon, BeginCleanup, Gathered, ReapChild,
         vars, taskVars, streamVars, consumerVars
    <3> QED
      BY <2>1, <3>1 DEF History
  <2>7. ASSUME NEW s \in Stoppers, Stop(s) \/ StopProceeds(s)
        PROVE Closed(History', terminal')
    <3>1. UNCHANGED <<seen, queue, parked, terminal>>
      BY <2>7 DEF Stop, StopProceeds, GraceExit, GraceTimeoutReaped, GraceTimeout,
         GraceTimeoutNoKiller, KillerNotStarted, KillerEnds, TreeReaped, TreeTimeout,
         ChildReaped, ChildTimeout, Drained, taskVars, streamVars, consumerVars
    <3> QED
      BY <2>1, <3>1 DEF History
  <2> QED
    BY <2>3, <2>4, <2>5, <2>6, <2>7 DEF Next, Consumer
<1> QED
  BY <1>1, <1>2, <1>3, RunTypeCorrect, SentinelAlwaysLast, PTL DEF Spec

-----------------------------------------------------------------------------
(* The budget.                                                             *)

\* LiveAfter, and BudgetHeld, of any sequence of items.
LiveIn(h, n) ==
    {w \in Workers : \E i \in 1 .. n :
        /\ h[i].kind = "start" /\ h[i].worker = w
        /\ \A j \in i + 1 .. n : ~(h[j].kind = "finish" /\ h[j].worker = w)}

Starts(h) == {i \in DOMAIN h : h[i].kind = "start"}

WithinBudget(h) ==
    /\ Cardinality(Starts(h)) <= MaxTotalStarts
    /\ \A i \in Starts(h) : h[i].depth <= MaxDepth
    /\ \A i \in Starts(h) : Cardinality(LiveIn(h, i)) <= MaxConcurrent

\* The ledger counts exactly what was committed.
Counted(h, l) == l.started = Cardinality(Starts(h)) /\ l.live = LiveIn(h, Len(h))

\* The stdout task may still commit an event.
ReadsOn ==
    \/ stdoutTask \in {"unborn", "reading"}
    \/ stdoutTask = "parked" /\ parked # <<End>>

\* While events are still committed the ledger is what they add up to; it runs
\* ahead of them only once nothing is committed any more.
Tally ==
    /\ WithinBudget(History)
    /\ IsFiniteSet(ledger.live)
    /\ ReadsOn /\ terminal = "none" => Counted(History, ledger)

LEMMA StartsAreCounted ==
    ASSUME NEW h \in Seq(Item)
    PROVE IsFiniteSet(Starts(h)) /\ Len(h) + 1 \notin Starts(h)
<1>1. Len(h) \in Nat /\ Starts(h) \subseteq 1 .. Len(h)
  BY LenProperties DEF Starts
<1>2. IsFiniteSet(1 .. Len(h))
  BY <1>1, FS_Interval
<1>3. Starts(h) \in SUBSET (1 .. Len(h))
  BY <1>1
<1> QED
  BY <1>1, <1>2, <1>3, FS_Subset

\* An item more leaves the earlier ones what they were.
LEMMA EarlierStays ==
    ASSUME NEW h \in Seq(Item), NEW x \in Item, NEW n \in 0 .. Len(h)
    PROVE LiveIn(Append(h, x), n) = LiveIn(h, n)
<1>1. /\ Len(h) \in Nat /\ \A i \in 1 .. Len(h) : Append(h, x)[i] = h[i]
  BY AppendedParts
<1>2. \A i \in 1 .. n : i \in 1 .. Len(h) /\ \A j \in i + 1 .. n : j \in 1 .. Len(h)
  BY <1>1
<1>3. \A i \in 1 .. n :
        /\ Append(h, x)[i] = h[i]
        /\ \A j \in i + 1 .. n : Append(h, x)[j] = h[j]
  BY <1>1, <1>2
<1> QED
  BY <1>3 DEF LiveIn

\* Who is live after one item more.
LEMMA LiveAfterOneMore ==
    ASSUME NEW h \in Seq(Item), NEW x \in Item,
           x.kind \in {"start", "finish"} => x.worker \in Workers
    PROVE LET before == LiveIn(h, Len(h))
              after == LiveIn(Append(h, x), Len(h) + 1)
          IN  /\ x.kind = "start" => after = before \cup {x.worker}
              /\ x.kind = "finish" => after = before \ {x.worker}
              /\ x.kind \notin {"start", "finish"} => after = before
<1> DEFINE N == Len(h)
           g == Append(h, x)
           Opens(w, i) == g[i].kind = "start" /\ g[i].worker = w
           Closes(w, j) == g[j].kind = "finish" /\ g[j].worker = w
           Old(w) == \E i \in 1 .. N : Opens(w, i) /\ \A j \in i + 1 .. N : ~Closes(w, j)
           New(w) == \E i \in 1 .. N + 1 :
                        Opens(w, i) /\ \A j \in i + 1 .. N + 1 : ~Closes(w, j)
<1>1. N \in Nat /\ g[N + 1] = x
  BY AppendedParts
<1>2. \A w \in Workers : w \in LiveIn(h, N) <=> Old(w)
  <2>1. LiveIn(h, N) = LiveIn(g, N)
    BY <1>1, EarlierStays
  <2> QED
    BY <2>1 DEF LiveIn
<1>3. \A w \in Workers : w \in LiveIn(g, N + 1) <=> New(w)
  BY DEF LiveIn
<1>4. /\ \A i \in 1 .. N + 1 : i \in 1 .. N \/ i = N + 1
      /\ \A i \in 1 .. N : i \in 1 .. N + 1 /\ N + 1 \in i + 1 .. N + 1
      /\ \A i \in 1 .. N : \A j \in i + 1 .. N + 1 : j \in i + 1 .. N \/ j = N + 1
      /\ \A i \in 1 .. N : \A j \in i + 1 .. N : j \in i + 1 .. N + 1
      /\ N + 1 \in 1 .. N + 1 /\ (N + 1) + 1 .. N + 1 = {}
  BY <1>1
<1>5. \A w \in Workers :
        New(w) <=> \/ x.kind = "start" /\ x.worker = w
                   \/ Old(w) /\ ~(x.kind = "finish" /\ x.worker = w)
  <2> HIDE DEF N, g
  <2>1. \A w : Opens(w, N + 1) <=> x.kind = "start" /\ x.worker = w
    BY <1>1
  <2>2. \A w : Closes(w, N + 1) <=> x.kind = "finish" /\ x.worker = w
    BY <1>1
  <2> HIDE DEF Opens, Closes
  <2>3. ASSUME NEW w \in Workers, New(w)
        PROVE \/ Opens(w, N + 1)
              \/ Old(w) /\ ~Closes(w, N + 1)
    BY <1>4, <2>3
  <2>4. ASSUME NEW w \in Workers, Opens(w, N + 1) PROVE New(w)
    BY <1>4, <2>4
  <2>5. ASSUME NEW w \in Workers, Old(w), ~Closes(w, N + 1) PROVE New(w)
    BY <1>4, <2>5
  <2> QED
    BY <2>1, <2>2, <2>3, <2>4, <2>5
<1>6. LiveIn(h, N) \subseteq Workers /\ LiveIn(g, N + 1) \subseteq Workers
  BY DEF LiveIn
<1> HIDE DEF N, g, Opens, Closes, Old, New
<1>7. CASE x.kind = "start"
  BY <1>2, <1>3, <1>5, <1>6, <1>7 DEF N, g
<1>8. CASE x.kind = "finish"
  BY <1>2, <1>3, <1>5, <1>6, <1>8 DEF N, g
<1>9. CASE x.kind \notin {"start", "finish"}
  BY <1>2, <1>3, <1>5, <1>6, <1>9 DEF N, g
<1> QED
  BY <1>7, <1>8, <1>9

LEMMA StartsAfterOneMore ==
    ASSUME NEW h \in Seq(Item), NEW x \in Item
    PROVE /\ Starts(Append(h, x)) = IF x.kind = "start" THEN Starts(h) \cup {Len(h) + 1}
                                                        ELSE Starts(h)
          /\ Cardinality(Starts(h)) \in Nat
          /\ Cardinality(Starts(Append(h, x))) =
                Cardinality(Starts(h)) + IF x.kind = "start" THEN 1 ELSE 0
<1>1. Starts(Append(h, x)) = IF x.kind = "start" THEN Starts(h) \cup {Len(h) + 1}
                                                 ELSE Starts(h)
  <2>1. /\ DOMAIN h = 1 .. Len(h) /\ DOMAIN Append(h, x) = 1 .. Len(h) + 1
        /\ \A i \in 1 .. Len(h) : Append(h, x)[i] = h[i]
        /\ Append(h, x)[Len(h) + 1] = x /\ Len(h) \in Nat
    BY AppendedParts
  <2>2. 1 .. Len(h) + 1 = (1 .. Len(h)) \cup {Len(h) + 1}
    BY <2>1
  <2> QED
    BY <2>1, <2>2 DEF Starts
<1>2. IsFiniteSet(Starts(h)) /\ Len(h) + 1 \notin Starts(h)
  BY StartsAreCounted
<1>3. Cardinality(Starts(h)) \in Nat
  BY <1>2, FS_CardinalityType
<1>4. Cardinality(Starts(h) \cup {Len(h) + 1}) = Cardinality(Starts(h)) + 1
  BY <1>2, FS_AddElement
<1> QED
  BY <1>1, <1>3, <1>4

\* The starts committed before, judged as they were.
LEMMA EarlierStarts ==
    ASSUME NEW h \in Seq(Item), NEW x \in Item
    PROVE \A i \in Starts(h) : /\ i \in Starts(Append(h, x)) /\ Append(h, x)[i] = h[i]
                               /\ LiveIn(Append(h, x), i) = LiveIn(h, i)
<1>1. /\ DOMAIN h = 1 .. Len(h) /\ Len(h) \in Nat
      /\ \A i \in 1 .. Len(h) : Append(h, x)[i] = h[i]
  BY AppendedParts
<1>2. \A i \in Starts(h) : i \in 1 .. Len(h) /\ i \in 0 .. Len(h)
  BY <1>1 DEF Starts
<1>3. \A i \in Starts(h) : i \in Starts(Append(h, x))
  BY StartsAfterOneMore
<1> QED
  BY <1>1, <1>2, <1>3, EarlierStays

LEMMA BudgetOfPrefix ==
    ASSUME NEW h \in Seq(Item), NEW x \in Item, WithinBudget(Append(h, x))
    PROVE WithinBudget(h)
<1>1. Cardinality(Starts(h)) <= Cardinality(Starts(Append(h, x)))
      /\ Cardinality(Starts(h)) \in Nat /\ Cardinality(Starts(Append(h, x))) \in Nat
  BY StartsAfterOneMore
<1>2. Cardinality(Starts(h)) <= MaxTotalStarts
  BY <1>1, BudgetAssumption DEF WithinBudget
<1> QED
  BY <1>2, EarlierStarts DEF WithinBudget

LEMMA BudgetOfOthers ==
    ASSUME NEW h \in Seq(Item), NEW x \in Item, x.kind # "start", WithinBudget(h)
    PROVE WithinBudget(Append(h, x))
<1>1. Starts(Append(h, x)) = Starts(h)
  BY StartsAfterOneMore
<1> QED
  BY <1>1, EarlierStarts DEF WithinBudget

\* The ledger, charged with an event that does not overspend, still counts
\* what is committed once that event is.
LEMMA ChargeCounts ==
    ASSUME TypeOK, IsFiniteSet(ledger.live), Counted(History, ledger),
           NEW e \in Repertoire, ~Overspends(e), Charge(e)
    PROVE /\ Counted(Append(History, e), ledger')
          /\ e.kind = "start" =>
                /\ e.depth <= MaxDepth /\ ledger'.started <= MaxTotalStarts
                /\ Cardinality(ledger'.live) <= MaxConcurrent
<1> DEFINE g == Append(History, e)
<1>1. /\ e \in Item /\ History \in Seq(Item) /\ Len(g) = Len(History) + 1
      /\ e.depth \in Nat
      /\ e.kind \in {"start", "finish"} => e.worker \in Workers
  BY EventParts, HistoryIsSeq, AppendedParts DEF Item
<1>2. LET before == LiveIn(History, Len(History))
          after == LiveIn(g, Len(History) + 1)
      IN  /\ e.kind = "start" => after = before \cup {e.worker}
          /\ e.kind = "finish" => after = before \ {e.worker}
          /\ e.kind \notin {"start", "finish"} => after = before
  BY <1>1, LiveAfterOneMore
<1>3. /\ Cardinality(Starts(g)) =
            Cardinality(Starts(History)) + IF e.kind = "start" THEN 1 ELSE 0
      /\ Cardinality(Starts(History)) \in Nat
  BY <1>1, StartsAfterOneMore
<1>4. /\ ledger.started = Cardinality(Starts(History))
      /\ ledger.live = LiveIn(History, Len(History))
      /\ ledger \in [started : Nat, live : SUBSET Workers]
  BY DEF Counted, TypeOK, StreamTypes
<1> HIDE DEF g
<1>5. CASE e.kind = "start"
  <2>1. StartBreach(ledger, e.worker, e.depth) = NoBreach
    BY <1>5 DEF Overspends
  <2>2. /\ ~(e.depth > MaxDepth)
        /\ ~(WorkerStarted(ledger, e.worker, e.depth).started > MaxTotalStarts)
        /\ ~(Cardinality(WorkerStarted(ledger, e.worker, e.depth).live) > MaxConcurrent)
    BY <2>1 DEF StartBreach, NoBreach, DepthExceeded, BudgetExceeded
  <2>3. ledger' = WorkerStarted(ledger, e.worker, e.depth)
    BY <1>5 DEF Charge
  <2>4. ledger' = [started |-> ledger.started + 1, live |-> ledger.live \cup {e.worker}]
    BY <2>2, <2>3 DEF WorkerStarted
  <2>5. Counted(g, ledger')
    BY <1>1, <1>2, <1>3, <1>4, <1>5, <2>4 DEF Counted, g
  <2>6. e.depth <= MaxDepth /\ ledger'.started <= MaxTotalStarts
    <3>1. ledger'.started \in Nat /\ ~(ledger'.started > MaxTotalStarts)
      <4>1. ledger.started \in Nat /\ ledger'.started = ledger.started + 1
        BY <1>4, <2>4
      <4> QED
        BY <2>2, <2>3, <4>1
    <3>2. e.depth <= MaxDepth
      BY <1>1, <2>2, BudgetAssumption
    <3> QED
      BY <3>1, <3>2, BudgetAssumption
  <2>7. Cardinality(ledger'.live) <= MaxConcurrent
    <3>1. IsFiniteSet(ledger'.live)
      BY <2>4, FS_AddElement
    <3>2. Cardinality(ledger'.live) \in Nat
      BY <3>1, FS_CardinalityType
    <3> QED
      BY <2>2, <2>3, <3>2, BudgetAssumption
  <2> QED
    BY <2>5, <2>6, <2>7 DEF g
<1>6. CASE e.kind = "finish"
  <2>1. ledger' = [started |-> ledger.started, live |-> ledger.live \ {e.worker}]
    BY <1>4, <1>6 DEF Charge, WorkerFinished
  <2> QED
    BY <1>1, <1>2, <1>3, <1>4, <1>6, <2>1 DEF Counted, g
<1>7. CASE e.kind \notin {"start", "finish"}
  <2>1. ledger' = ledger
    BY <1>7 DEF Charge
  <2> QED
    BY <1>1, <1>2, <1>3, <1>4, <1>7, <2>1 DEF Counted, g
<1> QED
  BY <1>5, <1>6, <1>7

\* An event that does not overspend may be committed.
LEMMA BudgetOfEvent ==
    ASSUME TypeOK, Tally, Counted(History, ledger), NEW e \in Repertoire,
           ~Overspends(e), Charge(e)
    PROVE /\ WithinBudget(Append(History, e)) /\ Counted(Append(History, e), ledger')
          /\ IsFiniteSet(ledger'.live)
<1>1. /\ e \in Item /\ History \in Seq(Item)
      /\ WithinBudget(History) /\ IsFiniteSet(ledger.live)
  BY EventParts, HistoryIsSeq DEF Item, Tally
<1>2. /\ Counted(Append(History, e), ledger')
      /\ e.kind = "start" =>
                /\ e.depth <= MaxDepth /\ ledger'.started <= MaxTotalStarts
                /\ Cardinality(ledger'.live) <= MaxConcurrent
  BY <1>1, ChargeCounts
<1>3. CASE e.kind # "start"
  <2>1. ledger'.live \in SUBSET ledger.live
    BY <1>3 DEF Charge, WorkerFinished, TypeOK, StreamTypes
  <2> QED
    BY <1>1, <1>2, <1>3, <2>1, BudgetOfOthers, FS_Subset
<1>4. CASE e.kind = "start"
  <2> DEFINE g == Append(History, e)
  <2>1. /\ Starts(g) = Starts(History) \cup {Len(History) + 1}
        /\ g[Len(History) + 1] = e /\ Len(g) = Len(History) + 1
    BY <1>1, <1>4, StartsAfterOneMore, AppendedParts
  <2>2. /\ Cardinality(Starts(g)) <= MaxTotalStarts
        /\ Cardinality(LiveIn(g, Len(History) + 1)) <= MaxConcurrent
    BY <1>2, <1>4, <2>1 DEF Counted
  <2>3. \A i \in Starts(History) :
            g[i].depth <= MaxDepth /\ Cardinality(LiveIn(g, i)) <= MaxConcurrent
    BY <1>1, EarlierStarts DEF WithinBudget
  <2>4. WithinBudget(g)
    <3> HIDE DEF g
    <3> QED
      BY <1>2, <1>4, <2>1, <2>2, <2>3 DEF WithinBudget
  <2>5. IsFiniteSet(ledger'.live)
    <3>1. ledger'.live = ledger.live \/ ledger'.live = ledger.live \cup {e.worker}
      BY <1>4 DEF Charge, WorkerStarted
    <3>2. IsFiniteSet(ledger.live \cup {e.worker})
      BY <1>1, FS_AddElement
    <3> QED
      BY <1>1, <3>1, <3>2
  <2> QED
    BY <1>2, <2>4, <2>5
<1> QED
  BY <1>3, <1>4

LEMMA ChargeKeepsFinite ==
    ASSUME TypeOK, IsFiniteSet(ledger.live), NEW e \in Repertoire, Charge(e)
    PROVE IsFiniteSet(ledger'.live)
<1>1. ledger' \in [started : Nat, live : SUBSET Workers]
  BY ChargeTypes
<1>2. ledger'.live \subseteq ledger.live \cup {e.worker}
  BY DEF Charge, WorkerStarted, WorkerFinished, TypeOK, StreamTypes
<1>3. IsFiniteSet(ledger.live \cup {e.worker})
  BY FS_AddElement
<1>4. ledger'.live \in SUBSET (ledger.live \cup {e.worker})
  BY <1>2
<1> QED
  BY <1>3, <1>4, FS_Subset

\* The sentinel spends nothing, and nothing is committed after it.
LEMMA SentinelTally ==
    ASSUME TypeOK, SentinelIsLast, Tally, StdoutReads, Put(End, "done"),
           UNCHANGED seen, IsFiniteSet(ledger'.live)
    PROVE Tally'
<1>1. parked = <<>> /\ End \in Item /\ End.kind # "start"
  BY DEF SentinelIsLast, StdoutReads, Item, End
<1>2. History' = Append(History, End)
  BY <1>1, PutAppends
<1>3. WithinBudget(History')
  BY <1>1, <1>2, HistoryIsSeq, BudgetOfOthers DEF Tally
<1>4. ~ReadsOn'
  BY DEF Put, ReadsOn
<1> QED
  BY <1>3, <1>4 DEF Tally

LEMMA TallyStep ==
    ASSUME TypeOK, SentinelIsLast, Tally, [Next]_vars
    PROVE Tally'
<1>0. WithinBudget(History) /\ IsFiniteSet(ledger.live) /\ History \in Seq(Item)
  BY HistoryIsSeq DEF Tally
<1>1. ASSUME History' = History, UNCHANGED <<ledger, terminal>>, ReadsOn' => ReadsOn
      PROVE Tally'
  BY <1>1 DEF Tally
<1>2. CASE StdoutDrain
  <2>1. ASSUME NEW e \in Repertoire, ReadEvent(e) PROVE Tally'
    <3>1. /\ e \in Item /\ parked = <<>> /\ Put(e, "reading") /\ UNCHANGED seen
          /\ terminal = "none" /\ stdoutTask = "reading" /\ ~Overspends(e) /\ Charge(e)
      BY <2>1, EventParts DEF ReadEvent, StdoutReads, SentinelIsLast, Item, consumerVars
    <3>2. History' = Append(History, e)
      BY <3>1, PutAppends
    <3>3. Counted(History, ledger)
      BY <3>1 DEF Tally, ReadsOn
    <3>4. /\ WithinBudget(Append(History, e)) /\ Counted(Append(History, e), ledger')
          /\ IsFiniteSet(ledger'.live)
      BY <3>1, <3>3, BudgetOfEvent
    <3> QED
      BY <3>2, <3>4 DEF Tally
  <2>2. CASE ReadCorrupt \/ ReadEof
    BY <1>0, <2>2, SentinelTally DEF ReadCorrupt, ReadEof, consumerVars
  <2>3. ASSUME NEW e \in Repertoire, ReadOverspend(e) PROVE Tally'
    BY <1>0, <2>3, ChargeKeepsFinite, SentinelTally DEF ReadOverspend, consumerVars
  <2>4. ASSUME NEW e \in Repertoire, ReadAfterTerminal(e) PROVE Tally'
    <3>1. /\ UNCHANGED <<seen, queue, parked, terminal>> /\ terminal # "none"
          /\ IsFiniteSet(ledger'.live)
      BY <1>0, <2>4, ChargeKeepsFinite DEF ReadAfterTerminal, taskVars, consumerVars
    <3> QED
      BY <1>0, <3>1 DEF Tally, History
  <2>5. CASE Unpark
    BY <1>1, <2>5, UnparkMoves DEF Unpark, ReadsOn
  <2>6. CASE StdoutCancelled
    <3>1. ~ReadsOn' /\ ledger' = ledger
      BY <2>6 DEF StdoutCancelled, ReadsOn, streamVars
    <3>2. WithinBudget(History')
      BY <1>0, <2>6, CancelledShortens, BudgetOfPrefix
    <3> QED
      BY <1>0, <3>1, <3>2 DEF Tally
  <2> QED
    BY <1>2, <2>1, <2>2, <2>3, <2>4, <2>5, <2>6 DEF StdoutDrain
<1>3. CASE Receive
  BY <1>1, <1>3, ReceiveMoves DEF Receive, ReadsOn, taskVars
<1>4. CASE ReceiveEnd
  <2>1. queue \in Seq(Item) /\ queue # <<>> /\ queue[1] = End
    BY <1>4, Holdings, HeadTailProperties DEF ReceiveEnd
  <2>2. 1 \in 1 .. Len(queue)
    BY <2>1, EmptySeq
  <2>3. ~ReadsOn' /\ ledger' = ledger
    BY <1>4, <2>1, <2>2 DEF SentinelIsLast, ReceiveEnd, BeginCleanup, ReadsOn
  <2>4. WithinBudget(History')
    BY <1>0, <1>4, ReceiveEndShortens, BudgetOfPrefix DEF Item
  <2> QED
    BY <1>0, <2>3, <2>4 DEF Tally
<1>5. CASE StartEvents
  <2>1. UNCHANGED <<seen, queue, parked, terminal, ledger>> /\ ReadsOn
    BY <1>5 DEF StartEvents, SentinelIsLast, ReadsOn, streamVars
  <2> QED
    BY <1>1, <2>1 DEF History
<1>6. CASE OperatingSystem \/ StderrEnds \/ UNCHANGED vars \/ Resume \/ Abandon
           \/ Gathered \/ ReapChild
  <2>1. UNCHANGED <<seen, queue, parked, stdoutTask, terminal, ledger>>
    BY <1>6 DEF OperatingSystem, ChildExits, ChildClosesStreams, DescendantExits,
       StderrEnds, Resume, Abandon, BeginCleanup, Gathered, ReapChild,
       vars, taskVars, streamVars, consumerVars
  <2> QED
    BY <1>1, <2>1 DEF History, ReadsOn
<1>7. ASSUME NEW s \in Stoppers, Stop(s) \/ StopProceeds(s) PROVE Tally'
  <2>1. UNCHANGED <<seen, queue, parked, stdoutTask, terminal, ledger>>
    BY <1>7 DEF Stop, StopProceeds, GraceExit, GraceTimeoutReaped, GraceTimeout,
       GraceTimeoutNoKiller, KillerNotStarted, KillerEnds, TreeReaped, TreeTimeout,
       ChildReaped, ChildTimeout, Drained, taskVars, streamVars, consumerVars
  <2> QED
    BY <1>1, <2>1 DEF History, ReadsOn
<1> QED
  BY <1>2, <1>3, <1>4, <1>5, <1>6, <1>7 DEF Next, Consumer

\* No caller is handed a turn that started too many workers, one too deep, or
\* too many at once: what the ledger is charged with is what is committed, and
\* the start that breaks a limit never is (RunObserver._read_stdout, _breached).
THEOREM NoTurnOverspends == Spec => []BudgetHeld
<1>1. ASSUME TypeOK, Tally PROVE BudgetHeld
  BY <1>1 DEF Tally, WithinBudget, Starts, LiveIn, BudgetHeld, LiveAfter
<1>2. ASSUME Init PROVE Tally
  <2>1. History = <<>> /\ ledger.live = {} /\ ledger.started = 0
    BY <1>2 DEF Init, History, EmptyLedger
  <2>2. Len(History) = 0 /\ Starts(History) = {}
    BY <2>1, EmptySeq DEF Starts
  <2>3. LiveIn(History, Len(History)) = {}
    BY <2>2 DEF LiveIn
  <2> QED
    BY <2>1, <2>2, <2>3, FS_EmptySet, BudgetAssumption DEF Tally, WithinBudget, Counted
<1> QED
  BY <1>1, <1>2, TallyStep, RunTypeCorrect, SentinelAlwaysLast, PTL DEF Spec
=============================================================================
