----------------------------- MODULE StreamsProofs -----------------------------
(***************************************************************************)
(* Reading within bounds, for any bounds and any way the pipe may cut what *)
(* the provider writes.                                                    *)
(***************************************************************************)
EXTENDS Streams, SequenceTheorems, FiniteSetTheorems, TLAPS

-----------------------------------------------------------------------------
(* Types and bounds.                                                       *)

LEMMA ChunksAreShort ==
    ASSUME NEW chunk \in BoundedSeq(Byte, ChunkMax)
    PROVE chunk \in Seq(Byte) /\ Len(chunk) \in Nat /\ Len(chunk) <= ChunkMax
<1>1. PICK m \in 0 .. ChunkMax : chunk \in [1 .. m -> Byte]
  BY DEF BoundedSeq, SeqOf
<1>2. m \in Nat /\ m <= ChunkMax
  BY <1>1, StreamsAssumption
<1>3. chunk \in Seq(Byte)
  BY <1>1, <1>2, SeqDef
<1>4. Len(chunk) = m
  BY <1>1, <1>2, <1>3, LenProperties
<1> QED
  BY <1>2, <1>3, <1>4

\* Every nonempty set of positions has a first and a last one.
LEMMA MinIsFirst ==
    ASSUME NEW n \in Nat, NEW I \in SUBSET (1 .. n), I # {}
    PROVE Min(I) \in I /\ \A i \in I : Min(I) <= i
<1> DEFINE Less == {ss \in Nat \X Nat : ss[1] < ss[2]}
<1>1. IsWellFoundedOn(Less, Nat)
  BY NatLessThanWellFounded DEF OpToRel
<1>2. I \subseteq Nat
  OBVIOUS
<1> HIDE DEF Less
<1>3. PICK x \in I : \A y \in I : ~(<<y, x>> \in Less)
  BY <1>1, <1>2, WFMin
<1>4. \A y \in I : ~(y < x)
  BY <1>2, <1>3 DEF Less
<1>5. \A y \in I : x <= y
  BY <1>2, <1>4
<1> QED
  BY <1>5 DEF Min

LEMMA MaxIsLast ==
    ASSUME NEW n \in Nat, NEW I \in SUBSET (1 .. n), I # {}
    PROVE Max(I) \in I /\ \A i \in I : i <= Max(I)
<1> DEFINE J == {j \in 1 .. n : n + 1 - j \in I}
<1>1. \A i \in I : i \in Nat /\ n + 1 - i \in 1 .. n /\ n + 1 - (n + 1 - i) = i
  OBVIOUS
<1>2. J \in SUBSET (1 .. n) /\ \A i \in I : n + 1 - i \in J
  BY <1>1
<1>3. J # {}
  BY <1>2
<1>4. Min(J) \in J /\ \A j \in J : Min(J) <= j
  BY <1>2, <1>3, MinIsFirst
<1>5. PICK x \in I : x = n + 1 - Min(J)
  BY <1>4
<1>6. \A i \in I : Min(J) <= n + 1 - i
  BY <1>2, <1>4
<1>7. Min(J) \in Nat
  BY <1>2, <1>4
<1> HIDE DEF J
<1>8. \A i \in I : x >= i
  BY <1>1, <1>5, <1>6, <1>7
<1> QED
  BY <1>8 DEF Max

\* Where the first line of the buffer ends.
LEMMA FirstEndIsFirst ==
    ASSUME buffer \in Seq(Byte), HasLine
    PROVE /\ FirstEnd \in 1 .. Len(buffer) /\ buffer[FirstEnd] = "nl"
          /\ \A i \in 1 .. FirstEnd - 1 : buffer[i] # "nl"
<1> DEFINE I == {i \in 1 .. Len(buffer) : buffer[i] = "nl"}
<1>1. Len(buffer) \in Nat /\ I \in SUBSET (1 .. Len(buffer)) /\ I # {}
  BY LenProperties DEF HasLine, Contains
<1>2. FirstEnd = Min(I)
  BY <1>1 DEF FirstEnd, SelectInSeq
<1>3. Min(I) \in I /\ \A i \in I : Min(I) <= i
  BY <1>1, MinIsFirst
<1> HIDE DEF I
<1>4. FirstEnd \in I /\ \A i \in I : FirstEnd <= i
  BY <1>2, <1>3
<1>5. \A i \in 1 .. FirstEnd - 1 : i \notin I /\ i \in 1 .. Len(buffer)
  BY <1>1, <1>4 DEF I
<1> QED
  BY <1>4, <1>5 DEF I

\* How much of a line is left without its end.
KeptOf(bytes) == SelectLastInSeq(bytes, LAMBDA b : b \notin LineEnd)

LEMMA KeptIsLast ==
    ASSUME NEW bytes \in Seq(Byte)
    PROVE /\ KeptOf(bytes) \in 0 .. Len(bytes)
          /\ KeptOf(bytes) # 0 => bytes[KeptOf(bytes)] \notin LineEnd
          /\ \A i \in KeptOf(bytes) + 1 .. Len(bytes) : bytes[i] \in LineEnd
<1> DEFINE I == {i \in 1 .. Len(bytes) : bytes[i] \notin LineEnd}
<1>1. Len(bytes) \in Nat /\ I \in SUBSET (1 .. Len(bytes))
  BY LenProperties
<1>2. KeptOf(bytes) = IF I # {} THEN Max(I) ELSE 0
  BY DEF KeptOf, SelectLastInSeq
<1>3. I # {} => Max(I) \in I /\ \A i \in I : i <= Max(I)
  BY <1>1, MaxIsLast
<1>4. CASE I = {}
  BY <1>1, <1>2, <1>4
<1>5. CASE I # {}
  <2>1. KeptOf(bytes) \in I /\ \A i \in I : i <= KeptOf(bytes)
    BY <1>2, <1>3, <1>5
  <2>2. \A i \in KeptOf(bytes) + 1 .. Len(bytes) : i \notin I /\ i \in 1 .. Len(bytes)
    BY <1>1, <2>1
  <2> QED
    BY <1>1, <2>1, <2>2
<1> QED
  BY <1>4, <1>5

\* A line loses its end and nothing else.
LEMMA TextIsPrefix ==
    ASSUME NEW line \in Seq(Byte)
    PROVE TextOf(line) \in Seq(Byte)
<1>1. KeptOf(line) \in 0 .. Len(line) /\ Len(line) \in Nat
  BY KeptIsLast, LenProperties
<1>2. WithoutLineEnd(line) = SubSeq(line, 1, KeptOf(line))
  BY DEF WithoutLineEnd, KeptOf
<1>3. \A i \in 1 .. KeptOf(line) : line[i] \in Byte
  BY <1>1, ElementOfSeq
<1>4. SubSeq(line, 1, KeptOf(line)) \in Seq(Byte)
  BY <1>1, <1>3, SubSeqProperties
<1> QED
  BY <1>2, <1>4 DEF TextOf

\* What becomes of a line that was cut off: it is handed on within the bound,
\* or the stream is refused over it.
LEMMA DeliverParts ==
    ASSUME NEW line, NEW next, Deliver(line, next)
    PROVE \/ /\ lines' = Append(lines, TextOf(line)) /\ reader' = next
             /\ ~(Len(TextOf(line)) > MaxLine)
          \/ /\ lines' = lines /\ reader' = "StdoutLineTooLarge"
             /\ Len(TextOf(line)) > MaxLine
          \/ /\ lines' = lines /\ reader' = "StdoutNotUtf8"
             /\ ~Utf8(TextOf(line))
  BY DEF Deliver, Refusal

\* A line that is cut off, and what that leaves.
LEMMA CutParts ==
    ASSUME NEW b \in Seq(Byte), NEW f \in 1 .. Len(b)
    PROVE LET first == SubSeq(b, 1, f)
              rest == SubSeq(b, f + 1, Len(b))
          IN  /\ first \in Seq(Byte) /\ Len(first) = f
              /\ \A i \in 1 .. f : first[i] = b[i]
              /\ rest \in Seq(Byte) /\ Len(rest) = Len(b) - f
              /\ \A i \in 1 .. Len(b) - f : rest[i] = b[f + i]
<1>1. Len(b) \in Nat
  BY LenProperties
<1>2. \A i \in 1 .. Len(b) : b[i] \in Byte
  BY ElementOfSeq
<1>3. /\ \A i \in 1 .. f : i \in 1 .. Len(b)
      /\ \A i \in f + 1 .. Len(b) : i \in 1 .. Len(b)
  BY <1>1
<1>4. LET first == SubSeq(b, 1, f)
      IN  first \in Seq(Byte) /\ Len(first) = f /\ \A i \in 1 .. f : first[i] = b[i]
  <2>1. /\ SubSeq(b, 1, f) \in Seq(Byte)
        /\ Len(SubSeq(b, 1, f)) = IF 1 <= f THEN f - 1 + 1 ELSE 0
        /\ \A i \in 1 .. f - 1 + 1 : SubSeq(b, 1, f)[i] = b[1 + i - 1]
    BY <1>1, <1>2, <1>3, SubSeqProperties
  <2> QED
    BY <1>1, <2>1
<1>5. LET rest == SubSeq(b, f + 1, Len(b))
      IN  /\ rest \in Seq(Byte) /\ Len(rest) = Len(b) - f
          /\ \A i \in 1 .. Len(b) - f : rest[i] = b[f + i]
  <2> DEFINE m == f + 1
  <2>1. m \in Int /\ Len(b) \in Int /\ \A i \in m .. Len(b) : b[i] \in Byte
    BY <1>1, <1>2, <1>3
  <2>2. m = f + 1
    OBVIOUS
  <2> HIDE DEF m
  <2>3. /\ SubSeq(b, m, Len(b)) \in Seq(Byte)
        /\ Len(SubSeq(b, m, Len(b))) = IF m <= Len(b) THEN Len(b) - m + 1 ELSE 0
        /\ \A i \in 1 .. Len(b) - m + 1 : SubSeq(b, m, Len(b))[i] = b[m + i - 1]
    BY <2>1, SubSeqProperties
  <2> QED
    BY <1>1, <2>2, <2>3
<1> QED
  BY <1>4, <1>5

LEMMA RingStaysFull ==
    ASSUME TypeOK, RingIsTheTail, NEW n \in Nat \ {0},
           ring' = WriteRing([i \in 1 .. n |-> errors + i]), errors' = errors + n
    PROVE RingIsTheTail' /\ ring' \in Seq(Nat) /\ Len(ring') <= RingMax
<1> DEFINE kept == IF errors < RingMax THEN errors ELSE RingMax
           now == IF errors + n < RingMax THEN errors + n ELSE RingMax
           chunk == [i \in 1 .. n |-> errors + i]
           all == ring \o chunk
           first == IF kept + n > RingMax THEN kept + n - RingMax + 1 ELSE 1
<1>1. /\ errors \in Nat /\ RingMax \in Nat \ {0} /\ kept \in Nat /\ now \in Nat
      /\ kept <= errors /\ first \in Nat \ {0} /\ kept + n \in Nat
      /\ (kept + n) - first + 1 = now /\ now <= RingMax
      /\ errors - kept + first - 1 = errors + n - now
      /\ first <= kept + n
  BY StreamsAssumption DEF TypeOK
<1>2. ring = [i \in 1 .. kept |-> errors - kept + i] /\ ring \in Seq(Nat)
  BY DEF RingIsTheTail, TypeOK
<1>3. /\ Len(ring) = kept
      /\ chunk \in Seq(Nat) /\ Len(chunk) = n /\ \A i \in 1 .. n : chunk[i] = errors + i
  <2>1. DOMAIN ring = 1 .. kept /\ DOMAIN ring = 1 .. Len(ring) /\ Len(ring) \in Nat
    BY <1>2, LenProperties
  <2>2. Len(ring) = kept
    BY <1>1, <2>1
  <2>3. \A i \in 1 .. n : errors + i \in Nat
    BY <1>1
  <2>4. chunk \in [1 .. n -> Nat]
    BY <2>3
  <2> HIDE DEF kept, now, all, first, chunk
  <2>5. chunk \in Seq(Nat)
    BY <2>4, SeqDef
  <2>6. DOMAIN chunk = 1 .. n /\ DOMAIN chunk = 1 .. Len(chunk) /\ Len(chunk) \in Nat
    BY <2>4, <2>5, LenProperties
  <2>7. Len(chunk) = n
    BY <2>6
  <2>8. \A i \in 1 .. n : chunk[i] = errors + i
    BY DEF chunk
  <2> QED
    BY <2>2, <2>5, <2>7, <2>8
<1>4. /\ all \in Seq(Nat) /\ Len(all) = kept + n
      /\ \A i \in 1 .. kept + n : all[i] = errors - kept + i
  <2> HIDE DEF kept, now, chunk, first
  <2>1. /\ all \in Seq(Nat) /\ Len(all) = Len(ring) + Len(chunk)
        /\ \A i \in 1 .. Len(ring) + Len(chunk) :
             all[i] = IF i <= Len(ring) THEN ring[i] ELSE chunk[i - Len(ring)]
    BY <1>2, <1>3, ConcatProperties
  <2> HIDE DEF all
  <2>2. ASSUME NEW i \in 1 .. kept + n PROVE all[i] = errors - kept + i
    <3>1. CASE i <= kept
      <4>1. i \in 1 .. kept /\ all[i] = ring[i]
        BY <1>1, <1>3, <2>1, <3>1
      <4> QED
        BY <1>2, <4>1
    <3>2. CASE ~(i <= kept)
      <4>1. i - kept \in 1 .. n /\ all[i] = chunk[i - kept]
        BY <1>1, <1>3, <2>1, <3>2
      <4>2. chunk[i - kept] = errors + (i - kept)
        BY <1>3, <4>1
      <4> QED
        BY <1>1, <4>1, <4>2
    <3> QED
      BY <3>1, <3>2
  <2> QED
    BY <1>3, <2>1, <2>2
<1>5. ring' = SubSeq(all, first, kept + n)
  <2>1. ring' = SubSeq(all, IF Len(all) > RingMax THEN Len(all) - RingMax + 1 ELSE 1, Len(all))
    BY DEF WriteRing
  <2>2. Len(all) = kept + n
    BY <1>4
  <2> HIDE DEF all, kept, now
  <2>3. (IF Len(all) > RingMax THEN Len(all) - RingMax + 1 ELSE 1) = first
    BY <1>1, <2>2
  <2> HIDE DEF first
  <2>4. ring' = SubSeq(all, first, Len(all))
    BY <2>1, <2>3
  <2> QED
    BY <2>2, <2>4
<1> HIDE DEF all, chunk
<1>6. /\ ring' \in Seq(Nat) /\ Len(ring') = now
      /\ \A i \in 1 .. now : ring'[i] = errors + n - now + i
  <2> HIDE DEF kept, now, first
  <2>1. \A i \in first .. kept + n : all[i] \in Nat
    <3>1. \A i \in first .. kept + n : i \in 1 .. Len(all)
      BY <1>1, <1>4
    <3> QED
      BY <1>4, <3>1, ElementOfSeq
  <2>2. first \in Int /\ kept + n \in Int
    BY <1>1
  <2>3. /\ SubSeq(all, first, kept + n) \in Seq(Nat)
        /\ Len(SubSeq(all, first, kept + n)) =
             IF first <= kept + n THEN (kept + n) - first + 1 ELSE 0
        /\ \A i \in 1 .. (kept + n) - first + 1 :
             SubSeq(all, first, kept + n)[i] = all[first + i - 1]
    BY <2>1, <2>2, SubSeqProperties
  <2>4. \A i \in 1 .. now : first + i - 1 \in 1 .. kept + n
    BY <1>1
  <2>5. \A i \in 1 .. now : all[first + i - 1] = errors - kept + (first + i - 1)
    BY <1>4, <2>4
  <2>6. \A i \in 1 .. now : errors - kept + (first + i - 1) = errors + n - now + i
    BY <1>1
  <2> QED
    BY <1>1, <1>5, <2>3, <2>5, <2>6
<1>7. now = IF errors' < RingMax THEN errors' ELSE RingMax
  OBVIOUS
<1>8. ring' = [i \in 1 .. now |-> errors' - now + i]
  <2> HIDE DEF now
  <2>1. DOMAIN ring' = 1 .. now
    BY <1>6, LenProperties
  <2>2. ring' = [i \in DOMAIN ring' |-> ring'[i]]
    BY <1>6, LenProperties
  <2>3. \A i \in 1 .. now : ring'[i] = errors' - now + i
    BY <1>1, <1>6
  <2> QED
    BY <2>1, <2>2, <2>3
<1> HIDE DEF now
<1> QED
  BY <1>1, <1>6, <1>7, <1>8 DEF RingIsTheTail

\* While the stream goes on its buffer holds at most one line and, once it was
\* cut, no line at all.
Bounded ==
    /\ LinesAreBounded /\ GrowthIsBounded
    /\ reader = "reading" => Len(buffer) <= MaxLine /\ ~HasLine

LEMMA TypeStep ==
    ASSUME TypeOK, RingIsTheTail, [Next]_vars
    PROVE TypeOK' /\ RingIsTheTail'
<1>1. /\ written \in Seq(Byte) /\ buffer \in Seq(Byte) /\ lines \in Seq(Seq(Byte))
      /\ errors \in Nat /\ ring \in Seq(Nat) /\ Len(ring) <= RingMax
  BY DEF TypeOK
<1>2. ASSUME NEW line \in Seq(Byte), NEW next \in {"cutting", "ended"}, Deliver(line, next),
             buffer' \in Seq(Byte), UNCHANGED <<written, errors, ring>>
      PROVE TypeOK' /\ RingIsTheTail'
  <2>1. Append(lines, TextOf(line)) \in Seq(Seq(Byte))
    BY <1>1, TextIsPrefix, AppendProperties
  <2>2. /\ lines' \in Seq(Seq(Byte))
        /\ reader' \in {"cutting", "ended", "StdoutLineTooLarge", "StdoutNotUtf8"}
    BY <1>1, <1>2, <2>1, DeliverParts
  <2> QED
    BY <1>1, <1>2, <2>2 DEF TypeOK, RingIsTheTail
<1>3. ASSUME NEW chunk \in BoundedSeq(Byte, ChunkMax), Read(chunk)
      PROVE TypeOK' /\ RingIsTheTail'
  <2>1. written' \in Seq(Byte) /\ buffer' \in Seq(Byte)
    BY <1>1, <1>3, ChunksAreShort, ConcatProperties DEF Read
  <2> QED
    BY <1>1, <1>3, <2>1 DEF Read, TypeOK, RingIsTheTail
<1>4. CASE CutLine
  BY <1>1, <1>2, <1>4, CutParts, FirstEndIsFirst DEF CutLine
<1>5. CASE CheckRest
  BY <1>1, <1>5 DEF CheckRest, TypeOK, RingIsTheTail
<1>6. CASE EndOfStream
  <2>1. CASE buffer = <<>>
    BY <1>1, <1>6, <2>1 DEF EndOfStream, TypeOK, RingIsTheTail
  <2>2. CASE buffer # <<>>
    BY <1>1, <1>2, <1>6, <2>2 DEF EndOfStream
  <2> QED
    BY <2>1, <2>2
<1>7. ASSUME NEW n \in 1 .. ChunkMax, ReadError(n) PROVE TypeOK' /\ RingIsTheTail'
  <2>1. n \in Nat \ {0} /\ errors + n \in Nat
    BY <1>1, StreamsAssumption
  <2>2. RingIsTheTail' /\ ring' \in Seq(Nat) /\ Len(ring') <= RingMax
    BY <1>7, <2>1, RingStaysFull DEF ReadError
  <2> QED
    BY <1>1, <1>7, <2>1, <2>2 DEF ReadError, TypeOK
<1>8. CASE UNCHANGED vars
  BY <1>1, <1>8 DEF vars, TypeOK, RingIsTheTail
<1> QED
  BY <1>3, <1>4, <1>5, <1>6, <1>7, <1>8 DEF Next

LEMMA TypesAndRing == Spec => [](TypeOK /\ RingIsTheTail)
<1>1. ASSUME Init PROVE TypeOK /\ RingIsTheTail
  <2>1. /\ <<>> \in Seq(Byte) /\ <<>> \in Seq(Seq(Byte)) /\ <<>> \in Seq(Nat)
        /\ Len(<<>>) = 0
    BY EmptySeq
  <2>2. TypeOK
    BY <1>1, <2>1, StreamsAssumption DEF Init, TypeOK
  <2>3. 1 .. 0 = {} /\ errors = 0 /\ 0 < RingMax
    BY <1>1, StreamsAssumption DEF Init
  <2>4. ring = [i \in 1 .. 0 |-> errors - 0 + i]
    BY <1>1, <2>3 DEF Init
  <2> QED
    BY <2>2, <2>3, <2>4 DEF RingIsTheTail
<1> QED
  BY <1>1, TypeStep, PTL DEF Spec

\* The types of the variables, and a ring that never outgrows its bound.
THEOREM StreamsTypeCorrect == Spec => []TypeOK
  BY TypesAndRing, PTL

\* What is kept of stderr are its last bytes, in order and as many as fit,
\* however they arrive (StderrRing.write).
THEOREM RingKeepsTheTail == Spec => []RingIsTheTail
  BY TypesAndRing, PTL

LEMMA BoundedStep ==
    ASSUME TypeOK, Bounded, [Next]_vars
    PROVE Bounded'
<1>1. /\ buffer \in Seq(Byte) /\ lines \in Seq(Seq(Byte)) /\ Len(buffer) \in Nat
      /\ MaxLine \in Nat /\ ChunkMax \in Nat
  BY LenProperties, StreamsAssumption DEF TypeOK
<1>2. ASSUME NEW line \in Seq(Byte), NEW next \in {"cutting", "ended"}, Deliver(line, next)
      PROVE LinesAreBounded' /\ reader' # "reading"
  <2>1. CASE lines' = lines /\ reader' \in {"StdoutLineTooLarge", "StdoutNotUtf8"}
    BY <2>1 DEF Bounded, LinesAreBounded
  <2>2. CASE /\ lines' = Append(lines, TextOf(line)) /\ reader' = next
             /\ ~(Len(TextOf(line)) > MaxLine)
    <3>1. TextOf(line) \in Seq(Byte) /\ Len(TextOf(line)) \in Nat
      BY TextIsPrefix, LenProperties
    <3>2. Len(TextOf(line)) <= MaxLine
      BY <1>1, <2>2, <3>1
    <3>3. /\ DOMAIN lines' = 1 .. Len(lines) + 1 /\ Len(lines) \in Nat
          /\ DOMAIN lines = 1 .. Len(lines)
          /\ \A k \in 1 .. Len(lines) : lines'[k] = lines[k]
          /\ lines'[Len(lines) + 1] = TextOf(line)
      BY <1>1, <2>2, <3>1, AppendProperties, LenProperties
    <3> QED
      BY <2>2, <3>2, <3>3 DEF Bounded, LinesAreBounded
  <2> QED
    BY <1>2, <2>1, <2>2, DeliverParts
<1>3. ASSUME NEW chunk \in BoundedSeq(Byte, ChunkMax), Read(chunk) PROVE Bounded'
  <2>1. /\ buffer' = buffer \o chunk /\ reader' = "cutting" /\ lines' = lines
        /\ Len(buffer) <= MaxLine
    BY <1>3 DEF Read, Bounded
  <2>2. Len(buffer') = Len(buffer) + Len(chunk) /\ Len(chunk) \in Nat /\ Len(chunk) <= ChunkMax
    BY <1>1, <2>1, ChunksAreShort, ConcatProperties
  <2>3. GrowthIsBounded'
    BY <1>1, <2>1, <2>2 DEF GrowthIsBounded
  <2> QED
    BY <2>1, <2>3 DEF Bounded, LinesAreBounded
<1>4. CASE CutLine
  <2>1. Len(buffer') = Len(buffer) - FirstEnd /\ FirstEnd \in 1 .. Len(buffer)
    BY <1>1, <1>4, CutParts, FirstEndIsFirst DEF CutLine
  <2>2. GrowthIsBounded'
    BY <1>1, <2>1 DEF GrowthIsBounded, Bounded
  <2>3. LinesAreBounded' /\ reader' # "reading"
    BY <1>1, <1>2, <1>4, CutParts, FirstEndIsFirst DEF CutLine
  <2> QED
    BY <2>2, <2>3 DEF Bounded
<1>5. CASE CheckRest
  BY <1>1, <1>5 DEF CheckRest, Bounded, LinesAreBounded, GrowthIsBounded, HasLine
<1>6. CASE EndOfStream
  <2>1. GrowthIsBounded'
    BY <1>6 DEF EndOfStream, Bounded, GrowthIsBounded
  <2>2. LinesAreBounded' /\ reader' # "reading"
    <3>1. CASE buffer = <<>>
      BY <1>6, <3>1 DEF EndOfStream, Bounded, LinesAreBounded
    <3>2. CASE buffer # <<>>
      BY <1>1, <1>2, <1>6, <3>2 DEF EndOfStream
    <3> QED
      BY <3>1, <3>2
  <2> QED
    BY <2>1, <2>2 DEF Bounded
<1>7. CASE UNCHANGED <<buffer, lines, reader>>
  BY <1>7 DEF Bounded, LinesAreBounded, GrowthIsBounded, HasLine
<1> QED
  BY <1>3, <1>4, <1>5, <1>6, <1>7 DEF Next, ReadError, vars

LEMMA BoundedAlways == Spec => []Bounded
<1>1. ASSUME Init PROVE Bounded
  <2>1. Len(<<>>) = 0 /\ DOMAIN lines = {}
    BY <1>1, EmptySeq DEF Init
  <2> QED
    BY <1>1, <2>1, StreamsAssumption
       DEF Init, Bounded, LinesAreBounded, GrowthIsBounded, HasLine, Contains
<1> QED
  BY <1>1, BoundedStep, StreamsTypeCorrect, PTL DEF Spec

\* No line beyond the bound reaches the caller (_decode, read_bounded_lines).
THEOREM LinesStayBounded == Spec => []LinesAreBounded
<1>1. Bounded => LinesAreBounded
  BY DEF Bounded
<1> QED
  BY <1>1, BoundedAlways, PTL

\* A child that never ends a line grows the buffer by one chunk past the bound
\* at most: the rest is measured before the next read (read_bounded_lines).
THEOREM GrowthStaysBounded == Spec => []GrowthIsBounded
<1>1. Bounded => GrowthIsBounded
  BY DEF Bounded
<1> QED
  BY <1>1, BoundedAlways, PTL

-----------------------------------------------------------------------------
(* Lines and their ends, in any sequence of bytes.                         *)

EndsOf(w) == {i \in DOMAIN w : w[i] = "nl"}

\* How many lines have ended up to a position.
RankOf(w, p) == Cardinality({j \in EndsOf(w) : j <= p})

\* EndOf and WholeLine of any sequence.
KthEnd(w, k) ==
    IF k = 0 THEN 0
    ELSE IF k > Cardinality(EndsOf(w)) THEN Len(w)
    ELSE CHOOSE i \in EndsOf(w) : RankOf(w, i) = k

Piece(w, k) == SubSeq(w, KthEnd(w, k - 1) + 1, KthEnd(w, k))

\* Of w, n lines were cut off and b is what is left: it begins where the n-th
\* line ended, and each of the n ended somewhere.
CutAt(w, b) == Len(w) - Len(b)

Cutting(w, b, n) ==
    /\ Len(b) <= Len(w)
    /\ \A i \in 1 .. Len(b) : b[i] = w[CutAt(w, b) + i]
    /\ CutAt(w, b) = 0 \/ CutAt(w, b) \in EndsOf(w)
    /\ RankOf(w, CutAt(w, b)) = n
    /\ \A k \in 1 .. n : \E q \in EndsOf(w) : RankOf(w, q) = k

\* While the stream goes on.
Going == reader \in {"reading", "cutting"}

\* What was handed on are the first lines, and the rest is still to be cut;
\* once the stream is over nothing of this changes any more.
Whole ==
    /\ Going => Cutting(written, buffer, Len(lines))
    /\ reader = "reading" => ~HasLine
    /\ LinesAreWhole /\ NothingIsLost /\ RefusalIsEarned

LEMMA EndsAreFinite ==
    ASSUME NEW w \in Seq(Byte)
    PROVE /\ EndsOf(w) \subseteq 1 .. Len(w) /\ IsFiniteSet(EndsOf(w))
          /\ Cardinality(EndsOf(w)) \in Nat
<1>1. Len(w) \in Nat /\ EndsOf(w) \in SUBSET (1 .. Len(w))
  BY LenProperties DEF EndsOf
<1>2. IsFiniteSet(1 .. Len(w))
  BY <1>1, FS_Interval
<1>3. IsFiniteSet(EndsOf(w))
  BY <1>1, <1>2, FS_Subset
<1> QED
  BY <1>1, <1>3, FS_CardinalityType

LEMMA RankType ==
    ASSUME NEW w \in Seq(Byte), NEW p \in Nat
    PROVE /\ IsFiniteSet({j \in EndsOf(w) : j <= p})
          /\ RankOf(w, p) \in Nat /\ RankOf(w, p) <= Cardinality(EndsOf(w))
<1> DEFINE U == {j \in EndsOf(w) : j <= p}
<1>1. U \in SUBSET EndsOf(w) /\ IsFiniteSet(EndsOf(w))
  BY EndsAreFinite
<1>2. IsFiniteSet(U) /\ Cardinality(U) <= Cardinality(EndsOf(w))
  BY <1>1, FS_Subset
<1>3. Cardinality(U) \in Nat
  BY <1>2, FS_CardinalityType
<1> QED
  BY <1>2, <1>3 DEF RankOf

\* No line has ended before the first byte.
LEMMA RankOfNothing ==
    ASSUME NEW w \in Seq(Byte)
    PROVE RankOf(w, 0) = 0
<1>1. {j \in EndsOf(w) : j <= 0} = {}
  BY EndsAreFinite, LenProperties
<1> QED
  BY <1>1, FS_EmptySet DEF RankOf

\* From one end to a later one the rank grows.
LEMMA RankGrows ==
    ASSUME NEW w \in Seq(Byte), NEW p \in Nat, NEW q \in EndsOf(w), p < q
    PROVE RankOf(w, p) < RankOf(w, q)
<1> DEFINE U == {j \in EndsOf(w) : j <= p}
           V == {j \in EndsOf(w) : j <= q}
<1>1. EndsOf(w) \subseteq Nat /\ q \in Nat
  BY EndsAreFinite, LenProperties
<1>2. U \in SUBSET V /\ q \in V /\ q \notin U
  BY <1>1
<1>3. IsFiniteSet(V) /\ Cardinality(V) = RankOf(w, q) /\ Cardinality(U) = RankOf(w, p)
  BY <1>1, RankType DEF RankOf
<1>4. RankOf(w, p) \in Nat /\ RankOf(w, q) \in Nat
  BY <1>1, RankType
<1> HIDE DEF U, V
<1>5. Cardinality(U) <= Cardinality(V) /\ (Cardinality(V) = Cardinality(U) => V = U)
  BY <1>2, <1>3, FS_Subset
<1> QED
  BY <1>2, <1>3, <1>4, <1>5

\* An end is where the line of its rank ends.
LEMMA EndOfItsRank ==
    ASSUME NEW w \in Seq(Byte), NEW q \in EndsOf(w)
    PROVE /\ q \in 1 .. Len(w) /\ RankOf(w, q) \in 1 .. Cardinality(EndsOf(w))
          /\ KthEnd(w, RankOf(w, q)) = q
<1>1. /\ q \in 1 .. Len(w) /\ EndsOf(w) \subseteq Nat /\ Len(w) \in Nat
      /\ Cardinality(EndsOf(w)) \in Nat
  BY EndsAreFinite, LenProperties
<1>2. RankOf(w, 0) = 0 /\ RankOf(w, 0) < RankOf(w, q)
  BY <1>1, RankOfNothing, RankGrows
<1>3. RankOf(w, q) \in 1 .. Cardinality(EndsOf(w))
  <2>1. q \in Nat
    BY <1>1
  <2>2. RankOf(w, q) \in Nat /\ RankOf(w, q) <= Cardinality(EndsOf(w))
    BY <2>1, RankType
  <2> QED
    BY <1>1, <1>2, <2>2
<1>4. ASSUME NEW i \in EndsOf(w), RankOf(w, i) = RankOf(w, q) PROVE i = q
  <2>1. i \in Nat /\ q \in Nat /\ RankOf(w, q) \in Nat
    BY <1>1, <1>3
  <2>2. ~(i < q) /\ ~(q < i)
    BY <1>4, <2>1, RankGrows
  <2> QED
    BY <2>1, <2>2
<1>5. ~(RankOf(w, q) = 0) /\ ~(RankOf(w, q) > Cardinality(EndsOf(w)))
  BY <1>1, <1>3
<1>6. KthEnd(w, RankOf(w, q)) = CHOOSE i \in EndsOf(w) : RankOf(w, i) = RankOf(w, q)
  BY <1>5 DEF KthEnd
<1>7. (CHOOSE i \in EndsOf(w) : RankOf(w, i) = RankOf(w, q)) = q
  BY <1>4
<1> QED
  BY <1>1, <1>3, <1>6, <1>7

\* The next end after a position, with none in between.
LEMMA RankOfNext ==
    ASSUME NEW w \in Seq(Byte), NEW p \in Nat, NEW q \in EndsOf(w), p < q,
           \A j \in p + 1 .. q - 1 : j \notin EndsOf(w)
    PROVE RankOf(w, q) = RankOf(w, p) + 1
<1> DEFINE U == {j \in EndsOf(w) : j <= p}
           V == {j \in EndsOf(w) : j <= q}
<1>1. EndsOf(w) \subseteq Nat /\ q \in Nat
  BY EndsAreFinite, LenProperties
<1>2. \A j \in EndsOf(w) : j <= q => j <= p \/ j = q
  BY <1>1
<1>3. V = U \cup {q} /\ q \notin U
  BY <1>1, <1>2
<1>4. IsFiniteSet(U)
  BY RankType
<1> HIDE DEF U, V
<1>5. Cardinality(V) = Cardinality(U) + 1
  BY <1>3, <1>4, FS_AddElement
<1> QED
  BY <1>5 DEF U, V, RankOf

LEMMA RankOfLast ==
    ASSUME NEW w \in Seq(Byte), NEW p \in Nat,
           \A j \in p + 1 .. Len(w) : j \notin EndsOf(w)
    PROVE RankOf(w, p) = Cardinality(EndsOf(w))
<1>1. EndsOf(w) \subseteq 1 .. Len(w) /\ Len(w) \in Nat
  BY EndsAreFinite, LenProperties
<1>2. {j \in EndsOf(w) : j <= p} = EndsOf(w)
  BY <1>1
<1> QED
  BY <1>2 DEF RankOf

\* Bytes that follow change nothing of the lines that have ended.
LEMMA EndsOfMore ==
    ASSUME NEW w \in Seq(Byte), NEW c \in Seq(Byte)
    PROVE /\ EndsOf(w) \subseteq EndsOf(w \o c)
          /\ \A p \in 0 .. Len(w) : RankOf(w \o c, p) = RankOf(w, p)
<1>1. /\ w \o c \in Seq(Byte) /\ Len(w \o c) = Len(w) + Len(c)
      /\ Len(w) \in Nat /\ Len(c) \in Nat
      /\ DOMAIN w = 1 .. Len(w) /\ DOMAIN (w \o c) = 1 .. Len(w) + Len(c)
  BY ConcatProperties, LenProperties
<1>2. \A i \in 1 .. Len(w) : (w \o c)[i] = w[i] /\ i \in 1 .. Len(w) + Len(c)
  BY <1>1, ConcatProperties
<1>3. \A i \in 1 .. Len(w) : i \in EndsOf(w \o c) <=> i \in EndsOf(w)
  BY <1>1, <1>2 DEF EndsOf
<1>4. EndsOf(w) \subseteq 1 .. Len(w) /\ EndsOf(w \o c) \subseteq 1 .. Len(w) + Len(c)
  BY <1>1, EndsAreFinite
<1>5. ASSUME NEW p \in 0 .. Len(w) PROVE RankOf(w \o c, p) = RankOf(w, p)
  <2>1. {j \in EndsOf(w \o c) : j <= p} = {j \in EndsOf(w) : j <= p}
    <3>1. \A j \in EndsOf(w \o c) : j <= p => j \in 1 .. Len(w)
      BY <1>1, <1>4
    <3> QED
      BY <1>3, <1>4, <3>1
  <2> QED
    BY <2>1 DEF RankOf
<1> QED
  BY <1>3, <1>4, <1>5

-----------------------------------------------------------------------------
(* Cutting.                                                                *)

LEMMA CutAtType ==
    ASSUME NEW w \in Seq(Byte), NEW b \in Seq(Byte), Len(b) <= Len(w)
    PROVE /\ CutAt(w, b) \in 0 .. Len(w) /\ CutAt(w, b) \in Nat
          /\ Len(w) \in Nat /\ Len(b) \in Nat /\ CutAt(w, b) + Len(b) = Len(w)
  BY LenProperties DEF CutAt

\* The last line cut ends where the rest begins.
LEMMA CutIsAnEnd ==
    ASSUME NEW w \in Seq(Byte), NEW b \in Seq(Byte), NEW n \in Nat, Cutting(w, b, n)
    PROVE KthEnd(w, n) = CutAt(w, b) /\ n <= Cardinality(EndsOf(w))
<1>1. CutAt(w, b) \in Nat /\ RankOf(w, CutAt(w, b)) = n
  BY CutAtType DEF Cutting
<1>2. n <= Cardinality(EndsOf(w))
  BY <1>1, RankType
<1>3. CASE CutAt(w, b) = 0
  <2>1. n = 0
    BY <1>1, <1>3, RankOfNothing
  <2> QED
    BY <1>2, <1>3, <2>1 DEF KthEnd
<1>4. CASE CutAt(w, b) \in EndsOf(w)
  BY <1>1, <1>2, <1>4, EndOfItsRank
<1> QED
  BY <1>3, <1>4 DEF Cutting

\* Every line cut so far has its end, after the end of the line before it.
LEMMA CutLinesHaveEnds ==
    ASSUME NEW w \in Seq(Byte), NEW b \in Seq(Byte), NEW n \in Nat, Cutting(w, b, n),
           NEW k \in 1 .. n
    PROVE /\ KthEnd(w, k) \in EndsOf(w) /\ RankOf(w, KthEnd(w, k)) = k
          /\ KthEnd(w, k - 1) \in 0 .. Len(w) /\ KthEnd(w, k - 1) < KthEnd(w, k)
<1>1. ASSUME NEW j \in 1 .. n
      PROVE KthEnd(w, j) \in EndsOf(w) /\ RankOf(w, KthEnd(w, j)) = j
  <2>1. PICK q \in EndsOf(w) : RankOf(w, q) = j
    BY DEF Cutting
  <2> QED
    BY <2>1, EndOfItsRank
<1>2. EndsOf(w) \subseteq 1 .. Len(w) /\ Len(w) \in Nat
  BY EndsAreFinite, LenProperties
<1>3. CASE k = 1
  <2>1. KthEnd(w, k - 1) = 0
    BY <1>3 DEF KthEnd
  <2> QED
    BY <1>1, <1>2, <2>1
<1>4. CASE k # 1
  <2>1. k - 1 \in 1 .. n
    BY <1>4
  <2>2. /\ KthEnd(w, k - 1) \in EndsOf(w) /\ RankOf(w, KthEnd(w, k - 1)) = k - 1
        /\ KthEnd(w, k) \in EndsOf(w) /\ RankOf(w, KthEnd(w, k)) = k
    BY <1>1, <2>1
  <2>3. KthEnd(w, k - 1) \in Nat /\ KthEnd(w, k) \in Nat
    BY <1>2, <2>2
  <2>4. ~(KthEnd(w, k) < KthEnd(w, k - 1)) /\ KthEnd(w, k) # KthEnd(w, k - 1)
    BY <2>2, <2>3, RankGrows
  <2> QED
    BY <1>2, <2>2, <2>3, <2>4
<1> QED
  BY <1>3, <1>4

LEMMA PiecesAreNotEmpty ==
    ASSUME NEW w \in Seq(Byte), NEW b \in Seq(Byte), NEW n \in Nat, Cutting(w, b, n),
           NEW k \in 1 .. n
    PROVE Piece(w, k) # <<>>
<1> DEFINE lo == KthEnd(w, k - 1) + 1
           hi == KthEnd(w, k)
<1>1. /\ KthEnd(w, k - 1) \in 0 .. Len(w) /\ KthEnd(w, k - 1) < hi
      /\ hi \in 1 .. Len(w) /\ Len(w) \in Nat
  BY CutLinesHaveEnds, EndsAreFinite, LenProperties
<1>2. lo \in Int /\ hi \in Int /\ lo <= hi /\ \A i \in lo .. hi : i \in 1 .. Len(w)
  BY <1>1
<1> HIDE DEF lo, hi
<1>3. \A i \in lo .. hi : w[i] \in Byte
  BY <1>2, ElementOfSeq
<1>4. Len(SubSeq(w, lo, hi)) = hi - lo + 1
  BY <1>2, <1>3, SubSeqProperties
<1>5. Len(SubSeq(w, lo, hi)) # 0
  BY <1>2, <1>4
<1>6. Len(<<>>) = 0
  BY EmptySeq
<1> QED
  BY <1>5, <1>6 DEF Piece, lo, hi

\* More bytes to read: the lines cut so far stay the lines they were.
LEMMA ReadMore ==
    ASSUME NEW w \in Seq(Byte), NEW b \in Seq(Byte), NEW n \in Nat, Cutting(w, b, n),
           NEW c \in Seq(Byte)
    PROVE /\ Cutting(w \o c, b \o c, n)
          /\ \A k \in 1 .. n : Piece(w \o c, k) = Piece(w, k)
<1>1. /\ w \o c \in Seq(Byte) /\ b \o c \in Seq(Byte)
      /\ Len(w \o c) = Len(w) + Len(c) /\ Len(b \o c) = Len(b) + Len(c)
      /\ Len(w) \in Nat /\ Len(b) \in Nat /\ Len(c) \in Nat /\ Len(b) <= Len(w)
  BY ConcatProperties, LenProperties DEF Cutting
<1>2. CutAt(w \o c, b \o c) = CutAt(w, b) /\ CutAt(w, b) \in 0 .. Len(w)
  BY <1>1 DEF CutAt
<1>3. EndsOf(w) \subseteq EndsOf(w \o c) /\ EndsOf(w) \subseteq 1 .. Len(w)
      /\ \A p \in 0 .. Len(w) : RankOf(w \o c, p) = RankOf(w, p)
  BY EndsOfMore, EndsAreFinite
<1>4. \A q \in EndsOf(w) : RankOf(w \o c, q) = RankOf(w, q)
  BY <1>1, <1>3
<1>5. Cutting(w \o c, b \o c, n)
  <2>1. ASSUME NEW i \in 1 .. Len(b \o c)
        PROVE (b \o c)[i] = (w \o c)[CutAt(w, b) + i]
    <3> DEFINE d == CutAt(w, b)
    <3>1. d \in Nat /\ i \in Nat /\ d + Len(b) = Len(w)
      BY <1>1, <1>2 DEF CutAt
    <3>2. \A j \in 1 .. Len(b) : b[j] = w[d + j]
      BY DEF Cutting
    <3> HIDE DEF d
    <3>3. d + i \in 1 .. Len(w) + Len(c) /\ i \in 1 .. Len(b) + Len(c)
      BY <1>1, <3>1
    <3>4. (b \o c)[i] = IF i <= Len(b) THEN b[i] ELSE c[i - Len(b)]
      BY <3>3, ConcatProperties
    <3>5. (w \o c)[d + i] = IF d + i <= Len(w) THEN w[d + i] ELSE c[(d + i) - Len(w)]
      BY <3>3, ConcatProperties
    <3>6. CASE i <= Len(b)
      <4>1. d + i <= Len(w) /\ i \in 1 .. Len(b)
        BY <1>1, <3>1, <3>3, <3>6
      <4> QED
        BY <3>2, <3>4, <3>5, <3>6, <4>1 DEF d
    <3>7. CASE ~(i <= Len(b))
      <4>1. ~(d + i <= Len(w)) /\ (d + i) - Len(w) = i - Len(b)
        BY <1>1, <3>1, <3>7
      <4> QED
        BY <3>4, <3>5, <3>7, <4>1 DEF d
    <3> QED
      BY <3>6, <3>7
  <2>2. /\ CutAt(w, b) = 0 \/ CutAt(w, b) \in EndsOf(w \o c)
        /\ RankOf(w \o c, CutAt(w, b)) = n
    BY <1>2, <1>3 DEF Cutting
  <2>3. \A k \in 1 .. n : \E q \in EndsOf(w \o c) : RankOf(w \o c, q) = k
    BY <1>3, <1>4 DEF Cutting
  <2>4. Len(b \o c) <= Len(w \o c)
    BY <1>1
  <2> QED
    BY <1>2, <2>1, <2>2, <2>3, <2>4 DEF Cutting
<1>6. ASSUME NEW j \in 1 .. n
      PROVE KthEnd(w \o c, j) = KthEnd(w, j) /\ KthEnd(w, j) \in 1 .. Len(w)
  <2>1. PICK q \in EndsOf(w) : RankOf(w, q) = j
    BY DEF Cutting
  <2>2. q \in EndsOf(w \o c) /\ RankOf(w \o c, q) = j
    BY <1>3, <1>4, <2>1
  <2> QED
    BY <1>1, <2>1, <2>2, EndOfItsRank
<1>7. KthEnd(w \o c, 0) = 0 /\ KthEnd(w, 0) = 0
  BY DEF KthEnd
<1>8. ASSUME NEW k \in 1 .. n PROVE Piece(w \o c, k) = Piece(w, k)
  <2>1. k - 1 = 0 \/ k - 1 \in 1 .. n
    OBVIOUS
  <2> DEFINE lo == KthEnd(w, k - 1) + 1
             hi == KthEnd(w, k)
  <2>2. KthEnd(w \o c, k - 1) = KthEnd(w, k - 1) /\ KthEnd(w \o c, k) = KthEnd(w, k)
    BY <1>6, <1>7, <2>1
  <2>3. lo \in 1 .. Len(w) + 1 /\ hi \in 1 .. Len(w)
    BY <1>1, <1>6, <1>7, <2>1
  <2>4. Piece(w \o c, k) = SubSeq(w \o c, lo, hi) /\ Piece(w, k) = SubSeq(w, lo, hi)
    BY <2>2 DEF Piece
  <2> HIDE DEF lo, hi
  <2>5. CASE lo \in 1 .. Len(w)
    BY <2>3, <2>4, <2>5, SubSeqOfConcat1
  <2>6. CASE lo \notin 1 .. Len(w)
    <3>1. hi < lo /\ lo \in Int /\ hi \in Int
      BY <1>1, <2>3, <2>6
    <3> QED
      BY <2>4, <3>1, SubSeqEmpty
  <2> QED
    BY <2>5, <2>6
<1> QED
  BY <1>5, <1>8

\* A stretch of w, byte by byte.
LEMMA Stretch ==
    ASSUME NEW w \in Seq(Byte), NEW d \in Nat, NEW s \in Seq(Byte),
           d + Len(s) <= Len(w), \A i \in 1 .. Len(s) : s[i] = w[d + i]
    PROVE SubSeq(w, d + 1, d + Len(s)) = s
<1> DEFINE lo == d + 1
           hi == d + Len(s)
<1>1. Len(s) \in Nat /\ Len(w) \in Nat /\ lo \in Int /\ hi \in Int
  BY LenProperties
<1>2. \A i \in lo .. hi : i \in 1 .. Len(w)
  BY <1>1
<1>3. /\ (IF lo <= hi THEN hi - lo + 1 ELSE 0) = Len(s)
      /\ \A i \in 1 .. Len(s) : i \in 1 .. hi - lo + 1 /\ lo + i - 1 = d + i
  BY <1>1
<1> HIDE DEF lo, hi
<1>4. \A i \in lo .. hi : w[i] \in Byte
  BY <1>2, ElementOfSeq
<1>5. /\ SubSeq(w, lo, hi) \in Seq(Byte)
      /\ Len(SubSeq(w, lo, hi)) = IF lo <= hi THEN hi - lo + 1 ELSE 0
      /\ \A i \in 1 .. hi - lo + 1 : SubSeq(w, lo, hi)[i] = w[lo + i - 1]
  BY <1>1, <1>4, SubSeqProperties
<1>6. Len(SubSeq(w, lo, hi)) = Len(s)
  BY <1>3, <1>5
<1>7. \A i \in 1 .. Len(s) : SubSeq(w, lo, hi)[i] = s[i]
  BY <1>3, <1>5
<1>8. SubSeq(w, lo, hi) = s
  BY <1>5, <1>6, <1>7, SeqEqual
<1> QED
  BY <1>8 DEF lo, hi

\* One line more is cut off: it is the next line of w, and the cut moves on to
\* its end.
LEMMA CutOne ==
    ASSUME NEW w \in Seq(Byte), NEW b \in Seq(Byte), NEW n \in Nat, Cutting(w, b, n),
           NEW f \in 1 .. Len(b), b[f] = "nl", \A i \in 1 .. f - 1 : b[i] # "nl"
    PROVE /\ Cutting(w, SubSeq(b, f + 1, Len(b)), n + 1)
          /\ Piece(w, n + 1) = SubSeq(b, 1, f)
<1> DEFINE d == CutAt(w, b)
           q == d + f
           first == SubSeq(b, 1, f)
           rest == SubSeq(b, f + 1, Len(b))
<1>1. /\ d \in Nat /\ d + Len(b) = Len(w) /\ Len(b) \in Nat /\ Len(w) \in Nat
      /\ \A i \in 1 .. Len(b) : b[i] = w[d + i]
  BY CutAtType DEF Cutting
<1>2. /\ first \in Seq(Byte) /\ Len(first) = f
      /\ \A i \in 1 .. f : first[i] = b[i]
      /\ rest \in Seq(Byte) /\ Len(rest) = Len(b) - f
      /\ \A i \in 1 .. Len(b) - f : rest[i] = b[f + i]
  BY CutParts
<1> HIDE DEF first, rest
<1>3. CutAt(w, rest) = q /\ q \in 1 .. Len(w)
  BY <1>1, <1>2 DEF CutAt
<1> HIDE DEF d
<1>4. q \in EndsOf(w) /\ d < q
  BY <1>1, <1>3, LenProperties DEF EndsOf
<1>5. ASSUME NEW j \in d + 1 .. q - 1 PROVE j \notin EndsOf(w)
  <2>1. j - d \in 1 .. f - 1 /\ j - d \in 1 .. Len(b) /\ d + (j - d) = j
    BY <1>1
  <2> QED
    BY <1>1, <2>1 DEF EndsOf
<1>6. RankOf(w, d) = n /\ KthEnd(w, n) = d
  BY CutIsAnEnd DEF Cutting, d
<1>7. RankOf(w, q) = n + 1
  BY <1>1, <1>4, <1>5, <1>6, RankOfNext
<1>8. KthEnd(w, n + 1) = q
  BY <1>4, <1>7, EndOfItsRank
<1>9. Piece(w, n + 1) = SubSeq(w, d + 1, q)
  <2>1. (n + 1) - 1 = n
    OBVIOUS
  <2> QED
    BY <1>6, <1>8, <2>1 DEF Piece
<1>10. SubSeq(w, d + 1, q) = first
  <2>1. d + Len(first) <= Len(w) /\ \A i \in 1 .. Len(first) : first[i] = w[d + i]
    BY <1>1, <1>2
  <2>2. SubSeq(w, d + 1, d + Len(first)) = first
    BY <1>1, <1>2, <2>1, Stretch
  <2> QED
    BY <1>2, <2>2
<1>11. Cutting(w, rest, n + 1)
  <2>1. Len(rest) <= Len(w)
    BY <1>1, <1>2
  <2>2. ASSUME NEW i \in 1 .. Len(rest) PROVE rest[i] = w[q + i]
    <3>1. i \in 1 .. Len(b) - f /\ f + i \in 1 .. Len(b) /\ d + (f + i) = q + i
      BY <1>1, <1>2
    <3> QED
      BY <1>1, <1>2, <3>1
  <2>3. \A k \in 1 .. n + 1 : \E j \in EndsOf(w) : RankOf(w, j) = k
    <3>1. \A k \in 1 .. n + 1 : k \in 1 .. n \/ k = n + 1
      OBVIOUS
    <3> QED
      BY <1>4, <1>7, <3>1 DEF Cutting
  <2> HIDE DEF q
  <2> QED
    BY <1>3, <1>4, <1>7, <2>1, <2>2, <2>3 DEF Cutting
<1> QED
  BY <1>9, <1>10, <1>11 DEF first, rest

\* What has no end is the line after the last end.
LEMMA LastPiece ==
    ASSUME NEW w \in Seq(Byte), NEW b \in Seq(Byte), NEW n \in Nat, Cutting(w, b, n),
           \A i \in 1 .. Len(b) : b[i] # "nl"
    PROVE n = Cardinality(EndsOf(w)) /\ Piece(w, n + 1) = b
<1> DEFINE d == CutAt(w, b)
<1>1. /\ d \in Nat /\ d + Len(b) = Len(w) /\ Len(b) \in Nat /\ Len(w) \in Nat
      /\ \A i \in 1 .. Len(b) : b[i] = w[d + i]
  BY CutAtType DEF Cutting
<1>2. RankOf(w, d) = n /\ KthEnd(w, n) = d
  BY CutIsAnEnd DEF Cutting
<1> HIDE DEF d
<1>3. ASSUME NEW j \in d + 1 .. Len(w) PROVE j \notin EndsOf(w)
  <2>1. j - d \in 1 .. Len(b) /\ d + (j - d) = j
    BY <1>1
  <2> QED
    BY <1>1, <2>1 DEF EndsOf
<1>4. n = Cardinality(EndsOf(w))
  BY <1>1, <1>2, <1>3, RankOfLast
<1>5. KthEnd(w, n + 1) = Len(w)
  <2>1. n + 1 > Cardinality(EndsOf(w)) /\ n + 1 # 0
    BY <1>4
  <2> QED
    BY <2>1 DEF KthEnd
<1>6. Piece(w, n + 1) = SubSeq(w, d + 1, d + Len(b))
  <2>1. (n + 1) - 1 = n
    OBVIOUS
  <2> QED
    BY <1>1, <1>2, <1>5, <2>1 DEF Piece
<1>7. d + Len(b) <= Len(w)
  BY <1>1
<1> QED
  BY <1>1, <1>4, <1>6, <1>7, Stretch

-----------------------------------------------------------------------------
(* What a refusal says of the line.                                        *)

\* The line as it was written, without the newline that ended it.
BodyOf(line) == IF Last(line) = "nl" THEN Front(line) ELSE line

LEMMA PrefixParts ==
    ASSUME NEW line \in Seq(Byte), NEW n \in 0 .. Len(line)
    PROVE /\ SubSeq(line, 1, n) \in Seq(Byte) /\ Len(SubSeq(line, 1, n)) = n
          /\ \A i \in 1 .. n : SubSeq(line, 1, n)[i] = line[i]
<1>1. n \in Nat /\ Len(line) \in Nat
  BY LenProperties
<1>2. \A i \in 1 .. n : line[i] \in Byte
  BY <1>1, ElementOfSeq
<1>3. /\ SubSeq(line, 1, n) \in Seq(Byte)
      /\ Len(SubSeq(line, 1, n)) = IF 1 <= n THEN n - 1 + 1 ELSE 0
      /\ \A i \in 1 .. n - 1 + 1 : SubSeq(line, 1, n)[i] = line[1 + i - 1]
  BY <1>1, <1>2, SubSeqProperties
<1> QED
  BY <1>1, <1>3

\* What the text of a line loses beyond its newline are line ends, so it is
\* not longer than the body, and a body of whole characters leaves a text of
\* whole characters.
LEMMA TextOfBody ==
    ASSUME NEW line \in Seq(Byte), line # <<>>
    PROVE /\ Len(TextOf(line)) > MaxLine => Len(BodyOf(line)) > MaxLine
          /\ ~Utf8(TextOf(line)) => ~Utf8(BodyOf(line))
<1>1. CASE Last(line) # "nl"
  BY <1>1 DEF TextOf, BodyOf
<1>2. CASE Last(line) = "nl"
  <2> DEFINE m == Len(line)
             n == KeptOf(line)
             body == SubSeq(line, 1, m - 1)
             text == SubSeq(line, 1, n)
  <2>1. m \in Nat \ {0} /\ line[m] = "nl" /\ BodyOf(line) = body /\ TextOf(line) = text
    BY <1>2, EmptySeq DEF Last, Front, BodyOf, TextOf, WithoutLineEnd, KeptOf
  <2>2. /\ n \in 0 .. m
        /\ n # 0 => line[n] \notin LineEnd
        /\ \A i \in n + 1 .. m : line[i] \in LineEnd
    BY KeptIsLast
  <2>3. n \in 0 .. m - 1
    BY <2>1, <2>2 DEF LineEnd
  <2> HIDE DEF m, n
  <2>4. /\ body \in Seq(Byte) /\ Len(body) = m - 1
        /\ \A i \in 1 .. m - 1 : body[i] = line[i]
    <3>1. m - 1 \in 0 .. Len(line)
      BY <2>1 DEF m
    <3> QED
      BY <3>1, PrefixParts
  <2>5. text \in Seq(Byte) /\ Len(text) = n /\ \A i \in 1 .. n : text[i] = line[i]
    BY <2>1, <2>2, PrefixParts DEF m
  <2> HIDE DEF body, text
  <2>6. ASSUME Len(text) > MaxLine PROVE Len(body) > MaxLine
    BY <2>1, <2>3, <2>4, <2>5, <2>6, StreamsAssumption
  <2>7. ASSUME Utf8(body) PROVE Utf8(text)
    <3>1. DOMAIN body = 1 .. m - 1 /\ DOMAIN text = 1 .. n
      BY <2>4, <2>5, LenProperties
    <3>2. ASSUME NEW i \in 1 .. n
          PROVE /\ text[i] = "head" => i < Len(text) /\ text[i + 1] = "tail"
                /\ text[i] = "tail" => i > 1 /\ text[i - 1] = "head"
      <4>1. /\ i \in 1 .. m - 1 /\ text[i] = body[i] /\ text[i] = line[i]
            /\ i > 1 => i - 1 \in 1 .. n /\ i - 1 \in 1 .. m - 1
            /\ i < n => i + 1 \in 1 .. n /\ i + 1 \in 1 .. m - 1
        BY <2>1, <2>3, <2>4, <2>5
      <4>2. /\ body[i] = "head" => i < Len(body) /\ body[i + 1] = "tail"
            /\ body[i] = "tail" => i > 1 /\ body[i - 1] = "head"
        BY <2>7, <3>1, <4>1 DEF Utf8
      <4>3. text[i] = "tail" => i > 1 /\ text[i - 1] = "head"
        BY <2>4, <2>5, <4>1, <4>2
      <4>4. ASSUME text[i] = "head" PROVE i < n
        <5>1. i < m - 1 /\ body[i + 1] = "tail"
          BY <2>4, <4>1, <4>2, <4>4
        <5>2. i + 1 \in 1 .. m - 1 /\ line[i + 1] = "tail"
          BY <2>1, <2>4, <4>1, <5>1
        <5>3. i + 1 \notin n + 1 .. m
          BY <2>2, <5>2 DEF LineEnd
        <5> QED
          BY <2>1, <2>3, <5>2, <5>3
      <4>5. text[i] = "head" => i < Len(text) /\ text[i + 1] = "tail"
        BY <2>4, <2>5, <4>1, <4>2, <4>4
      <4> QED
        BY <4>3, <4>5
    <3> QED
      BY <3>1, <3>2 DEF Utf8
  <2> QED
    BY <2>1, <2>6, <2>7
<1> QED
  BY <1>1, <1>2

-----------------------------------------------------------------------------
(* The lines handed on.                                                    *)

LEMMA PiecesAreLines ==
    /\ \A k : WholeLine(k) = Piece(written, k) /\ WholeLine(k)' = Piece(written', k)
    /\ Ends = EndsOf(written) /\ Ends' = EndsOf(written')
<1>1. Ends = EndsOf(written) /\ Ends' = EndsOf(written')
  BY DEF Ends, EndsOf
<1>2. \A k : EndOf(k) = KthEnd(written, k)
  BY <1>1 DEF EndOf, KthEnd, RankOf
<1>3. \A k : EndOf(k)' = KthEnd(written', k)
  BY <1>1 DEF EndOf, KthEnd, RankOf
<1> QED
  BY <1>1, <1>2, <1>3 DEF WholeLine, Piece

LEMMA WholeInPieces ==
    /\ LinesAreWhole <=> \A k \in DOMAIN lines : lines[k] = TextOf(Piece(written, k))
    /\ LinesAreWhole' <=> \A k \in DOMAIN lines' : lines'[k] = TextOf(Piece(written', k))
  BY PiecesAreLines DEF LinesAreWhole

\* A text that is the next line of what was written.
LEMMA NextLineIsWhole ==
    ASSUME lines \in Seq(Seq(Byte)), LinesAreWhole, NEW line \in Seq(Byte),
           line = Piece(written, Len(lines) + 1),
           lines' = Append(lines, TextOf(line)), written' = written
    PROVE LinesAreWhole' /\ Len(lines') = Len(lines) + 1
<1>1. TextOf(line) \in Seq(Byte)
  BY TextIsPrefix
<1>2. /\ DOMAIN lines = 1 .. Len(lines) /\ Len(lines) \in Nat
      /\ lines' \in Seq(Seq(Byte)) /\ Len(lines') = Len(lines) + 1
      /\ \A k \in 1 .. Len(lines) : lines'[k] = lines[k]
      /\ lines'[Len(lines) + 1] = TextOf(line)
  BY <1>1, AppendProperties, LenProperties
<1>3. DOMAIN lines' = 1 .. Len(lines) + 1
  BY <1>2, LenProperties
<1>4. \A k \in 1 .. Len(lines) : lines[k] = TextOf(Piece(written, k))
  BY <1>2, WholeInPieces
<1>5. \A k \in 1 .. Len(lines) + 1 : k \in 1 .. Len(lines) \/ k = Len(lines) + 1
  BY <1>2
<1>6. \A k \in DOMAIN lines' : lines'[k] = TextOf(Piece(written', k))
  BY <1>2, <1>3, <1>4, <1>5
<1> QED
  BY <1>2, <1>6, WholeInPieces

\* A refusal over the next line of what was written.
LEMMA NextLineDeservesIt ==
    ASSUME NEW line \in Seq(Byte), line # <<>>, line = Piece(written, Len(lines) + 1),
           reader' = "StdoutLineTooLarge" => Len(TextOf(line)) > MaxLine,
           reader' = "StdoutNotUtf8" => ~Utf8(TextOf(line)),
           UNCHANGED <<written, lines>>
    PROVE RefusalIsEarned'
<1>1. WholeLine(Len(lines) + 1)' = line
  BY PiecesAreLines DEF WholeLine
<1>2. /\ reader' = "StdoutLineTooLarge" => Len(BodyOf(line)) > MaxLine
      /\ reader' = "StdoutNotUtf8" => ~Utf8(BodyOf(line))
  BY TextOfBody
<1> QED
  BY <1>1, <1>2 DEF RefusalIsEarned, BodyOf

\* How many lines there are, once no end is left to be cut at.
LEMMA LinesCounted ==
    ASSUME NEW w \in Seq(Byte), NEW b \in Seq(Byte), NEW n \in Nat, Cutting(w, b, n),
           \A i \in 1 .. Len(b) : b[i] # "nl"
    PROVE Cardinality({k \in 1 .. Cardinality(EndsOf(w)) + 1 : Piece(w, k) # <<>>}) =
            IF b = <<>> THEN n ELSE n + 1
<1> DEFINE K == {k \in 1 .. Cardinality(EndsOf(w)) + 1 : Piece(w, k) # <<>>}
<1>1. n = Cardinality(EndsOf(w)) /\ Piece(w, n + 1) = b
  BY LastPiece
<1>2. \A k \in 1 .. n : Piece(w, k) # <<>>
  BY PiecesAreNotEmpty
<1>3. \A k \in 1 .. n + 1 : k \in 1 .. n \/ k = n + 1
  OBVIOUS
<1>4. K = IF b = <<>> THEN 1 .. n ELSE 1 .. n + 1
  BY <1>1, <1>2, <1>3
<1>5. Cardinality(1 .. n) = n /\ Cardinality(1 .. n + 1) = n + 1
  <2>1. /\ Cardinality(1 .. n) = IF 1 > n THEN 0 ELSE n - 1 + 1
        /\ Cardinality(1 .. n + 1) = IF 1 > n + 1 THEN 0 ELSE (n + 1) - 1 + 1
    BY FS_Interval
  <2> QED
    BY <2>1
<1> QED
  BY <1>4, <1>5

LEMMA WholeStep ==
    ASSUME TypeOK, Whole, [Next]_vars
    PROVE Whole'
<1>1. /\ written \in Seq(Byte) /\ buffer \in Seq(Byte) /\ lines \in Seq(Seq(Byte))
      /\ Len(lines) \in Nat /\ Len(buffer) \in Nat /\ DOMAIN lines = 1 .. Len(lines)
  BY LenProperties DEF TypeOK
<1>2. LinesAreWhole /\ (Going => Cutting(written, buffer, Len(lines)))
  BY DEF Whole
<1>3. CASE UNCHANGED <<written, buffer, lines, reader>>
  <2>1. LinesAreWhole'
    BY <1>2, <1>3, WholeInPieces
  <2>2. NothingIsLost'
    BY <1>3 DEF Whole, NothingIsLost, LineCount, WholeLine, EndOf, Ends
  <2>3. WholeLine(Len(lines) + 1)' = WholeLine(Len(lines) + 1)
    BY <1>3 DEF WholeLine, EndOf, Ends
  <2>4. RefusalIsEarned'
    BY <1>3, <2>3 DEF Whole, RefusalIsEarned
  <2> QED
    BY <1>3, <2>1, <2>2, <2>4 DEF Whole, Going, HasLine
<1>4. ASSUME NEW chunk \in BoundedSeq(Byte, ChunkMax), Read(chunk) PROVE Whole'
  <2>1. /\ written' = written \o chunk /\ buffer' = buffer \o chunk /\ lines' = lines
        /\ reader' = "cutting" /\ Cutting(written, buffer, Len(lines)) /\ chunk \in Seq(Byte)
    BY <1>2, <1>4, ChunksAreShort DEF Read, Going
  <2>2. /\ Cutting(written', buffer', Len(lines'))
        /\ \A k \in 1 .. Len(lines) : Piece(written', k) = Piece(written, k)
    BY <1>1, <2>1, ReadMore
  <2>3. LinesAreWhole'
    BY <1>1, <1>2, <2>1, <2>2, WholeInPieces
  <2> QED
    BY <2>1, <2>2, <2>3 DEF Whole, NothingIsLost, RefusalIsEarned
<1>5. CASE CutLine
  <2> DEFINE first == SubSeq(buffer, 1, FirstEnd)
             rest == SubSeq(buffer, FirstEnd + 1, Len(buffer))
  <2>1. /\ Cutting(written, buffer, Len(lines)) /\ Deliver(first, "cutting")
        /\ written' = written /\ buffer' = rest
    BY <1>2, <1>5 DEF CutLine, Going
  <2>2. /\ FirstEnd \in 1 .. Len(buffer) /\ buffer[FirstEnd] = "nl"
        /\ \A i \in 1 .. FirstEnd - 1 : buffer[i] # "nl"
    BY <1>1, <1>5, FirstEndIsFirst DEF CutLine
  <2>3. first \in Seq(Byte) /\ Len(first) # 0
    BY <1>1, <2>2, CutParts
  <2>4. first # <<>>
    BY <2>3, EmptySeq
  <2>5. Cutting(written, rest, Len(lines) + 1) /\ first = Piece(written, Len(lines) + 1)
    BY <1>1, <2>1, <2>2, CutOne
  <2> HIDE DEF first, rest
  <2>6. CASE lines' = Append(lines, TextOf(first)) /\ reader' = "cutting"
    <3>1. LinesAreWhole' /\ Len(lines') = Len(lines) + 1
      BY <1>1, <1>2, <2>1, <2>3, <2>5, <2>6, NextLineIsWhole
    <3> QED
      BY <2>1, <2>5, <2>6, <3>1 DEF Whole, NothingIsLost, RefusalIsEarned
  <2>7. CASE /\ lines' = lines /\ reader' \in {"StdoutLineTooLarge", "StdoutNotUtf8"}
             /\ reader' = "StdoutLineTooLarge" => Len(TextOf(first)) > MaxLine
             /\ reader' = "StdoutNotUtf8" => ~Utf8(TextOf(first))
    <3>1. RefusalIsEarned'
      BY <2>1, <2>3, <2>4, <2>5, <2>7, NextLineDeservesIt
    <3>2. LinesAreWhole'
      BY <1>2, <2>1, <2>7, WholeInPieces
    <3> QED
      BY <2>7, <3>1, <3>2 DEF Whole, NothingIsLost, Going
  <2> QED
    BY <2>1, <2>6, <2>7, DeliverParts
<1>6. ASSUME ~HasLine, Going
      PROVE /\ \A i \in 1 .. Len(buffer) : buffer[i] # "nl"
            /\ Cutting(written, buffer, Len(lines))
            /\ buffer = Piece(written, Len(lines) + 1)
            /\ LineCount = IF buffer = <<>> THEN Len(lines) ELSE Len(lines) + 1
  <2>1. \A i \in 1 .. Len(buffer) : buffer[i] # "nl"
    BY <1>6 DEF HasLine, Contains
  <2>2. Cutting(written, buffer, Len(lines))
    BY <1>2, <1>6
  <2>3. buffer = Piece(written, Len(lines) + 1)
    BY <1>1, <2>1, <2>2, LastPiece
  <2>4. LineCount =
          Cardinality({k \in 1 .. Cardinality(EndsOf(written)) + 1 : Piece(written, k) # <<>>})
    BY PiecesAreLines DEF LineCount
  <2> QED
    BY <1>1, <2>1, <2>2, <2>3, <2>4, LinesCounted
<1>7. CASE CheckRest
  <2>1. /\ ~HasLine /\ Going /\ UNCHANGED <<written, buffer, lines>>
        /\ reader' = IF Len(buffer) > MaxLine THEN "StdoutLineTooLarge" ELSE "reading"
    BY <1>7 DEF CheckRest, Going
  <2>2. LinesAreWhole'
    BY <1>2, <2>1, WholeInPieces
  <2>3. CASE Len(buffer) > MaxLine
    <3>1. Len(buffer) # 0 /\ Len(buffer) \in 1 .. Len(buffer)
      BY <1>1, <2>3, StreamsAssumption
    <3>2. buffer # <<>> /\ TextOf(buffer) = buffer
      BY <1>6, <2>1, <3>1, EmptySeq DEF TextOf, Last
    <3>3. RefusalIsEarned'
      BY <1>1, <1>6, <2>1, <2>3, <3>2, NextLineDeservesIt
    <3> QED
      BY <2>1, <2>2, <2>3, <3>3 DEF Whole, NothingIsLost, Going
  <2>4. CASE ~(Len(buffer) > MaxLine)
    BY <1>6, <2>1, <2>2, <2>4 DEF Whole, NothingIsLost, RefusalIsEarned, HasLine
  <2> QED
    BY <2>3, <2>4
<1>8. CASE EndOfStream
  <2>1. ~HasLine /\ Going /\ UNCHANGED <<written, buffer>>
    BY <1>8 DEF EndOfStream, Whole, Going
  <2>2. LineCount' = LineCount
    BY <2>1 DEF LineCount, WholeLine, EndOf, Ends
  <2>3. CASE buffer = <<>>
    <3>1. lines' = lines /\ reader' = "ended"
      BY <1>8, <2>3 DEF EndOfStream
    <3>2. NothingIsLost' /\ RefusalIsEarned'
      BY <1>6, <2>1, <2>2, <2>3, <3>1 DEF NothingIsLost, RefusalIsEarned
    <3>3. LinesAreWhole'
      BY <1>2, <2>1, <3>1, WholeInPieces
    <3> QED
      BY <3>1, <3>2, <3>3 DEF Whole, Going
  <2>4. CASE buffer # <<>> /\ lines' = Append(lines, TextOf(buffer)) /\ reader' = "ended"
    <3>1. LinesAreWhole' /\ Len(lines') = Len(lines) + 1
      BY <1>1, <1>2, <1>6, <2>1, <2>4, NextLineIsWhole
    <3>2. NothingIsLost' /\ RefusalIsEarned'
      BY <1>6, <2>1, <2>2, <2>4, <3>1 DEF NothingIsLost, RefusalIsEarned
    <3> QED
      BY <2>4, <3>1, <3>2 DEF Whole, Going
  <2>5. CASE /\ buffer # <<>> /\ lines' = lines
             /\ reader' \in {"StdoutLineTooLarge", "StdoutNotUtf8"}
             /\ reader' = "StdoutLineTooLarge" => Len(TextOf(buffer)) > MaxLine
             /\ reader' = "StdoutNotUtf8" => ~Utf8(TextOf(buffer))
    <3>1. RefusalIsEarned'
      BY <1>1, <1>6, <2>1, <2>5, NextLineDeservesIt
    <3>2. LinesAreWhole'
      BY <1>2, <2>1, <2>5, WholeInPieces
    <3> QED
      BY <2>5, <3>1, <3>2 DEF Whole, NothingIsLost, Going
  <2> QED
    BY <1>8, <2>3, <2>4, <2>5, DeliverParts DEF EndOfStream
<1> QED
  BY <1>3, <1>4, <1>5, <1>7, <1>8 DEF Next, ReadError, vars

LEMMA WholeAlways == Spec => []Whole
<1>1. ASSUME Init PROVE Whole
  <2>1. written = <<>> /\ buffer = <<>> /\ lines = <<>> /\ reader = "reading"
    BY <1>1 DEF Init
  <2>2. /\ <<>> \in Seq(Byte) /\ Len(<<>>) = 0 /\ 1 .. 0 = {}
    BY EmptySeq
  <2>3. CutAt(<<>>, <<>>) = 0
    BY <2>2 DEF CutAt
  <2>4. RankOf(<<>>, 0) = 0
    BY <2>2, RankOfNothing
  <2>5. Cutting(<<>>, <<>>, 0)
    BY <2>2, <2>3, <2>4 DEF Cutting
  <2>6. ~HasLine
    BY <2>1, <2>2 DEF HasLine, Contains
  <2>7. LinesAreWhole
    BY <2>1 DEF LinesAreWhole
  <2> QED
    BY <2>1, <2>2, <2>5, <2>6, <2>7 DEF Whole, NothingIsLost, RefusalIsEarned
<1> QED
  BY <1>1, WholeStep, StreamsTypeCorrect, PTL DEF Spec

\* Wherever the pipe cuts the bytes, the lines handed on are the lines that
\* were written, in order and unaltered (read_bounded_lines).
THEOREM LinesStayWhole == Spec => []LinesAreWhole
<1>1. Whole => LinesAreWhole
  BY DEF Whole
<1> QED
  BY <1>1, WholeAlways, PTL

\* A stream that ends without a refusal has handed on every line, the one
\* without a line end included (the tail of read_bounded_lines).
THEOREM NoLineIsLost == Spec => []NothingIsLost
<1>1. Whole => NothingIsLost
  BY DEF Whole
<1> QED
  BY <1>1, WholeAlways, PTL

\* The stream is refused only over a line that, its carriage return counted, is
\* longer than the bound, or that is not UTF-8, never over a character in two
\* pieces (read_bounded_lines, _decode).  Of a line that is too long only with
\* its carriage return it says nothing: that one is refused or not by its chunks.
THEOREM RefusalsAreEarned == Spec => []RefusalIsEarned
<1>1. Whole => RefusalIsEarned
  BY DEF Whole
<1> QED
  BY <1>1, WholeAlways, PTL
=============================================================================
