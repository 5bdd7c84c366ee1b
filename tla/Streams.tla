------------------------------- MODULE Streams -------------------------------
(***************************************************************************)
(* Reading a provider's output within fixed bounds                         *)
(* (whole_life/runtime/streams.py): stdout is cut into lines, whatever     *)
(* pieces the pipe delivers it in, and of stderr only the tail is kept.    *)
(***************************************************************************)
EXTENDS Naturals, FiniteSets, Sequences, SequencesExt

CONSTANTS
    MaxLine,     \* MAX_STDOUT_LINE_BYTES
    ChunkMax,    \* what one read() returns at most
    RingMax,     \* STDERR_RING_BYTES
    MaxOutput,   \* bound of the model: bytes the child writes to stdout
    MaxErrors    \* bound of the model: bytes it writes to stderr

ASSUME StreamsAssumption ==
    /\ MaxLine \in Nat \ {0} /\ ChunkMax \in Nat \ {0} /\ RingMax \in Nat \ {0}
    /\ MaxOutput \in Nat /\ MaxErrors \in Nat

\* As much of UTF-8 as a cut can break: a character of one byte, the head and
\* the tail of one of two bytes, and the bytes that end a line.
Byte == {"plain", "head", "tail", "cr", "nl"}

VARIABLES
    written,   \* everything the child has written to stdout and we have read
    buffer,    \* what is not part of a line yet
    lines,     \* the lines handed on, without their ends
    reader,    \* "reading", "cutting", "ended" or the diagnostic of a refusal
    errors,    \* how many bytes of stderr were read; they are numbered
    ring       \* those that are kept

vars == <<written, buffer, lines, reader, errors, ring>>

Init ==
    /\ written = <<>> /\ buffer = <<>> /\ lines = <<>> /\ reader = "reading"
    /\ errors = 0 /\ ring = <<>>

-----------------------------------------------------------------------------

Utf8(bytes) ==
    \A i \in DOMAIN bytes :
        /\ bytes[i] = "head" => i < Len(bytes) /\ bytes[i + 1] = "tail"
        /\ bytes[i] = "tail" => i > 1 /\ bytes[i - 1] = "head"

LineEnd == {"cr", "nl"}

\* bytes.rstrip(b"\r\n")
WithoutLineEnd(bytes) ==
    SubSeq(bytes, 1, SelectLastInSeq(bytes, LAMBDA b : b \notin LineEnd))

\* Only a line that was ended loses its end.
TextOf(line) == IF Last(line) = "nl" THEN WithoutLineEnd(line) ELSE line

\* Mutant of Refusal: a line that arrived whole is not measured.
RefusalUnmeasured(text) == IF Utf8(text) THEN "none" ELSE "StdoutNotUtf8"

\* Refused and never shortened: a cut line may still parse.
Refusal(text) ==
    IF Len(text) > MaxLine THEN "StdoutLineTooLarge"
    ELSE IF Utf8(text) THEN "none" ELSE "StdoutNotUtf8"

\* One line is handed on, or the stream is refused.
Deliver(line, next) ==
    LET refusal == Refusal(TextOf(line))
    IN  IF refusal = "none"
        THEN lines' = Append(lines, TextOf(line)) /\ reader' = next
        ELSE reader' = refusal /\ UNCHANGED lines

\* read() returns at least a byte and at most a chunk.
Read(chunk) ==
    /\ reader = "reading"
    /\ chunk # <<>> /\ Len(written) + Len(chunk) <= MaxOutput
    /\ written' = written \o chunk
    /\ buffer' = buffer \o chunk
    /\ reader' = "cutting"
    /\ UNCHANGED <<lines, errors, ring>>

HasLine == Contains(buffer, "nl")
FirstEnd == SelectInSeq(buffer, LAMBDA b : b = "nl")

\* Mutant of CutLine: one line to a chunk, the rest of it is dropped.
CutLineOnly ==
    /\ reader = "cutting" /\ HasLine
    /\ buffer' = <<>>
    /\ Deliver(SubSeq(buffer, 1, FirstEnd), "cutting")
    /\ UNCHANGED <<written, errors, ring>>

\* yield: the caller handles one line before the next is cut.
CutLine ==
    /\ reader = "cutting" /\ HasLine
    /\ buffer' = SubSeq(buffer, FirstEnd + 1, Len(buffer))
    /\ Deliver(SubSeq(buffer, 1, FirstEnd), "cutting")
    /\ UNCHANGED <<written, errors, ring>>

\* Mutants of CheckRest: off by one, and left to the end of the stream.
CheckRestEarly ==
    /\ reader = "cutting" /\ ~HasLine
    /\ reader' = IF Len(buffer) >= MaxLine THEN "StdoutLineTooLarge" ELSE "reading"
    /\ UNCHANGED <<written, buffer, lines, errors, ring>>
CheckRestNever ==
    /\ reader = "cutting" /\ ~HasLine
    /\ reader' = "reading"
    /\ UNCHANGED <<written, buffer, lines, errors, ring>>

\* No line is left in the buffer: the growth is refused before the next read.
CheckRest ==
    /\ reader = "cutting" /\ ~HasLine
    /\ reader' = IF Len(buffer) > MaxLine THEN "StdoutLineTooLarge" ELSE "reading"
    /\ UNCHANGED <<written, buffer, lines, errors, ring>>

\* Mutant of EndOfStream: what has no line end is not a line.
EndOfStreamDropping ==
    /\ reader = "reading"
    /\ reader' = "ended"
    /\ UNCHANGED <<written, buffer, lines, errors, ring>>

\* The last line needs no line end.
EndOfStream ==
    /\ reader = "reading"
    /\ IF buffer = <<>>
       THEN reader' = "ended" /\ UNCHANGED lines
       ELSE Deliver(buffer, "ended")
    /\ UNCHANGED <<written, buffer, errors, ring>>

\* Mutants of WriteRing: one chunk too many is kept, and a full ring refuses
\* what does not fit.
WriteRingAll(chunk) ==
    IF Len(ring) > RingMax THEN chunk ELSE ring \o chunk
WriteRingFirst(chunk) ==
    IF Len(ring \o chunk) > RingMax THEN SubSeq(ring \o chunk, 1, RingMax)
                                    ELSE ring \o chunk

\* The oldest bytes make room.
WriteRing(chunk) ==
    LET all == ring \o chunk
    IN  SubSeq(all, IF Len(all) > RingMax THEN Len(all) - RingMax + 1 ELSE 1, Len(all))

ReadError(n) ==
    /\ n > 0 /\ errors + n <= MaxErrors
    /\ errors' = errors + n
    /\ ring' = WriteRing([i \in 1 .. n |-> errors + i])
    /\ UNCHANGED <<written, buffer, lines, reader>>

Next ==
    \/ \E chunk \in BoundedSeq(Byte, ChunkMax) : Read(chunk)
    \/ CutLine \/ CheckRest \/ EndOfStream
    \/ \E n \in 1 .. ChunkMax : ReadError(n)

Spec == Init /\ [][Next]_vars

-----------------------------------------------------------------------------
(* The reference: the lines of all that was written, as if it had come in  *)
(* one piece.                                                              *)

Ends == {i \in DOMAIN written : written[i] = "nl"}

\* Where the k-th line starts and where it ends; the last may have no end.
EndOf(k) ==
    IF k = 0 THEN 0
    ELSE IF k > Cardinality(Ends) THEN Len(written)
    ELSE CHOOSE i \in Ends : Cardinality({j \in Ends : j <= i}) = k

WholeLine(k) == SubSeq(written, EndOf(k - 1) + 1, EndOf(k))

\* The last of them may be empty, and is no line then.
LineCount == Cardinality({k \in 1 .. Cardinality(Ends) + 1 : WholeLine(k) # <<>>})

-----------------------------------------------------------------------------
(* Properties.                                                             *)

\* The types of the variables.
TypeOK ==
    /\ written \in Seq(Byte) /\ buffer \in Seq(Byte)
    /\ lines \in Seq(Seq(Byte))
    /\ reader \in {"reading", "cutting", "ended", "StdoutLineTooLarge", "StdoutNotUtf8"}
    /\ errors \in Nat /\ ring \in Seq(Nat) /\ Len(ring) <= RingMax

\* Wherever the pipe cuts, between two lines, in a line end or inside a
\* character, what is handed on are the lines that were written, whole and in
\* their order (read_bounded_lines: refusing rather than truncating).
LinesAreWhole == \A k \in DOMAIN lines : lines[k] = TextOf(WholeLine(k))

\* A stream that ends well has lost nothing, its unended last line included.
NothingIsLost == reader = "ended" => Len(lines) = LineCount

\* No line beyond the bound is handed on, however it arrived.
LinesAreBounded == \A k \in DOMAIN lines : Len(lines[k]) <= MaxLine

\* A stream is refused only over a line that is itself at fault: it is longer
\* than the bound without its newline, or it is not UTF-8.  A character in two
\* pieces is no reason.  The length counts the carriage return of the line's end,
\* so that a line whose text alone is exactly the bound may be refused or handed
\* on, by where its chunks were cut (the guard on the buffer counts it, _decode
\* does not).
RefusalIsEarned ==
    LET line == WholeLine(Len(lines) + 1)
        body == IF Last(line) = "nl" THEN Front(line) ELSE line
    IN  /\ reader = "StdoutLineTooLarge" => Len(body) > MaxLine
        /\ reader = "StdoutNotUtf8" => ~Utf8(body)

\* A child that never ends a line cannot make the buffer grow without limit.
GrowthIsBounded == Len(buffer) <= MaxLine + ChunkMax

\* The ring holds the last bytes of stderr and nothing older.
RingIsTheTail ==
    LET kept == IF errors < RingMax THEN errors ELSE RingMax
    IN  ring = [i \in 1 .. kept |-> errors - kept + i]
=============================================================================
