----------------------------- MODULE BoundedLine -----------------------------
(***************************************************************************)
(* read_bounded_line (worker.rs): read newline-delimited lines off a byte  *)
(* stream, keeping at most limit bytes of any of them, and stderr_loop,    *)
(* which reads the worker's stderr with it and retains the last lines.     *)
(*                                                                         *)
(* The fill buffer hands the reader whatever has arrived, so a line, its   *)
(* CR and its LF may be split over any number of chunks: that split is the *)
(* only nondeterminism here.  Bytes are abstracted to LF, CR, another      *)
(* ASCII byte, and the two bytes of a two-byte UTF-8 character, so that a  *)
(* stream may hold a byte that is no part of a character, and the cap may  *)
(* cut a character in two.                                                 *)
(***************************************************************************)
EXTENDS Naturals, Sequences, FiniteSets

CONSTANTS
    Streams,    \* the byte streams considered
    Limit,      \* the cap on one line
    Fill,       \* capacity of the reader's fill buffer
    Retain,     \* STDERR_RETAIN_LINES
    MarkerSize  \* bytes of TRUNCATION_MARKER

LF == "lf"
CR == "cr"
Lead == "lead"  \* announces one continuation byte
Cont == "cont"
Bytes == {LF, CR, "x", Lead, Cont}

\* A text is a sequence of bytes, in which U+FFFD stands for its three and the
\* bytes of the host's marker are told from the worker's.
FFFD == "fffd"
Mark == "mark"
Symbols == Bytes \cup {FFFD, Mark}

ASSUME StreamsAssumption == Streams \subseteq Seq(Bytes)
ASSUME LimitAssumption == Limit \in Nat
ASSUME FillAssumption == Fill \in Nat \ {0}
ASSUME RetainAssumption == Retain \in Nat \ {0}
ASSUME MarkerAssumption == MarkerSize \in Nat

VARIABLES
    stream,     \* everything the worker will write before it closes the pipe
    pos,        \* bytes consumed
    buffer,     \* bytes of the current line that are kept
    scanned,    \* bytes of the current line that were seen
    over,       \* the current line passed the limit
    at,         \* "reading", or out of the loop: "eof" or "failed"
    lines,      \* every outcome returned, oldest first
    tail        \* the retained stderr lines

vars == <<stream, pos, buffer, scanned, over, at, lines, tail>>

Min2(a, b) == IF a <= b THEN a ELSE b

Init ==
    /\ stream \in Streams
    /\ pos = 0
    /\ buffer = <<>>
    /\ scanned = 0
    /\ over = FALSE
    /\ at = "reading"
    /\ lines = <<>>
    /\ tail = <<>>

\* Trim the CR of a CRLF, as lines() does.
TrimCR(b) ==
    IF b # <<>> /\ b[Len(b)] = CR THEN SubSeq(b, 1, Len(b) - 1) ELSE b

\* Mutated form: the room left is computed from the cap alone.
KeepPerChunk(chunk) ==
    IF over THEN buffer
    ELSE buffer \o SubSeq(chunk, 1, Min2(Len(chunk), Limit))

\* What the loop keeps of a chunk: up to the cap, and nothing once over it.
Keep(chunk) ==
    IF over THEN buffer
    ELSE buffer \o SubSeq(chunk, 1, Min2(Len(chunk), Limit - Len(buffer)))

\* Mutated form: a line of exactly the limit is refused.
IsOverAtLimit(chunk) == over \/ scanned + Len(chunk) >= Limit

IsOver(chunk) == over \/ scanned + Len(chunk) > Limit

\* The i-th byte of b belongs to a well-formed character.
WellFormed(b, i) ==
    CASE b[i] = Lead -> i < Len(b) /\ b[i + 1] = Cont
      [] b[i] = Cont -> i > 1 /\ b[i - 1] = Lead
      [] OTHER -> TRUE

\* String::from_utf8_lossy: U+FFFD for each byte that belongs to none.
FromUtf8Lossy(b) == [i \in 1..Len(b) |-> IF WellFormed(b, i) THEN b[i] ELSE FFFD]

Replaced(text) == {i \in 1..Len(text) : text[i] = FFFD}

\* len() of a String
Size(text) == Len(text) + 2 * Cardinality(Replaced(text))

Outcome(b, n, o) ==
    [text |-> FromUtf8Lossy(TrimCR(b)), scanned |-> n, oversized |-> o]

TruncationMarker == [i \in 1..MarkerSize |-> Mark]

\* stderr_loop: the line, with the marker behind it when it was cut.
Stderr(line) ==
    IF line.oversized THEN line.text \o TruncationMarker ELSE line.text

\* Push the line, first dropping the oldest of a full ring.
Push(ring, line) ==
    Append(IF Len(ring) = Retain THEN Tail(ring) ELSE ring, Stderr(line))

Returns(b, n, o) ==
    /\ lines' = Append(lines, Outcome(b, n, o))
    /\ tail' = Push(tail, Outcome(b, n, o))
    /\ buffer' = <<>>
    /\ scanned' = 0
    /\ over' = FALSE

\* fill_buf() returned n more bytes, none of them a newline.
ReadPartial ==
    /\ at = "reading"
    /\ \E n \in 1..Min2(Fill, Len(stream) - pos) :
         LET chunk == SubSeq(stream, pos + 1, pos + n)
         IN  /\ \A i \in 1..n : chunk[i] # LF
             /\ pos' = pos + n
             /\ buffer' = Keep(chunk)
             /\ scanned' = scanned + n
             /\ over' = IsOver(chunk)
    /\ UNCHANGED <<stream, at, lines, tail>>

\* Mutated form: the newline is left in the fill buffer of a dropped line.
ReadToNewlineLeavesLF ==
    /\ at = "reading"
    /\ \E n \in 0..Min2(Fill, Len(stream) - pos) - 1 :
         LET chunk == SubSeq(stream, pos + 1, pos + n)
         IN  /\ stream[pos + n + 1] = LF
             /\ \A i \in 1..n : chunk[i] # LF
             /\ pos' = IF IsOver(chunk) THEN pos + n ELSE pos + n + 1
             /\ Returns(Keep(chunk), scanned + n, IsOver(chunk))
    /\ UNCHANGED <<stream, at>>

\* The available bytes hold a newline n bytes in: the line ends there, and
\* what lies behind it stays in the fill buffer for the next read.
ReadToNewline ==
    /\ at = "reading"
    /\ \E n \in 0..Min2(Fill, Len(stream) - pos) - 1 :
         LET chunk == SubSeq(stream, pos + 1, pos + n)
         IN  /\ stream[pos + n + 1] = LF
             /\ \A i \in 1..n : chunk[i] # LF
             /\ pos' = pos + n + 1
             /\ Returns(Keep(chunk), scanned + n, IsOver(chunk))
    /\ UNCHANGED <<stream, at>>

\* EOF behind a fragment with no newline, which is still a line.
ReadFragment ==
    /\ at = "reading"
    /\ pos = Len(stream)
    /\ scanned # 0
    /\ Returns(buffer, scanned, over)
    /\ UNCHANGED <<stream, pos, at>>

ReadEof ==
    /\ at = "reading"
    /\ pos = Len(stream)
    /\ scanned = 0
    /\ at' = "eof"
    /\ UNCHANGED <<stream, pos, buffer, scanned, over, lines, tail>>

\* fill_buf() fails: the loop ends and the bytes of the current line are lost.
ReadFails ==
    /\ at = "reading"
    /\ at' = "failed"
    /\ buffer' = <<>>
    /\ scanned' = 0
    /\ over' = FALSE
    /\ UNCHANGED <<stream, pos, lines, tail>>

Next == ReadPartial \/ ReadToNewline \/ ReadFragment \/ ReadEof \/ ReadFails

Spec == Init /\ [][Next]_vars

-----------------------------------------------------------------------------
(* Properties *)

Outcomes == [text : Seq(Symbols), scanned : Nat, oversized : BOOLEAN]

\* Types of the reader's state.
TypeOK ==
    /\ stream \in Seq(Bytes)
    /\ pos \in 0..Len(stream)
    /\ buffer \in Seq(Bytes)
    /\ scanned \in 0..pos
    /\ over \in BOOLEAN
    /\ at \in {"reading", "eof", "failed"}
    /\ lines \in Seq(Outcomes)
    /\ tail \in Seq(Seq(Symbols))

\* "Only retain up to the cap": the kept bytes are exactly the first Limit
\* bytes of the current line, however it was split over fill buffers, and the
\* line counts as oversized exactly when there were more.
KeepsThePrefix ==
    /\ over <=> scanned > Limit
    /\ Len(buffer) = Min2(scanned, Limit)
    /\ \A i \in 1..Len(buffer) : buffer[i] = stream[pos - scanned + i]

\* Peak memory does not depend on the worker: whatever it writes, the buffer of
\* a line stays within the cap, the text made of it within three times the cap
\* (each byte that is no UTF-8 becomes the three of U+FFFD), and the stderr ring
\* holds at most Retain such texts, each with at most one marker behind it.
MemoryBounded ==
    /\ Len(buffer) <= Limit
    /\ \A k \in 1..Len(lines) : Size(lines[k].text) <= 3 * Limit
    /\ Len(tail) <= Retain
    /\ \A k \in 1..Len(tail) : Size(tail[k]) <= 3 * Limit + MarkerSize

\* The ceiling the tests of stderr_loop assert of every line it retains: the cap
\* and the marker.  The cap is on the bytes read and the text made of them can
\* be longer, so a stderr line that is no UTF-8 goes past it.
StderrCeiling ==
    \A k \in 1..Len(tail) : Size(tail[k]) <= Limit + MarkerSize

(***************************************************************************)
(* The reference: where lines end is read off the whole stream at once.  A *)
(* line ends at its LF, and a last fragment without one just behind EOF.   *)
(***************************************************************************)
LineEnds ==
    {i \in 1..Len(stream) : stream[i] = LF}
        \cup (IF stream # <<>> /\ stream[Len(stream)] # LF
              THEN {Len(stream) + 1} ELSE {})

EndsUpTo(e) == {i \in LineEnds : i <= e}

\* The k-th line of the stream lies strictly between p, where the line before
\* it ends (0 for the first), and e.
IsLine(k, p, e) ==
    /\ p \in LineEnds \cup {0}
    /\ e \in LineEnds
    /\ p < e
    /\ EndsUpTo(e) = EndsUpTo(p) \cup {e}
    /\ Cardinality(EndsUpTo(e)) = k

Expected(p, e) ==
    [text |-> FromUtf8Lossy(TrimCR(SubSeq(stream, p + 1, p + Min2(e - p - 1, Limit)))),
     scanned |-> e - p - 1,
     oversized |-> e - p - 1 > Limit]

\* "the stream stays framed (the next read starts at a real line boundary)":
\* whatever the chunking, and across lines that were cut, the reads return the
\* lines of the stream, each once and in order, and all of them by EOF.
StaysFramed ==
    /\ \A k \in 1..Len(lines) :
         \E p, e \in 0..(Len(stream) + 1) :
            IsLine(k, p, e) /\ lines[k] = Expected(p, e)
    /\ at = "eof" => Len(lines) = Cardinality(LineEnds)
=============================================================================
