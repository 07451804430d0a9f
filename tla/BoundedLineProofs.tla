-------------------------- MODULE BoundedLineProofs --------------------------
(***************************************************************************)
(* For every stream, every cap and every way the bytes are split over fill *)
(* buffers: what read_bounded_line keeps of a line is its first Limit      *)
(* bytes, what the host retains of a worker's output is bounded, and the   *)
(* lines it returns are those of the stream, each once and in order.       *)
(***************************************************************************)
EXTENDS BoundedLine, SequenceTheorems, FiniteSetTheorems, TLAPS

USE LimitAssumption, FillAssumption, RetainAssumption, MarkerAssumption

\* The empty line.
LEMMA EmptyLine ==
    /\ <<>> \in Seq(Bytes) /\ <<>> \in Seq(Outcomes) /\ <<>> \in Seq(Seq(Symbols))
    /\ Len(<<>>) = 0
  BY EmptySeq

\* The first m bytes of a sequence of bytes.
LEMMA PrefixProperties ==
    ASSUME NEW s \in Seq(Bytes), NEW m \in 0..Len(s)
    PROVE  /\ SubSeq(s, 1, m) \in Seq(Bytes)
           /\ Len(SubSeq(s, 1, m)) = m
           /\ \A i \in 1..m : SubSeq(s, 1, m)[i] = s[i]
<1>1. \A i \in 1..m : s[i] \in Bytes
  OBVIOUS
<1>2. 1 \in Int /\ m \in Int
  OBVIOUS
<1>3. /\ SubSeq(s, 1, m) \in Seq(Bytes)
      /\ Len(SubSeq(s, 1, m)) = IF 1 <= m THEN m - 1 + 1 ELSE 0
      /\ \A i \in 1..(m - 1 + 1) : SubSeq(s, 1, m)[i] = s[1 + i - 1]
  BY <1>1, <1>2, SubSeqProperties
<1>4. QED
  BY <1>3

\* The n bytes of a sequence that follow its first p.
LEMMA SegmentProperties ==
    ASSUME NEW s \in Seq(Bytes), NEW p \in Nat, NEW n \in Nat, p + n <= Len(s)
    PROVE  /\ SubSeq(s, p + 1, p + n) \in Seq(Bytes)
           /\ Len(SubSeq(s, p + 1, p + n)) = n
           /\ \A i \in 1..n : SubSeq(s, p + 1, p + n)[i] = s[p + i]
<1> DEFINE a == p + 1
           b == p + n
<1>1. a \in Int /\ b \in Int
  OBVIOUS
<1>2. \A i \in a..b : s[i] \in Bytes
  OBVIOUS
<1>3. /\ b - a + 1 = n /\ (a <= b <=> 1 <= n) /\ (~(1 <= n) => n = 0)
      /\ \A i \in 1..n : a + i - 1 = p + i
  OBVIOUS
<1> HIDE DEF a, b
<1>4. /\ SubSeq(s, a, b) \in Seq(Bytes)
      /\ Len(SubSeq(s, a, b)) = IF a <= b THEN b - a + 1 ELSE 0
      /\ \A i \in 1..(b - a + 1) : SubSeq(s, a, b)[i] = s[a + i - 1]
  BY <1>1, <1>2, SubSeqProperties
<1>5. /\ Len(SubSeq(s, a, b)) = n
      /\ \A i \in 1..n : SubSeq(s, a, b)[i] = s[p + i]
  BY <1>3, <1>4
<1>6. QED
  BY <1>4, <1>5 DEF a, b

\* What is kept of a chunk, as an index range of the stream.
LEMMA KeepIsPrefix ==
    ASSUME TypeOK, KeepsThePrefix,
           NEW n \in Nat, pos + n <= Len(stream),
           NEW chunk, chunk = SubSeq(stream, pos + 1, pos + n)
    PROVE  /\ Keep(chunk) \in Seq(Bytes)
           /\ Len(chunk) = n
           /\ Len(Keep(chunk)) = Min2(scanned + n, Limit)
           /\ \A i \in 1..Len(Keep(chunk)) : Keep(chunk)[i] = stream[pos - scanned + i]
           /\ IsOver(chunk) <=> scanned + n > Limit
<1>1. /\ Len(stream) \in Nat /\ pos \in Nat /\ scanned \in Nat /\ Len(buffer) \in Nat
      /\ pos <= Len(stream) /\ scanned <= pos /\ stream \in Seq(Bytes)
      /\ buffer \in Seq(Bytes) /\ over \in BOOLEAN
  BY DEF TypeOK
<1>2. chunk \in Seq(Bytes) /\ Len(chunk) = n /\ \A i \in 1..n : chunk[i] = stream[pos + i]
  BY <1>1, SegmentProperties
<1>2a. /\ over <=> scanned > Limit
      /\ Len(buffer) = Min2(scanned, Limit)
      /\ \A i \in 1..Len(buffer) : buffer[i] = stream[pos - scanned + i]
  BY DEF KeepsThePrefix
<1>3. IsOver(chunk) <=> scanned + n > Limit
  <2>1. IsOver(chunk) <=> over \/ scanned + n > Limit
    BY <1>2 DEF IsOver
  <2>2. QED
    BY <1>1, <1>2a, <2>1
<1>4. CASE over
  <2>1. Keep(chunk) = buffer
    BY <1>4 DEF Keep
  <2>2. Len(buffer) = Min2(scanned + n, Limit)
    BY <1>1, <1>2a, <1>4 DEF Min2
  <2>3. QED
    BY <1>1, <1>2, <1>2a, <1>3, <2>1, <2>2
<1>5. CASE ~over
  <2> DEFINE m == Min2(Len(chunk), Limit - Len(buffer))
             part == SubSeq(chunk, 1, m)
  <2>1. Len(buffer) = scanned /\ scanned <= Limit
    BY <1>1, <1>2a, <1>5 DEF Min2
  <2>2. m \in 0..n
    BY <1>1, <1>2, <2>1 DEF Min2
  <2>3. part \in Seq(Bytes) /\ Len(part) = m /\ \A i \in 1..m : part[i] = chunk[i]
    <3>1. chunk \in Seq(Bytes) /\ m \in 0..Len(chunk)
      BY <1>2, <2>2
    <3> HIDE DEF m
    <3>2. QED
      BY <3>1, PrefixProperties
  <2>4. Keep(chunk) = buffer \o part
    BY <1>5 DEF Keep
  <2>5. /\ Keep(chunk) \in Seq(Bytes)
        /\ Len(Keep(chunk)) = Len(buffer) + m
        /\ \A i \in 1..(Len(buffer) + m) :
              Keep(chunk)[i] = IF i <= Len(buffer) THEN buffer[i] ELSE part[i - Len(buffer)]
    <3> HIDE DEF m, part
    <3> QED
      <4>1. buffer \in Seq(Bytes) /\ part \in Seq(Bytes) /\ Len(part) = m
        BY <1>1, <2>3
      <4>2. /\ buffer \o part \in Seq(Bytes)
            /\ Len(buffer \o part) = Len(buffer) + Len(part)
            /\ \A i \in 1..(Len(buffer) + Len(part)) :
                 (buffer \o part)[i] = IF i <= Len(buffer) THEN buffer[i] ELSE part[i - Len(buffer)]
        BY <4>1, ConcatProperties, Zenon
      <4>3. QED
        BY <4>1, <4>2, <2>4, Zenon
  <2>6. Len(buffer) + m = Min2(scanned + n, Limit)
    BY <1>1, <1>2, <2>1 DEF Min2
  <2>7. ASSUME NEW i \in 1..(Len(buffer) + m)
        PROVE  Keep(chunk)[i] = stream[pos - scanned + i]
    <3> HIDE DEF m, part
    <3>1. CASE i <= Len(buffer)
      BY <3>1, <2>1, <2>2, <2>5, <1>1, <1>2a
    <3>2. CASE ~(i <= Len(buffer))
      <4>1. i - Len(buffer) \in 1..m /\ i - Len(buffer) \in 1..n
        BY <3>2, <1>1, <2>2
      <4>2. Keep(chunk)[i] = chunk[i - Len(buffer)]
        BY <3>2, <4>1, <2>3, <2>5
      <4>3. chunk[i - Len(buffer)] = stream[pos + (i - Len(buffer))]
        BY <4>1, <1>2
      <4>4. pos + (i - Len(buffer)) = pos - scanned + i
        BY <2>1, <2>2, <1>1
      <4>5. QED
        BY <4>2, <4>3, <4>4
    <3>3. QED
      BY <3>1, <3>2
  <2>8. QED
    BY <1>2, <1>3, <2>5, <2>6, <2>7
<1>6. QED
  BY <1>4, <1>5

\* Trimming a CR keeps a line a line, and makes it no longer.
LEMMA TrimShortens ==
    ASSUME NEW b \in Seq(Bytes)
    PROVE  TrimCR(b) \in Seq(Bytes) /\ Len(TrimCR(b)) <= Len(b)
<1>1. CASE b = <<>>
  BY <1>1 DEF TrimCR
<1>2. CASE b # <<>>
  <2>1. Len(b) \in Nat /\ Len(b) # 0
    BY <1>2
  <2>2. SubSeq(b, 1, Len(b) - 1) \in Seq(Bytes) /\ Len(SubSeq(b, 1, Len(b) - 1)) = Len(b) - 1
    <3>1. Len(b) - 1 \in 0..Len(b)
      BY <2>1
    <3>2. QED
      BY <3>1, PrefixProperties
  <2>3. QED
    BY <2>1, <2>2 DEF TrimCR
<1>3. QED
  BY <1>1, <1>2

\* The lossy conversion makes one symbol of each byte.
LEMMA LossyText ==
    ASSUME NEW b \in Seq(Bytes)
    PROVE  /\ FromUtf8Lossy(b) \in Seq(Symbols)
           /\ Len(FromUtf8Lossy(b)) = Len(b)
           /\ \A i \in 1..Len(b) : FromUtf8Lossy(b)[i] # Mark
<1>1. Len(b) \in Nat /\ \A i \in 1..Len(b) : b[i] \in Bytes
  OBVIOUS
<1>2. \A i \in 1..Len(b) : (IF WellFormed(b, i) THEN b[i] ELSE FFFD) \in Bytes \cup {FFFD}
  BY <1>1
<1>3. Mark \notin Bytes \cup {FFFD} /\ Bytes \cup {FFFD} \subseteq Symbols
  BY DEF Symbols, Bytes, LF, CR, Lead, Cont, FFFD, Mark
<1>4. FromUtf8Lossy(b) \in [1..Len(b) -> Bytes \cup {FFFD}]
  BY <1>2 DEF FromUtf8Lossy
<1>5. QED
  BY <1>1, <1>3, <1>4

\* A text of n symbols has at most n replacements, wherever n falls in it.
LEMMA ReplacedWithin ==
    ASSUME NEW t \in Seq(Symbols), NEW n \in Nat, Replaced(t) \subseteq 1..n
    PROVE  Cardinality(Replaced(t)) \in Nat /\ Cardinality(Replaced(t)) <= n
<1>1. IsFiniteSet(1..n) /\ Cardinality(1..n) = n
  <2>1. 1 \in Int /\ n \in Int /\ (1 > n => n = 0) /\ n - 1 + 1 = n
    OBVIOUS
  <2>2. IsFiniteSet(1..n) /\ Cardinality(1..n) = IF 1 > n THEN 0 ELSE n - 1 + 1
    BY <2>1, FS_Interval
  <2>3. QED
    BY <2>1, <2>2
<1>2. QED
  BY <1>1, FS_Subset, FS_CardinalityType

\* The text of a line of at most Limit bytes, and what stderr_loop makes of it.
LEMMA TextBounded ==
    ASSUME NEW b \in Seq(Bytes), Len(b) <= Limit, NEW n \in Nat, NEW o \in BOOLEAN
    PROVE  /\ Outcome(b, n, o) \in Outcomes
           /\ Size(Outcome(b, n, o).text) <= 3 * Limit
           /\ Stderr(Outcome(b, n, o)) \in Seq(Symbols)
           /\ Size(Stderr(Outcome(b, n, o))) <= 3 * Limit + MarkerSize
<1> DEFINE t == FromUtf8Lossy(TrimCR(b))
           mark == TruncationMarker
           long == t \o mark
<1>1. t \in Seq(Symbols) /\ Len(t) \in Nat /\ Len(t) <= Limit
  <2>1. TrimCR(b) \in Seq(Bytes) /\ Len(TrimCR(b)) <= Len(b)
    BY TrimShortens
  <2>2. t \in Seq(Symbols) /\ Len(t) = Len(TrimCR(b))
    BY <2>1, LossyText
  <2>3. Len(b) \in Nat /\ Len(TrimCR(b)) \in Nat
    BY <2>1
  <2>4. QED
    BY <2>1, <2>2, <2>3
<1>2. Outcome(b, n, o) = [text |-> t, scanned |-> n, oversized |-> o]
  BY DEF Outcome
<1>3. mark \in Seq(Symbols) /\ Len(mark) = MarkerSize /\ \A i \in 1..MarkerSize : mark[i] = Mark
  BY DEF TruncationMarker, Symbols
<1> HIDE DEF t, mark
<1>4. Size(t) <= 3 * Limit /\ Size(t) <= 3 * Limit + MarkerSize
  <2>1. Replaced(t) \subseteq 1..Len(t)
    BY DEF Replaced
  <2>2. Cardinality(Replaced(t)) \in Nat /\ Cardinality(Replaced(t)) <= Len(t)
    BY <1>1, <2>1, ReplacedWithin
  <2>3. QED
    BY <1>1, <2>2 DEF Size
<1>5. /\ long \in Seq(Symbols)
      /\ Len(long) = Len(t) + MarkerSize
      /\ \A i \in 1..(Len(t) + MarkerSize) :
            long[i] = IF i <= Len(t) THEN t[i] ELSE mark[i - Len(t)]
  BY <1>1, <1>3, ConcatProperties
<1>6. Size(long) <= 3 * Limit + MarkerSize
  <2>1. ASSUME NEW i \in Replaced(long) PROVE i \in 1..Len(t)
    <3>1. i \in 1..(Len(t) + MarkerSize) /\ long[i] = FFFD
      BY <1>5 DEF Replaced
    <3>2. CASE ~(i <= Len(t))
      <4>1. i - Len(t) \in 1..MarkerSize
        BY <1>1, <3>1, <3>2
      <4>2. long[i] = Mark
        BY <1>3, <1>5, <3>1, <3>2, <4>1
      <4>3. QED
        BY <3>1, <4>2 DEF FFFD, Mark
    <3>3. QED
      BY <1>1, <3>1, <3>2
  <2>2. Cardinality(Replaced(long)) \in Nat /\ Cardinality(Replaced(long)) <= Len(t)
    <3>1. Replaced(long) \subseteq 1..Len(t)
      BY <2>1
    <3> HIDE DEF long
    <3>2. QED
      BY <1>1, <1>5, <3>1, ReplacedWithin
  <2>3. Size(long) = Len(t) + MarkerSize + 2 * Cardinality(Replaced(long))
    BY <1>5 DEF Size
  <2> HIDE DEF long
  <2>4. QED
    BY <1>1, <2>2, <2>3
<1>7. Stderr(Outcome(b, n, o)) = IF o THEN long ELSE t
  BY <1>2 DEF Stderr, mark
<1> HIDE DEF long
<1>8. QED
  BY <1>1, <1>2, <1>4, <1>5, <1>6, <1>7 DEF Outcomes

\* A bounded line, pushed onto a ring of such lines, leaves one.
LEMMA PushBounded ==
    ASSUME NEW ring \in Seq(Seq(Symbols)), NEW line \in Outcomes,
           Stderr(line) \in Seq(Symbols), Size(Stderr(line)) <= 3 * Limit + MarkerSize,
           Len(ring) <= Retain,
           \A k \in 1..Len(ring) : Size(ring[k]) <= 3 * Limit + MarkerSize
    PROVE  /\ Push(ring, line) \in Seq(Seq(Symbols))
           /\ Len(Push(ring, line)) <= Retain
           /\ \A k \in 1..Len(Push(ring, line)) :
                 Size(Push(ring, line)[k]) <= 3 * Limit + MarkerSize
<1> DEFINE rest == IF Len(ring) = Retain THEN Tail(ring) ELSE ring
           text == Stderr(line)
<1>1. /\ rest \in Seq(Seq(Symbols)) /\ Len(rest) < Retain
      /\ \A k \in 1..Len(rest) : Size(rest[k]) <= 3 * Limit + MarkerSize
  <2>1. CASE Len(ring) = Retain
    <3>1. ring # <<>>
      BY <2>1
    <3>2. /\ Tail(ring) \in Seq(Seq(Symbols)) /\ Len(Tail(ring)) = Len(ring) - 1
          /\ \A k \in 1..(Len(ring) - 1) : Tail(ring)[k] = ring[k + 1]
      BY <3>1
    <3>3. \A k \in 1..(Len(ring) - 1) : k + 1 \in 1..Len(ring)
      BY <2>1
    <3>4. QED
      BY <2>1, <3>2, <3>3
  <2>2. CASE Len(ring) # Retain
    BY <2>2
  <2>3. QED
    BY <2>1, <2>2
<1>2. Push(ring, line) = Append(rest, text)
  BY DEF Push
<1>2a. text \in Seq(Symbols) /\ Size(text) <= 3 * Limit + MarkerSize
  OBVIOUS
<1> HIDE DEF rest, text
<1>3. /\ Append(rest, text) \in Seq(Seq(Symbols))
      /\ Len(Append(rest, text)) = Len(rest) + 1
      /\ \A k \in 1..Len(rest) : Append(rest, text)[k] = rest[k]
      /\ Append(rest, text)[Len(rest) + 1] = text
  BY <1>1, <1>2a, AppendProperties
<1>4. Len(rest) \in Nat /\ \A k \in 1..(Len(rest) + 1) : k \in 1..Len(rest) \/ k = Len(rest) + 1
  BY <1>1
<1>5. Len(Append(rest, text)) <= Retain
  BY <1>1, <1>3, <1>4
<1>6. \A k \in 1..Len(Append(rest, text)) : Size(Append(rest, text)[k]) <= 3 * Limit + MarkerSize
  BY <1>1, <1>2a, <1>3, <1>4
<1>7. QED
  BY <1>2, <1>3, <1>5, <1>6

LineInv == TypeOK /\ KeepsThePrefix /\ MemoryBounded

\* A returned line is well-formed and within the cap, and the next one starts empty.
LEMMA ReturnKeepsInv ==
    ASSUME LineInv, pos' \in 0..Len(stream), UNCHANGED <<stream, at>>,
           NEW b \in Seq(Bytes), Len(b) <= Limit, NEW n \in Nat, NEW o \in BOOLEAN,
           Returns(b, n, o)
    PROVE  LineInv'
<1> DEFINE line == Outcome(b, n, o)
<1>1. /\ line \in Outcomes /\ Size(line.text) <= 3 * Limit
      /\ Stderr(line) \in Seq(Symbols) /\ Size(Stderr(line)) <= 3 * Limit + MarkerSize
  BY TextBounded
<1>2. /\ lines' = Append(lines, line) /\ tail' = Push(tail, line)
      /\ buffer' = <<>> /\ scanned' = 0 /\ over' = FALSE
  BY DEF Returns
<1> HIDE DEF line
<1>3. /\ tail' \in Seq(Seq(Symbols)) /\ Len(tail') <= Retain
      /\ \A k \in 1..Len(tail') : Size(tail'[k]) <= 3 * Limit + MarkerSize
  BY <1>1, <1>2, PushBounded DEF LineInv, TypeOK, MemoryBounded
<1>4. lines' \in Seq(Outcomes) /\ \A k \in 1..Len(lines') : Size(lines'[k].text) <= 3 * Limit
  <2>1. lines \in Seq(Outcomes) /\ \A k \in 1..Len(lines) : Size(lines[k].text) <= 3 * Limit
    BY DEF LineInv, TypeOK, MemoryBounded
  <2>2. /\ lines' \in Seq(Outcomes) /\ Len(lines') = Len(lines) + 1
        /\ \A k \in 1..Len(lines) : lines'[k] = lines[k]
        /\ lines'[Len(lines) + 1] = line
    BY <1>1, <1>2, <2>1, AppendProperties
  <2>3. \A k \in 1..Len(lines') : k \in 1..Len(lines) \/ k = Len(lines) + 1
    BY <2>1, <2>2
  <2>4. QED
    BY <1>1, <2>1, <2>2, <2>3
<1>5. TypeOK'
  <2>1. buffer' \in Seq(Bytes)
    BY <1>2, EmptyLine
  <2>2. scanned' \in 0..pos'
    BY <1>2 DEF LineInv, TypeOK
  <2>3. over' \in BOOLEAN
    BY <1>2
  <2>4. QED
    BY <1>3, <1>4, <2>1, <2>2, <2>3 DEF LineInv, TypeOK
<1>6. KeepsThePrefix' /\ MemoryBounded'
  BY <1>2, <1>3, <1>4 DEF KeepsThePrefix, MemoryBounded, Min2
<1>7. QED
  BY <1>5, <1>6 DEF LineInv

\* For every stream and every chunking, the reader is type correct, holds
\* exactly the capped prefix of the current line, and retains bounded memory.
THEOREM ReaderInvariant == Spec => []LineInv
<1>1. Init => LineInv
  <2> SUFFICES ASSUME Init PROVE LineInv
    OBVIOUS
  <2>1. stream \in Seq(Bytes) /\ Len(stream) \in Nat
    BY StreamsAssumption DEF Init
  <2>2. TypeOK
    <3>1. buffer \in Seq(Bytes) /\ lines \in Seq(Outcomes) /\ tail \in Seq(Seq(Symbols))
      BY EmptyLine DEF Init
    <3>2. pos \in 0..Len(stream) /\ scanned \in 0..pos
      BY <2>1 DEF Init
    <3>3. over \in BOOLEAN /\ at \in {"reading", "eof", "failed"}
      BY DEF Init
    <3>4. QED
      BY <2>1, <3>1, <3>2, <3>3 DEF TypeOK
  <2>3. KeepsThePrefix /\ MemoryBounded
    BY <2>1 DEF Init, KeepsThePrefix, MemoryBounded, Min2
  <2>4. QED
    BY <2>2, <2>3 DEF LineInv
<1>2. LineInv /\ [Next]_vars => LineInv'
  <2> SUFFICES ASSUME LineInv, [Next]_vars PROVE LineInv'
    OBVIOUS
  <2>0. /\ Len(stream) \in Nat /\ pos \in Nat /\ scanned \in Nat /\ pos <= Len(stream) /\ scanned <= pos
        /\ Len(buffer) \in Nat
    BY DEF LineInv, TypeOK
  <2>1. CASE ReadPartial
    <3>1. PICK n \in 1..Min2(Fill, Len(stream) - pos) :
             /\ pos' = pos + n
             /\ buffer' = Keep(SubSeq(stream, pos + 1, pos + n))
             /\ scanned' = scanned + n
             /\ over' = IsOver(SubSeq(stream, pos + 1, pos + n))
      BY <2>1 DEF ReadPartial
    <3>2. n \in Nat /\ pos + n <= Len(stream)
      BY <2>0, <3>1 DEF Min2
    <3> DEFINE chunk == SubSeq(stream, pos + 1, pos + n)
    <3>3. /\ Keep(chunk) \in Seq(Bytes)
          /\ Len(Keep(chunk)) = Min2(scanned + n, Limit)
          /\ \A i \in 1..Len(Keep(chunk)) : Keep(chunk)[i] = stream[pos - scanned + i]
          /\ IsOver(chunk) <=> scanned + n > Limit
      BY <3>2, KeepIsPrefix DEF LineInv
    <3>4. /\ buffer' \in Seq(Bytes) /\ Len(buffer') = Min2(scanned', Limit)
          /\ \A i \in 1..Len(buffer') : buffer'[i] = stream[pos - scanned + i]
          /\ over' <=> scanned' > Limit
      BY <3>1, <3>3
    <3>5. over' \in BOOLEAN
      BY <3>1, <2>0 DEF IsOver, LineInv, TypeOK
    <3>6. UNCHANGED <<stream, at, lines, tail>>
      BY <2>1 DEF ReadPartial
    <3>7. pos' \in 0..Len(stream) /\ scanned' \in 0..pos' /\ pos' - scanned' = pos - scanned
      BY <2>0, <3>1, <3>2
    <3>8. TypeOK'
      BY <3>4, <3>5, <3>6, <3>7 DEF LineInv, TypeOK
    <3>9. KeepsThePrefix'
      BY <3>4, <3>6, <3>7 DEF KeepsThePrefix
    <3>10. Len(buffer') <= Limit
      BY <3>4, <3>7, <2>0 DEF Min2
    <3>11. MemoryBounded'
      BY <3>6, <3>10 DEF LineInv, MemoryBounded
    <3>12. QED
      BY <3>8, <3>9, <3>11 DEF LineInv
  <2>2. CASE ReadToNewline
    <3>1. PICK n \in 0..Min2(Fill, Len(stream) - pos) - 1 :
             /\ pos' = pos + n + 1
             /\ Returns(Keep(SubSeq(stream, pos + 1, pos + n)), scanned + n,
                        IsOver(SubSeq(stream, pos + 1, pos + n)))
      BY <2>2 DEF ReadToNewline
    <3>2. n \in Nat /\ pos + n + 1 <= Len(stream)
      BY <2>0, <3>1 DEF Min2
    <3> DEFINE chunk == SubSeq(stream, pos + 1, pos + n)
    <3>3. Keep(chunk) \in Seq(Bytes) /\ Len(Keep(chunk)) = Min2(scanned + n, Limit)
      <4>1. pos + n <= Len(stream)
        BY <3>2, <2>0
      <4>2. QED
        BY <3>2, <4>1, KeepIsPrefix DEF LineInv
    <3>4. Len(Keep(chunk)) <= Limit /\ scanned + n \in Nat /\ pos' \in 0..Len(stream)
      BY <3>1, <3>2, <3>3, <2>0 DEF Min2
    <3>5. IsOver(chunk) \in BOOLEAN
      BY <2>0 DEF IsOver, LineInv, TypeOK
    <3>6. UNCHANGED <<stream, at>>
      BY <2>2 DEF ReadToNewline
    <3> HIDE DEF chunk
    <3>7. QED
      BY <3>1, <3>3, <3>4, <3>5, <3>6, ReturnKeepsInv DEF chunk
  <2>3. CASE ReadFragment
    <3>1. buffer \in Seq(Bytes) /\ Len(buffer) <= Limit /\ over \in BOOLEAN /\ scanned \in Nat
      BY <2>0 DEF LineInv, TypeOK, MemoryBounded
    <3>2. pos' \in 0..Len(stream) /\ UNCHANGED <<stream, at>> /\ Returns(buffer, scanned, over)
      BY <2>0, <2>3 DEF ReadFragment
    <3>3. QED
      BY <3>1, <3>2, ReturnKeepsInv
  <2>4. CASE ReadEof
    BY <2>4 DEF ReadEof, LineInv, TypeOK, KeepsThePrefix, MemoryBounded
  <2>5. CASE ReadFails
    <3>1. TypeOK'
      <4>1. buffer' \in Seq(Bytes)
        BY <2>5, EmptyLine DEF ReadFails
      <4>2. scanned' \in 0..pos'
        BY <2>0, <2>5 DEF ReadFails
      <4>3. over' \in BOOLEAN /\ at' \in {"reading", "eof", "failed"}
        BY <2>5 DEF ReadFails
      <4>4. QED
        BY <2>5, <4>1, <4>2, <4>3 DEF ReadFails, LineInv, TypeOK
    <3>2. KeepsThePrefix' /\ MemoryBounded'
      BY <2>5 DEF ReadFails, LineInv, KeepsThePrefix, MemoryBounded, Min2
    <3>3. QED
      BY <3>1, <3>2 DEF LineInv
  <2>6. CASE UNCHANGED vars
    BY <2>6 DEF vars, LineInv, TypeOK, KeepsThePrefix, MemoryBounded
  <2>7. QED
    BY <2>1, <2>2, <2>3, <2>4, <2>5, <2>6 DEF Next
<1>3. QED
  BY <1>1, <1>2, PTL DEF Spec

\* read_bounded_line keeps the first Limit bytes of a line, whatever its length
\* and however it arrives, and knows exactly whether there were more.
THEOREM PrefixIsKept == Spec => []KeepsThePrefix
  BY ReaderInvariant, PTL DEF LineInv

\* Whatever a worker writes, UTF-8 or not, the host buffers at most Limit bytes
\* of a line, makes a text of at most three times as many bytes of them, and
\* retains at most Retain such stderr texts with at most one marker each.
THEOREM RetentionIsBounded == Spec => []MemoryBounded
  BY ReaderInvariant, PTL DEF LineInv

(***************************************************************************)
(* Framing.  Between two reads the reader stands behind a line end with as *)
(* many lines returned as there are line ends up to it; within a line it   *)
(* has seen no newline since that end.  Only behind a last fragment does   *)
(* it stand at EOF with nothing left to return.                            *)
(***************************************************************************)
InLine ==
    /\ pos - scanned \in LineEnds \cup {0}
    /\ Len(lines) = Cardinality(EndsUpTo(pos - scanned))
    /\ \A i \in (pos - scanned + 1)..pos : stream[i] # LF

AllRead ==
    /\ pos = Len(stream)
    /\ scanned = 0
    /\ Len(lines) = Cardinality(LineEnds)

FrameInv == StaysFramed /\ (at = "reading" => InLine \/ AllRead)

\* The line ends are finitely many positions, 1 to one past the last byte.
LEMMA EndsFinite ==
    ASSUME stream \in Seq(Bytes)
    PROVE  /\ Len(stream) \in Nat
           /\ LineEnds \subseteq 1..(Len(stream) + 1)
           /\ IsFiniteSet(LineEnds)
           /\ \A e : IsFiniteSet(EndsUpTo(e)) /\ Cardinality(EndsUpTo(e)) \in Nat
<1>1. Len(stream) \in Nat
  OBVIOUS
<1>2. LineEnds \subseteq 1..(Len(stream) + 1)
  BY <1>1 DEF LineEnds
<1>3. IsFiniteSet(1..(Len(stream) + 1))
  <2>1. 1 \in Int /\ Len(stream) + 1 \in Int
    BY <1>1
  <2>2. QED
    BY <2>1, FS_Interval
<1>4. IsFiniteSet(LineEnds)
  BY <1>2, <1>3, FS_Subset
<1>5. ASSUME NEW e PROVE IsFiniteSet(EndsUpTo(e)) /\ Cardinality(EndsUpTo(e)) \in Nat
  <2>1. EndsUpTo(e) \in SUBSET LineEnds
    BY DEF EndsUpTo
  <2>2. QED
    BY <1>4, <2>1, FS_Subset, FS_CardinalityType
<1>6. QED
  BY <1>1, <1>2, <1>4, <1>5

\* The byte positions that end a line, and the one behind EOF that may.
LEMMA EndsMembers ==
    ASSUME stream \in Seq(Bytes)
    PROVE  /\ \A i \in 1..Len(stream) : i \in LineEnds <=> stream[i] = LF
           /\ Len(stream) + 1 \in LineEnds <=>
                 Len(stream) # 0 /\ stream[Len(stream)] # LF
<1>1. Len(stream) \in Nat /\ (stream # <<>> <=> Len(stream) # 0)
  OBVIOUS
<1>2. \A i \in 1..Len(stream) : i # Len(stream) + 1
  BY <1>1
<1>3. Len(stream) + 1 \notin 1..Len(stream)
  BY <1>1
<1>4. QED
  BY <1>1, <1>2, <1>3 DEF LineEnds

\* When no line ends strictly between p and e, the line that ends at e is the
\* next one behind p.
LEMMA NextLine ==
    ASSUME stream \in Seq(Bytes), NEW p \in LineEnds \cup {0}, NEW e \in LineEnds, p < e,
           \A i \in LineEnds : ~(p < i /\ i < e)
    PROVE  IsLine(Cardinality(EndsUpTo(p)) + 1, p, e)
<1>1. Len(stream) \in Nat /\ LineEnds \subseteq 1..(Len(stream) + 1)
  BY EndsFinite
<1>2. p \in Nat /\ e \in Nat /\ \A i \in LineEnds : i \in Nat
  BY <1>1
<1>3. ASSUME NEW i \in LineEnds PROVE i <= e <=> (i <= p \/ i = e)
  BY <1>2
<1>4. EndsUpTo(e) = EndsUpTo(p) \cup {e}
  BY <1>3 DEF EndsUpTo
<1>5. e \notin EndsUpTo(p)
  BY <1>2 DEF EndsUpTo
<1>6. Cardinality(EndsUpTo(e)) = Cardinality(EndsUpTo(p)) + 1
  <2>1. IsFiniteSet(EndsUpTo(p))
    BY EndsFinite
  <2>2. Cardinality(EndsUpTo(p) \cup {e}) = Cardinality(EndsUpTo(p)) + 1
    BY <1>5, <2>1, FS_AddElement
  <2>3. QED
    BY <1>4, <2>2
<1>7. QED
  BY <1>4, <1>6 DEF IsLine

\* Every line end lies behind an end that is the last possible one.
LEMMA LastLine ==
    ASSUME stream \in Seq(Bytes), NEW e, e = Len(stream) + 1 \/ (e = Len(stream) /\ e \in LineEnds \cup {0})
    PROVE  EndsUpTo(e) = LineEnds
<1>1. Len(stream) \in Nat /\ LineEnds \subseteq 1..(Len(stream) + 1)
  BY EndsFinite
<1>2. CASE e = Len(stream) + 1
  <2>1. \A i \in LineEnds : i <= e
    BY <1>1, <1>2
  <2>2. QED
    BY <2>1 DEF EndsUpTo
<1>3. CASE e = Len(stream) /\ e \in LineEnds \cup {0}
  <2>1. Len(stream) + 1 \notin LineEnds
    <3>1. CASE Len(stream) = 0
      BY <3>1, EndsMembers
    <3>2. CASE Len(stream) # 0
      <4>1. Len(stream) \in 1..Len(stream) /\ Len(stream) \in LineEnds
        BY <1>1, <1>3, <3>2
      <4>2. QED
        BY <4>1, EndsMembers
    <3>3. QED
      BY <3>1, <3>2
  <2>2. \A i \in LineEnds : i <= e
    BY <1>1, <1>3, <2>1
  <2>3. QED
    BY <2>2 DEF EndsUpTo
<1>4. QED
  BY <1>2, <1>3

\* A line that ends after n more bytes is kept as the reference keeps it.
LEMMA KeepIsExpected ==
    ASSUME TypeOK, NEW b \in Seq(Bytes), NEW n \in Nat, pos - scanned + n <= Len(stream),
           Len(b) = Min2(n, Limit), NEW o \in BOOLEAN, o <=> n > Limit,
           \A i \in 1..Len(b) : b[i] = stream[pos - scanned + i],
           NEW e, e = pos - scanned + n + 1
    PROVE  Outcome(b, n, o) = Expected(pos - scanned, e)
<1> DEFINE p == pos - scanned
           m == Min2(n, Limit)
           ref == SubSeq(stream, p + 1, p + m)
<1>1. /\ Len(stream) \in Nat /\ p \in Nat /\ m \in Nat /\ m <= n
      /\ p + m <= Len(stream) /\ e - p - 1 = n /\ stream \in Seq(Bytes)
  <2>1. Len(stream) \in Nat /\ pos \in Nat /\ scanned \in Nat /\ scanned <= pos /\ stream \in Seq(Bytes)
    BY DEF TypeOK
  <2>2. m \in Nat /\ m <= n
    BY DEF Min2
  <2> HIDE DEF m
  <2>3. QED
    BY <2>1, <2>2
<1>2. Len(b) = m /\ \A i \in 1..Len(b) : b[i] = stream[p + i]
  OBVIOUS
<1>3. Expected(p, e) = [text |-> FromUtf8Lossy(TrimCR(ref)), scanned |-> n, oversized |-> n > Limit]
  <2>1. e - p - 1 = n
    BY <1>1
  <2> HIDE DEF p
  <2>2. QED
    BY <2>1 DEF Expected
<1> HIDE DEF p, m
<1>4. ref \in Seq(Bytes) /\ Len(ref) = m /\ \A i \in 1..m : ref[i] = stream[p + i]
  BY <1>1, SegmentProperties
<1> HIDE DEF ref
<1>5. b = ref
  <2>1. Len(b) = Len(ref) /\ \A i \in 1..Len(b) : b[i] = ref[i]
    BY <1>2, <1>4
  <2>2. QED
    BY <1>4, <2>1, SeqEqual
<1>6. o = (n > Limit)
  <2>1. (n > Limit) \in BOOLEAN
    BY <1>1
  <2>2. QED
    BY <2>1
<1>7. Outcome(b, n, o) = [text |-> FromUtf8Lossy(TrimCR(ref)), scanned |-> n, oversized |-> n > Limit]
  BY <1>5, <1>6 DEF Outcome
<1>8. QED
  BY <1>3, <1>7 DEF p

\* Returning the line behind the ones returned so far keeps the stream framed.
LEMMA ReturnStaysFramed ==
    ASSUME TypeOK, StaysFramed, at = "reading", UNCHANGED <<stream, at>>,
           NEW p \in Nat, NEW e \in Nat,
           IsLine(Len(lines) + 1, p, e),
           lines' = Append(lines, Expected(p, e)), Expected(p, e) \in Outcomes
    PROVE  StaysFramed'
<1>1. stream \in Seq(Bytes) /\ Len(stream) \in Nat /\ lines \in Seq(Outcomes) /\ Len(lines) \in Nat
  BY DEF TypeOK
<1>2. /\ Len(lines') = Len(lines) + 1
      /\ \A k \in 1..Len(lines) : lines'[k] = lines[k]
      /\ lines'[Len(lines) + 1] = Expected(p, e)
  BY <1>1, AppendProperties
<1>3. p \in 0..(Len(stream) + 1) /\ e \in 0..(Len(stream) + 1)
  BY <1>1, EndsFinite DEF IsLine
<1>4. /\ \A k, q, f : IsLine(k, q, f)' <=> IsLine(k, q, f)
      /\ \A q, f : Expected(q, f)' = Expected(q, f)
  BY DEF IsLine, EndsUpTo, LineEnds, Expected
<1>5. ASSUME NEW k \in 1..Len(lines')
      PROVE  \E q, f \in 0..(Len(stream) + 1) : IsLine(k, q, f) /\ lines'[k] = Expected(q, f)
  <2>1. CASE k \in 1..Len(lines)
    BY <2>1, <1>2 DEF StaysFramed
  <2>2. CASE k = Len(lines) + 1
    BY <2>2, <1>2, <1>3
  <2>3. k \in 1..Len(lines) \/ k = Len(lines) + 1
    BY <1>1, <1>2
  <2>4. QED
    BY <2>1, <2>2, <2>3
<1>6. \A k \in 1..Len(lines') : \E q, f \in 0..(Len(stream') + 1) : IsLine(k, q, f)' /\ lines'[k] = Expected(q, f)'
  BY <1>4, <1>5
<1>7. at' # "eof"
  OBVIOUS
<1>8. QED
  BY <1>6, <1>7 DEF StaysFramed

\* Each step keeps the stream framed, given what the reader keeps of a line.
LEMMA FrameStep ==
    ASSUME LineInv, FrameInv, [Next]_vars
    PROVE  FrameInv'
<1>0. /\ Len(stream) \in Nat /\ pos \in Nat /\ scanned \in Nat /\ pos <= Len(stream) /\ scanned <= pos
      /\ stream \in Seq(Bytes) /\ buffer \in Seq(Bytes) /\ over \in BOOLEAN
      /\ Len(lines) \in Nat /\ lines \in Seq(Outcomes) /\ TypeOK /\ KeepsThePrefix
      /\ StaysFramed /\ (at = "reading" => InLine \/ AllRead)
  BY DEF LineInv, TypeOK, FrameInv
<1>e. /\ LineEnds \subseteq 1..(Len(stream) + 1)
      /\ \A i \in 1..Len(stream) : i \in LineEnds <=> stream[i] = LF
      /\ Len(stream) + 1 \in LineEnds <=> Len(stream) # 0 /\ stream[Len(stream)] # LF
  BY <1>0, EndsFinite, EndsMembers
<1>u. ASSUME UNCHANGED stream
      PROVE  LineEnds' = LineEnds /\ \A e : EndsUpTo(e)' = EndsUpTo(e)
  BY <1>u DEF LineEnds, EndsUpTo
<1>s. ASSUME UNCHANGED <<stream, lines>>, at' = "eof" => Len(lines) = Cardinality(LineEnds)
      PROVE  StaysFramed'
  <2>1. /\ \A k, q, f : IsLine(k, q, f)' <=> IsLine(k, q, f)
        /\ \A q, f : Expected(q, f)' = Expected(q, f)
    BY <1>s DEF IsLine, EndsUpTo, LineEnds, Expected
  <2>2. LineEnds' = LineEnds
    BY <1>s, <1>u
  <2>3. QED
    BY <1>0, <1>s, <2>1, <2>2 DEF StaysFramed
<1>1. CASE ReadPartial
  <2>1. PICK n \in 1..Min2(Fill, Len(stream) - pos) :
           /\ \A i \in 1..n : SubSeq(stream, pos + 1, pos + n)[i] # LF
           /\ pos' = pos + n
           /\ scanned' = scanned + n
    BY <1>1 DEF ReadPartial
  <2>2. at = "reading" /\ UNCHANGED <<stream, at, lines>>
    BY <1>1 DEF ReadPartial
  <2>3. n \in Nat /\ n >= 1 /\ pos + n <= Len(stream)
    BY <1>0, <2>1 DEF Min2
  <2>4. \A i \in 1..n : stream[pos + i] # LF
    <3>1. \A i \in 1..n : SubSeq(stream, pos + 1, pos + n)[i] = stream[pos + i]
      BY <1>0, <2>3, SegmentProperties
    <3>2. QED
      BY <2>1, <3>1
  <2>5. InLine
    BY <1>0, <2>2, <2>3 DEF AllRead
  <2>6. pos' - scanned' = pos - scanned
    BY <1>0, <2>1, <2>3
  <2>7. ASSUME NEW i \in (pos - scanned + 1)..pos' PROVE stream[i] # LF
    <3>1. CASE i <= pos
      BY <3>1, <2>5, <1>0 DEF InLine
    <3>2. CASE ~(i <= pos)
      <4>1. i - pos \in 1..n /\ pos + (i - pos) = i
        BY <3>2, <2>1, <2>3, <1>0
      <4>2. QED
        BY <4>1, <2>4
    <3>3. QED
      BY <3>1, <3>2
  <2>8. InLine'
    BY <2>2, <2>5, <2>6, <2>7, <1>u DEF InLine
  <2>9. QED
    BY <1>s, <2>2, <2>8 DEF FrameInv
<1>2. CASE ReadToNewline
  <2>1. PICK n \in 0..Min2(Fill, Len(stream) - pos) - 1 :
           /\ stream[pos + n + 1] = LF
           /\ \A i \in 1..n : SubSeq(stream, pos + 1, pos + n)[i] # LF
           /\ pos' = pos + n + 1
           /\ Returns(Keep(SubSeq(stream, pos + 1, pos + n)), scanned + n,
                      IsOver(SubSeq(stream, pos + 1, pos + n)))
    BY <1>2 DEF ReadToNewline
  <2>2. at = "reading" /\ UNCHANGED <<stream, at>>
    BY <1>2 DEF ReadToNewline
  <2>3. n \in Nat /\ pos + n <= Len(stream) /\ pos + n + 1 <= Len(stream)
    BY <1>0, <2>1 DEF Min2
  <2> DEFINE chunk == SubSeq(stream, pos + 1, pos + n)
             p == pos - scanned
             e == pos + n + 1
  <2>4. \A i \in 1..n : stream[pos + i] # LF
    <3>1. \A i \in 1..n : SubSeq(stream, pos + 1, pos + n)[i] = stream[pos + i]
      BY <1>0, <2>3, SegmentProperties
    <3>2. QED
      BY <2>1, <3>1
  <2>5. InLine
    BY <1>0, <2>2, <2>3 DEF AllRead
  <2>6. p \in Nat /\ e \in 1..Len(stream) /\ e \in Nat /\ p < e /\ e \in LineEnds
    BY <1>0, <1>e, <2>1, <2>3
  <2>7. ASSUME NEW i \in LineEnds, p < i, i < e PROVE FALSE
    <3>1. i \in 1..Len(stream) /\ stream[i] = LF
      BY <2>6, <2>7, <1>e, <1>0
    <3>2. CASE i <= pos
      BY <3>1, <3>2, <2>7, <2>5, <1>0 DEF InLine
    <3>3. CASE ~(i <= pos)
      <4>1. i - pos \in 1..n /\ pos + (i - pos) = i
        BY <3>1, <3>3, <2>3, <2>7, <1>0
      <4>2. QED
        BY <4>1, <2>4, <3>1
    <3>4. QED
      BY <3>1, <3>2, <3>3
  <2>8. p \in LineEnds \cup {0} /\ Len(lines) = Cardinality(EndsUpTo(p))
    BY <2>5 DEF InLine
  <2>9. IsLine(Len(lines) + 1, p, e)
    <3> HIDE DEF p, e
    <3> QED
      BY <1>0, <2>6, <2>7, <2>8, NextLine
  <2>10. /\ Keep(chunk) \in Seq(Bytes)
         /\ Len(Keep(chunk)) = Min2(scanned + n, Limit)
         /\ \A i \in 1..Len(Keep(chunk)) : Keep(chunk)[i] = stream[pos - scanned + i]
         /\ IsOver(chunk) <=> scanned + n > Limit
    BY <1>0, <2>3, KeepIsPrefix
  <2>11. IsOver(chunk) \in BOOLEAN
    BY <1>0 DEF IsOver
  <2>12. /\ scanned + n \in Nat /\ pos - scanned + (scanned + n) <= Len(stream)
         /\ e = pos - scanned + (scanned + n) + 1
    BY <1>0, <2>3
  <2>13. Outcome(Keep(chunk), scanned + n, IsOver(chunk)) = Expected(p, e)
    <3> HIDE DEF chunk, e
    <3> QED
      BY <1>0, <2>10, <2>11, <2>12, KeepIsExpected DEF p
  <2>14. Outcome(Keep(chunk), scanned + n, IsOver(chunk)) \in Outcomes
    <3> HIDE DEF chunk
    <3> QED
      <4>1. Len(Keep(chunk)) <= Limit
        BY <2>10, <2>12 DEF Min2
      <4>2. QED
        BY <2>10, <2>11, <2>12, <4>1, TextBounded
  <2>15. lines' = Append(lines, Expected(p, e)) /\ scanned' = 0 /\ pos' = e
    BY <2>1, <2>13 DEF Returns
  <2> HIDE DEF p, e, chunk
  <2>16. StaysFramed'
    BY <1>0, <2>2, <2>6, <2>9, <2>13, <2>14, <2>15, ReturnStaysFramed
  <2>17. InLine'
    <3>1. pos' - scanned' = e
      BY <2>6, <2>15
    <3>2. Len(lines') = Len(lines) + 1
      BY <1>0, <2>13, <2>14, <2>15, AppendProperties
    <3>3. Len(lines') = Cardinality(EndsUpTo(e))
      BY <2>9, <3>2 DEF IsLine
    <3>4. e + 1 > pos'
      BY <2>6, <2>15
    <3>5. \A i \in (e + 1)..pos' : FALSE
      BY <2>6, <2>15
    <3>6. QED
      BY <2>2, <2>6, <3>1, <3>3, <3>5, <1>u DEF InLine
  <2>18. QED
    BY <2>16, <2>17 DEF FrameInv
<1>3. CASE ReadFragment
  <2>1. /\ at = "reading" /\ pos = Len(stream) /\ scanned # 0
        /\ Returns(buffer, scanned, over) /\ UNCHANGED <<stream, pos, at>>
    BY <1>3 DEF ReadFragment
  <2> DEFINE p == pos - scanned
             e == Len(stream) + 1
  <2>2. InLine
    BY <1>0, <2>1 DEF AllRead
  <2>3. Len(stream) # 0 /\ stream[Len(stream)] # LF
    BY <1>0, <2>1, <2>2 DEF InLine
  <2>4. p \in Nat /\ e \in Nat /\ p < e /\ e \in LineEnds
    BY <1>0, <1>e, <2>1, <2>3
  <2>5. ASSUME NEW i \in LineEnds, p < i, i < e PROVE FALSE
    <3>1. i \in 1..Len(stream) /\ stream[i] = LF /\ i \in (pos - scanned + 1)..pos
      BY <1>e, <1>0, <2>1, <2>5
    <3>2. QED
      BY <3>1, <2>2 DEF InLine
  <2>6. p \in LineEnds \cup {0} /\ Len(lines) = Cardinality(EndsUpTo(p))
    BY <2>2 DEF InLine
  <2>7. IsLine(Len(lines) + 1, p, e)
    <3> HIDE DEF p, e
    <3> QED
      BY <1>0, <2>4, <2>5, <2>6, NextLine
  <2>8. /\ Len(buffer) = Min2(scanned, Limit) /\ (over <=> scanned > Limit)
        /\ \A i \in 1..Len(buffer) : buffer[i] = stream[pos - scanned + i]
    BY <1>0 DEF KeepsThePrefix
  <2>9. pos - scanned + scanned <= Len(stream) /\ e = pos - scanned + scanned + 1
    BY <1>0, <2>1
  <2>10. Outcome(buffer, scanned, over) = Expected(p, e)
    <3> HIDE DEF e
    <3> QED
      BY <1>0, <2>8, <2>9, KeepIsExpected DEF p
  <2>11. Outcome(buffer, scanned, over) \in Outcomes
    BY <1>0, <2>8, TextBounded DEF Min2
  <2>12. lines' = Append(lines, Expected(p, e)) /\ scanned' = 0
    BY <2>1, <2>10 DEF Returns
  <2> HIDE DEF p
  <2>13. StaysFramed'
    <3> HIDE DEF e
    <3> QED
      BY <1>0, <2>1, <2>4, <2>7, <2>10, <2>11, <2>12, ReturnStaysFramed
  <2>14. Len(lines') = Len(lines) + 1
    BY <1>0, <2>10, <2>11, <2>12, AppendProperties
  <2>15. Len(lines') = Cardinality(LineEnds)
    BY <1>0, <2>7, <2>14, LastLine DEF IsLine
  <2>16. AllRead'
    BY <2>1, <2>12, <2>15, <1>u DEF AllRead
  <2>17. QED
    BY <2>13, <2>16 DEF FrameInv
<1>4. CASE ReadEof
  <2>1. at = "reading" /\ pos = Len(stream) /\ scanned = 0 /\ at' = "eof" /\ UNCHANGED <<stream, lines>>
    BY <1>4 DEF ReadEof
  <2>2. Len(lines) = Cardinality(LineEnds)
    <3>1. CASE AllRead
      BY <3>1 DEF AllRead
    <3>2. CASE InLine
      <4>1. pos - scanned = Len(stream)
        BY <1>0, <2>1
      <4>2. QED
        BY <1>0, <3>2, <4>1, LastLine DEF InLine
    <3>3. QED
      BY <1>0, <2>1, <3>1, <3>2
  <2>3. QED
    BY <1>s, <2>1, <2>2 DEF FrameInv
<1>5. CASE ReadFails
  <2>1. at' = "failed" /\ UNCHANGED <<stream, lines>>
    BY <1>5 DEF ReadFails
  <2>2. QED
    BY <1>s, <2>1 DEF FrameInv
<1>6. CASE UNCHANGED vars
  <2>1. UNCHANGED <<stream, pos, scanned, at, lines>>
    BY <1>6 DEF vars
  <2>2. StaysFramed'
    BY <1>0, <1>s, <2>1 DEF StaysFramed
  <2>3. (InLine \/ AllRead) => (InLine \/ AllRead)'
    BY <2>1, <1>u DEF InLine, AllRead
  <2>4. QED
    BY <1>0, <2>1, <2>2, <2>3 DEF FrameInv
<1>7. QED
  BY <1>1, <1>2, <1>3, <1>4, <1>5, <1>6 DEF Next

\* "the stream stays framed": for every stream, every cap and every chunking,
\* read_bounded_line returns the lines of the stream, cut to the cap, each once
\* and in order, also behind a line that was cut, and by EOF all of them.
THEOREM StreamStaysFramed == Spec => []StaysFramed
<1>1. Init => FrameInv
  <2> SUFFICES ASSUME Init PROVE FrameInv
    OBVIOUS
  <2>1. stream \in Seq(Bytes) /\ Len(stream) \in Nat
    BY StreamsAssumption DEF Init
  <2>2. EndsUpTo(0) = {}
    BY <2>1, EndsFinite DEF EndsUpTo
  <2>3. pos - scanned = 0 /\ Len(lines) = 0 /\ pos = 0 /\ at = "reading"
    BY DEF Init
  <2>4. StaysFramed
    BY <2>3 DEF StaysFramed
  <2>5. InLine
    BY <2>2, <2>3, FS_EmptySet DEF InLine
  <2>6. QED
    BY <2>4, <2>5 DEF FrameInv
<1>2. LineInv /\ FrameInv /\ [Next]_vars => FrameInv'
  BY FrameStep
<1>3. FrameInv => StaysFramed
  BY DEF FrameInv
<1>4. QED
  BY <1>1, <1>2, <1>3, ReaderInvariant, PTL DEF Spec
=============================================================================
