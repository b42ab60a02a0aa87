------------------------ MODULE MessageFraming_proofs ------------------------
(* What filter_message makes of a stream is the messages of the client,    *)
(* for any messages and wherever the stream is cut, unless a heart beat is *)
(* cut behind its mark.                                                    *)
EXTENDS MessageFraming, SequenceTheorems, WellFoundedInduction, TLAPS

-----------------------------------------------------------------------------
(* Where the messages of a stream end.                                     *)

\* Every set of numbers has a least one: what follows is proved by looking at
\* the first message for which it might fail.
LEMMA NatMin ==
  ASSUME NEW T \in SUBSET Nat, T # {}
  PROVE  \E n \in T : \A m \in T : n <= m
<1> DEFINE R == OpToRel(<, Nat)
<1>1. IsWellFoundedOn(R, Nat)
  BY NatLessThanWellFounded
<1>2. \A m, n \in Nat : m < n => <<m, n>> \in R
  BY DEF OpToRel
<1> HIDE DEF R
<1>3. \E n \in T : \A m \in T : ~ (<<m, n>> \in R)
  BY <1>1, WFMin
<1>4. PICK n \in T : \A m \in T : ~ (<<m, n>> \in R)
  BY <1>3
<1>5. n \in Nat /\ \A m \in T : m \in Nat /\ ~(m < n)
  BY <1>2, <1>4
<1>6. QED
  BY <1>5

LEMMA MessageFacts ==
  /\ \A m \in Messages : m.size \in Nat /\ m.size > MarkSize
  /\ \A m \in Messages : m.mark \in {"trans", "beat", "unknown"}
  /\ \A m \in Messages : m.mark = "trans" => m.size >= HeaderSize
  /\ \A m \in Messages : m.mark = "beat" => m.size = HeartBeatSize
BY FramingAssumption DEF Messages, MarkSize

\* Positions up to which the ends of the first messages are defined.
EndsUpTo(n, e) == e = [i \in 0..n |-> IF i = 0 THEN 0 ELSE e[i - 1] + stream[i].size]

LEMMA EndsExist ==
  ASSUME stream \in Seq(Messages), NEW n \in 0..Len(stream)
  PROVE  \E e : EndsUpTo(n, e)
<1> DEFINE T == {k \in 0..Len(stream) : ~ \E e : EndsUpTo(k, e)}
<1>0. Len(stream) \in Nat
  BY LenProperties
<1> SUFFICES ASSUME T # {} PROVE FALSE
  BY <1>0
<1>a. T \in SUBSET Nat
  BY <1>0
<1>1. PICK k \in T : \A m \in T : k <= m
  BY <1>a, NatMin
<1>2. k \in 0..Len(stream) /\ k \in Nat
  BY <1>0, <1>1
<1>3. k # 0
  <2> DEFINE e == [i \in 0..0 |-> 0]
  <2>1. EndsUpTo(0, e)
    BY DEF EndsUpTo
  <2>2. QED
    BY <1>1, <2>1
<1>4. k - 1 \in 0..Len(stream) /\ k - 1 \notin T
  BY <1>0, <1>1, <1>2, <1>3
<1>5. PICK e : EndsUpTo(k - 1, e)
  BY <1>4
<1> DEFINE f == [i \in 0..k |-> IF i = k THEN e[k - 1] + stream[k].size ELSE e[i]]
<1>6. EndsUpTo(k, f)
  <2>1. \A i \in 0..k : i # k => i \in 0..(k - 1)
    BY <1>2
  <2>2. ASSUME NEW i \in 0..k
        PROVE  f[i] = IF i = 0 THEN 0 ELSE f[i - 1] + stream[i].size
    <3>1. CASE i = k
      <4>1. k - 1 \in 0..k /\ k - 1 # k
        BY <1>2, <1>3
      <4>2. QED
        BY <1>3, <3>1, <4>1
    <3>2. CASE i # k
      <4>1. i \in 0..(k - 1) /\ (i # 0 => i - 1 \in 0..k /\ i - 1 # k)
        BY <1>2, <3>2
      <4>2. e[i] = IF i = 0 THEN 0 ELSE e[i - 1] + stream[i].size
        BY <1>5, <4>1 DEF EndsUpTo
      <4>3. QED
        BY <3>2, <4>1, <4>2
    <3>3. QED
      BY <3>1, <3>2
  <2> HIDE DEF f
  <2>3. f = [i \in 0..k |-> f[i]]
    BY DEF f
  <2>4. QED
    BY <2>2, <2>3 DEF EndsUpTo
<1> HIDE DEF f
<1>7. QED
  BY <1>1, <1>6

LEMMA EndsDef ==
  ASSUME stream \in Seq(Messages)
  PROVE  /\ Ends[0] = 0
         /\ \A i \in 1..Len(stream) : Ends[i] = Ends[i - 1] + stream[i].size
<1>0. Len(stream) \in Nat
  BY LenProperties
<1>1. \E e : EndsUpTo(Len(stream), e)
  BY <1>0, EndsExist
<1>2. Ends = CHOOSE e : EndsUpTo(Len(stream), e)
  BY DEF Ends, EndsUpTo
<1>3. EndsUpTo(Len(stream), Ends)
  BY <1>1, <1>2
<1>4. ASSUME NEW i \in 0..Len(stream)
      PROVE  Ends[i] = IF i = 0 THEN 0 ELSE Ends[i - 1] + stream[i].size
  BY <1>3 DEF EndsUpTo
<1>5. QED
  BY <1>0, <1>4

LEMMA EndsGrow ==
  ASSUME stream \in Seq(Messages)
  PROVE  /\ \A i \in 0..Len(stream) : Ends[i] \in Nat
         /\ \A i, j \in 0..Len(stream) : i < j => Ends[i] < Ends[j]
         /\ Total \in Nat /\ Total = Ends[Len(stream)] /\ Len(stream) \in Nat
<1>0. Len(stream) \in Nat
  BY LenProperties
<1>1. \A i \in 1..Len(stream) : stream[i].size \in Nat /\ stream[i].size > 2
  BY ElementOfSeq, MessageFacts DEF MarkSize
<1>2. Ends[0] = 0 /\ \A i \in 1..Len(stream) : Ends[i] = Ends[i - 1] + stream[i].size
  BY EndsDef
<1>3. \A i \in 0..Len(stream) : Ends[i] \in Nat
  <2> DEFINE T == {k \in 0..Len(stream) : Ends[k] \notin Nat}
  <2> SUFFICES ASSUME T # {} PROVE FALSE
    OBVIOUS
  <2>1. T \in SUBSET Nat
    BY <1>0
  <2>2. PICK k \in T : \A m \in T : k <= m
    BY <2>1, NatMin
  <2>3. k \in 0..Len(stream) /\ k # 0 /\ Ends[k] \notin Nat
    BY <1>2, <2>2
  <2>4. k - 1 \in 0..Len(stream) /\ k \in 1..Len(stream) /\ k - 1 \notin T
    BY <1>0, <2>2, <2>3
  <2>5. QED
    BY <1>1, <1>2, <2>3, <2>4
<1>4. ASSUME NEW i \in 0..Len(stream), NEW j \in 0..Len(stream), i < j
      PROVE  Ends[i] < Ends[j]
  <2> DEFINE T == {k \in 0..Len(stream) : i < k /\ ~(Ends[i] < Ends[k])}
  <2> SUFFICES ASSUME T # {} PROVE FALSE
    BY <1>4
  <2>1. T \in SUBSET Nat
    BY <1>0
  <2>2. PICK k \in T : \A m \in T : k <= m
    BY <2>1, NatMin
  <2>3. k \in 0..Len(stream) /\ i < k /\ ~(Ends[i] < Ends[k])
    BY <2>2
  <2>4. k - 1 \in 0..Len(stream) /\ k \in 1..Len(stream) /\ i <= k - 1 /\ k - 1 \notin T
    BY <1>0, <2>2, <2>3
  <2>5. i = k - 1 \/ Ends[i] < Ends[k - 1]
    BY <1>0, <2>4
  <2>6. Ends[k] = Ends[k - 1] + stream[k].size /\ stream[k].size \in Nat /\ stream[k].size > 2
    BY <1>1, <1>2, <2>4
  <2>7. Ends[i] \in Nat /\ Ends[k - 1] \in Nat /\ Ends[k] \in Nat
    BY <1>3, <2>3, <2>4
  <2>8. QED
    BY <2>3, <2>5, <2>6, <2>7
<1>5. QED
  BY <1>0, <1>3, <1>4 DEF Total

\* A position belongs to one message.
LEMMA Located ==
  ASSUME stream \in Seq(Messages), NEW i \in 0..(Len(stream) - 1), NEW q \in Nat,
         q > 0, q <= stream[i + 1].size
  PROVE  MessageAt(Ends[i] + q) = i + 1 /\ IndexAt(Ends[i] + q) = q
<1>0. Len(stream) \in Nat /\ i + 1 \in 1..Len(stream) /\ i \in 0..Len(stream)
  BY LenProperties
<1>1. stream[i + 1].size \in Nat /\ Ends[i + 1] = Ends[i] + stream[i + 1].size
  <2>1. Ends[i + 1] = Ends[(i + 1) - 1] + stream[i + 1].size
    BY <1>0, EndsDef
  <2>2. stream[i + 1].size \in Nat
    BY <1>0, ElementOfSeq, MessageFacts
  <2>3. QED
    BY <2>1, <2>2
<1>2. Ends[i] \in Nat
  BY <1>0, EndsGrow
<1> DEFINE p == Ends[i] + q
           At(k) == Ends[k - 1] < p /\ p <= Ends[k]
<1>3. At(i + 1)
  BY <1>1, <1>2
<1>4. ASSUME NEW k \in 1..Len(stream), At(k) PROVE k = i + 1
  <2>1. k - 1 \in 0..Len(stream) /\ k \in 0..Len(stream) /\ i + 1 \in 0..Len(stream)
    BY <1>0
  <2>2. Ends[k - 1] \in Nat /\ Ends[k] \in Nat
    BY <2>1, EndsGrow
  <2>3. CASE k < i + 1
    <3>1. k = i \/ k < i
      BY <2>3, <1>0
    <3>2. Ends[k] <= Ends[i]
      BY <3>1, <1>0, <1>2, <2>1, <2>2, EndsGrow
    <3>3. QED
      BY <1>2, <1>4, <2>2, <3>2
  <2>4. CASE i + 1 < k
    <3>1. i + 1 = k - 1 \/ i + 1 < k - 1
      BY <2>4, <1>0
    <3>2. Ends[i + 1] \in Nat /\ Ends[i + 1] <= Ends[k - 1]
      BY <3>1, <1>0, <1>1, <1>2, <2>1, <2>2, EndsGrow
    <3>3. QED
      BY <1>1, <1>2, <1>4, <2>2, <3>2
  <2>5. QED
    BY <1>0, <2>3, <2>4
<1>5. MessageAt(p) = CHOOSE k \in 1..Len(stream) : At(k)
  BY DEF MessageAt
<1> HIDE DEF At
<1>6. MessageAt(p) = i + 1
  BY <1>0, <1>3, <1>4, <1>5
<1>7. IndexAt(p) = p - Ends[i]
  BY <1>0, <1>6 DEF IndexAt
<1>8. QED
  BY <1>2, <1>6, <1>7

-----------------------------------------------------------------------------
(* Consecutive positions.                                                  *)

LEMMA SpanFacts ==
  ASSUME NEW p \in Nat, NEW m \in Nat
  PROVE  /\ Len(Span(p + 1, m)) = m /\ \A j \in 1..m : Span(p + 1, m)[j] = p + j
         /\ Span(p + 1, m) \in Seq(Nat)
<1>1. Span(p + 1, m) = [j \in 1..m |-> p + 1 + j - 1]
  BY DEF Span
<1>2. \A j \in 1..m : p + 1 + j - 1 = p + j /\ p + j \in Nat
  OBVIOUS
<1>3. Span(p + 1, m) \in [1..m -> Nat]
  BY <1>1, <1>2
<1>4. Span(p + 1, m) \in Seq(Nat) /\ Len(Span(p + 1, m)) = m
  BY <1>3
<1>5. QED
  BY <1>1, <1>2, <1>4

LEMMA SpanEmpty ==
  ASSUME NEW p \in Nat
  PROVE  Span(p + 1, 0) = <<>>
<1> DEFINE a == Span(p + 1, 0)
<1>1. a \in Seq(Nat) /\ Len(a) = 0
  BY SpanFacts
<1> HIDE DEF a
<1>2. a = <<>>
  BY <1>1, EmptySeq
<1>3. QED
  BY <1>2 DEF a

\* A sequence of consecutive positions is told by where it starts.
LEMMA IsSpan ==
  ASSUME NEW b \in Seq(Nat), NEW p \in Nat, NEW m \in Nat, Len(b) = m,
         \A j \in 1..m : b[j] = p + j
  PROVE  b = Span(p + 1, m)
<1> DEFINE a == Span(p + 1, m)
<1>1. a \in Seq(Nat) /\ Len(a) = m /\ \A j \in 1..m : a[j] = p + j
  BY SpanFacts
<1> HIDE DEF a
<1>2. a = b
  BY <1>1, SeqEqual
<1>3. QED
  BY <1>2 DEF a

LEMMA SpanAppend ==
  ASSUME NEW p \in Nat, NEW m \in Nat, NEW n \in Nat
  PROVE  Span(p + 1, m) \o Span(p + m + 1, n) = Span(p + 1, m + n)
<1> DEFINE a == Span(p + 1, m)
           b == Span(p + m + 1, n)
<1>a. a \in Seq(Nat) /\ Len(a) = m /\ \A j \in 1..m : a[j] = p + j
  BY SpanFacts
<1>b. b \in Seq(Nat) /\ Len(b) = n /\ \A j \in 1..n : b[j] = p + m + j
  <2> DEFINE q == p + m
  <2>1. q \in Nat
    OBVIOUS
  <2> HIDE DEF q
  <2>2. /\ Span(q + 1, n) \in Seq(Nat) /\ Len(Span(q + 1, n)) = n
        /\ \A j \in 1..n : Span(q + 1, n)[j] = q + j
    BY <2>1, SpanFacts
  <2>3. QED
    BY <2>2 DEF q
<1>1. /\ a \in Seq(Nat) /\ Len(a) = m /\ \A j \in 1..m : a[j] = p + j
      /\ b \in Seq(Nat) /\ Len(b) = n /\ \A j \in 1..n : b[j] = p + m + j
  BY <1>a, <1>b
<1> HIDE DEF a, b
<1>2. /\ a \o b \in Seq(Nat) /\ Len(a \o b) = m + n
      /\ \A j \in 1..(m + n) : (a \o b)[j] = IF j <= m THEN a[j] ELSE b[j - m]
  BY <1>1, ConcatProperties
<1>3. \A j \in 1..(m + n) : (a \o b)[j] = p + j
  <2>1. ASSUME NEW j \in 1..(m + n) PROVE (a \o b)[j] = p + j
    <3>1. CASE j <= m
      BY <1>1, <1>2, <3>1
    <3>2. CASE ~(j <= m)
      <4>1. j - m \in 1..n
        BY <3>2
      <4>2. b[j - m] = p + m + (j - m)
        BY <1>1, <4>1
      <4>3. QED
        BY <1>2, <3>2, <4>1, <4>2
    <3>3. QED
      BY <3>1, <3>2
  <2>2. QED
    BY <2>1
<1>4. a \o b = Span(p + 1, m + n)
  <2> DEFINE k == m + n
             c == a \o b
  <2>1. k \in Nat /\ c \in Seq(Nat) /\ Len(c) = k /\ \A j \in 1..k : c[j] = p + j
    BY <1>2, <1>3
  <2> HIDE DEF k, c
  <2>2. c = Span(p + 1, k)
    BY <2>1, IsSpan
  <2>3. QED
    BY <2>2 DEF k, c
<1>5. QED
  BY <1>4 DEF a, b

\* The case of two pieces of which the first begins the stream.
LEMMA SpanGrow ==
  ASSUME NEW m \in Nat, NEW n \in Nat
  PROVE  Span(1, m) \o Span(m + 1, n) = Span(1, m + n)
<1> DEFINE z == 0
<1>1. z \in Nat /\ z + 1 = 1 /\ z + m + 1 = m + 1
  OBVIOUS
<1> HIDE DEF z
<1>2. Span(z + 1, m) \o Span(z + m + 1, n) = Span(z + 1, m + n)
  BY <1>1, SpanAppend
<1>3. QED
  BY <1>1, <1>2

-----------------------------------------------------------------------------
(* The inductive invariant.                                                *)

Headers == [mark : {"beat", "trans", "unknown"}, data_length : Nat]

\* A block is a piece of the stream that ends where it may be cut.
IsBlock(b) ==
  /\ Len(b) > 0 /\ b[1] \in Nat \ {0} /\ b = Span(b[1], Len(b))
  /\ b[1] + Len(b) - 1 <= sent /\ MayCut(b[1] + Len(b) - 1)

\* The blocks of the list follow one another, up to the last byte that has come.
BlocksInv ==
  /\ sent \in 0..Total
  /\ m_list_RawData \in Seq(Seq(Nat))
  /\ \A k \in 1..Len(m_list_RawData) : IsBlock(m_list_RawData[k])
  /\ \A k \in 1..(Len(m_list_RawData) - 1) :
       m_list_RawData[k + 1][1] = m_list_RawData[k][1] + Len(m_list_RawData[k])
  /\ m_list_RawData # <<>> =>
       LET b == m_list_RawData[Len(m_list_RawData)] IN b[1] + Len(b) - 1 = sent
  /\ m_currentReadOffset \in Nat
  /\ IF m_list_RawData = <<>> THEN m_currentReadOffset = 0
     ELSE m_currentReadOffset <= blocklen

\* As many bytes of message m as the parser may hold: all of them only of a
\* header without data, which is left lying when it ends with its block.
Within(n, m) == n < m.size \/ (n = m.size /\ m.size = HeaderSize /\ m.mark = "trans")

\* The parser is in the message behind the first i: all that has been read is
\* dealt with or held, the whole of the message until its header is complete.
MessageInv(i) ==
  /\ NextByte - 1 = Ends[i] + m_currentMessageSize
  /\ m_currentMessageSize > 0 => /\ i < Len(stream)
                                 /\ Within(m_currentMessageSize, stream[i + 1])
  /\ dealt \o m_currentBlock = Span(1, Ends[i] + m_currentMessageSize)
  /\ m_currentMessageSize <= HeaderSize =>
       m_currentBlock = Span(Ends[i] + 1, m_currentMessageSize)
  /\ m_currentMessageSize >= MarkSize =>
       /\ m_currentHeader.mark = stream[i + 1].mark
       /\ m_currentHeader.mark # "unknown"
       /\ m_currentHeader.mark = "beat" => m_currentMessageSize = MarkSize
       /\ m_currentHeader.mark = "trans" /\ m_currentMessageSize >= HeaderSize =>
            m_currentHeader.data_length = stream[i + 1].size - HeaderSize

ParserInv ==
  /\ BlocksInv
  /\ m_currentMessageSize \in Nat /\ m_currentBlock \in Seq(Nat)
  /\ m_currentHeader \in Headers /\ dealt \in Seq(Nat)
  /\ \E i \in 0..Len(stream) : MessageInv(i)

IInv ==
  /\ stream \in Seq(Messages) /\ kicked \in BOOLEAN
  /\ ~kicked => ParserInv
  /\ kicked => \E i \in 1..Len(stream) : stream[i].mark = "unknown"

-----------------------------------------------------------------------------
(* Reading.                                                                *)

LEMMA SameStream ==
  ASSUME stream' = stream
  PROVE  Ends' = Ends /\ Total' = Total /\ \A p : MayCut(p)' = MayCut(p)
<1>1. Ends' = Ends
  BY DEF Ends
<1>2. Total' = Total
  BY <1>1 DEF Total
<1>3. \A p : MessageAt(p)' = MessageAt(p)
  BY <1>1 DEF MessageAt
<1>4. \A p : IndexAt(p)' = IndexAt(p)
  BY <1>1, <1>3 DEF IndexAt
<1>5. QED
  BY <1>1, <1>2, <1>3, <1>4 DEF MayCut

LEMMA BlockFacts ==
  ASSUME IInv, ~kicked, m_list_RawData # <<>>
  PROVE  /\ block = m_list_RawData[1] /\ block \in Seq(Nat)
         /\ blocklen \in Nat \ {0} /\ block[1] \in Nat \ {0}
         /\ \A j \in 1..blocklen : block[j] = block[1] + j - 1
         /\ block[1] + blocklen - 1 <= Total /\ Total \in Nat
         /\ MayCut(block[1] + blocklen - 1)
         /\ m_currentReadOffset \in Nat /\ m_currentReadOffset <= blocklen
<1>1. /\ m_list_RawData \in Seq(Seq(Nat)) /\ m_currentReadOffset \in Nat
      /\ m_currentReadOffset <= blocklen /\ sent \in 0..Total
      /\ \A k \in 1..Len(m_list_RawData) : IsBlock(m_list_RawData[k])
  BY DEF IInv, ParserInv, BlocksInv
<1>2. Len(m_list_RawData) \in Nat \ {0} /\ block = m_list_RawData[1] /\ block \in Seq(Nat)
  BY <1>1, EmptySeq, HeadTailProperties DEF block
<1>3. IsBlock(block)
  BY <1>1, <1>2
<1>4. blocklen \in Nat \ {0} /\ block[1] \in Nat \ {0} /\ block = Span(block[1], blocklen)
  BY <1>2, <1>3, LenProperties DEF IsBlock, blocklen
<1>5. Total \in Nat
  BY EndsGrow DEF IInv
<1>6. \A j \in 1..blocklen : block[j] = block[1] + j - 1
  BY <1>4 DEF Span
<1>7. block[1] + blocklen - 1 <= Total /\ MayCut(block[1] + blocklen - 1)
  BY <1>1, <1>3, <1>4, <1>5 DEF IsBlock, blocklen
<1>8. QED
  BY <1>1, <1>2, <1>4, <1>5, <1>6, <1>7

\* The parser in the midst of a turn, in the message behind the first i.
ParserStates == [offset : Nat, size : Nat, bytes : Seq(Nat), header : Headers]

Reads(s, i) ==
  /\ s \in ParserStates
  /\ s.offset <= blocklen
  /\ block[1] + s.offset = Ends[i] + s.size + 1
  /\ s.size <= stream[i + 1].size
  /\ dealt \o s.bytes = Span(1, Ends[i] + s.size)
  /\ s.size <= HeaderSize => s.bytes = Span(Ends[i] + 1, s.size)

\* What is copied is the next bytes of the stream.
LEMMA CopyReads ==
  ASSUME IInv, ~kicked, m_list_RawData # <<>>, NEW i \in 0..(Len(stream) - 1),
         NEW s, Reads(s, i), NEW k \in Nat, k <= blocklen - s.offset,
         s.size + k <= stream[i + 1].size
  PROVE  /\ Reads(Copy(s, k), i)
         /\ Copy(s, k).offset = s.offset + k /\ Copy(s, k).size = s.size + k
         /\ Copy(s, k).header = s.header
<1>0. /\ s \in ParserStates /\ s.offset \in Nat /\ s.size \in Nat /\ s.bytes \in Seq(Nat)
      /\ s.header \in Headers /\ s.offset <= blocklen /\ dealt \in Seq(Nat)
  BY DEF Reads, ParserStates, IInv, ParserInv
<1>1. /\ blocklen \in Nat \ {0} /\ block[1] \in Nat \ {0}
      /\ \A j \in 1..blocklen : block[j] = block[1] + j - 1
  BY BlockFacts
<1>2. Ends[i] \in Nat
  BY EndsGrow DEF IInv
<1> DEFINE e == Ends[i] + s.size
           b == [j \in 1..k |-> IF s.offset + j <= blocklen THEN block[s.offset + j] ELSE Garbage]
<1>3. e \in Nat /\ block[1] + s.offset = e + 1
  BY <1>0, <1>2 DEF Reads
<1>4. b = Span(e + 1, k)
  <2>1. ASSUME NEW j \in 1..k PROVE b[j] = e + 1 + j - 1
    <3> DEFINE q == s.offset + j
    <3>1. q \in 1..blocklen /\ q <= blocklen
      BY <1>0, <1>1
    <3>2. b[j] = block[q]
      BY <3>1
    <3>3. block[q] = block[1] + q - 1
      BY <1>1, <3>1
    <3>4. block[1] + q - 1 = e + 1 + j - 1
      <4> DEFINE c == block[1]
                 o == s.offset
      <4>1. c \in Nat /\ o \in Nat /\ j \in Nat /\ e \in Nat /\ c + o = e + 1
        BY <1>0, <1>1, <1>3
      <4> HIDE DEF c, o, e
      <4>2. c + (o + j) - 1 = e + 1 + j - 1
        BY <4>1
      <4>3. QED
        BY <4>2 DEF c, o
    <3>5. QED
      BY <3>2, <3>3, <3>4
  <2>2. Span(e + 1, k) = [j \in 1..k |-> e + 1 + j - 1]
    BY DEF Span
  <2>3. b = [j \in 1..k |-> b[j]]
    OBVIOUS
  <2> HIDE DEF e, b
  <2>4. QED
    BY <2>1, <2>2, <2>3
<1>5. Copy(s, k) = [s EXCEPT !.offset = @ + k, !.size = @ + k, !.bytes = @ \o b]
  BY DEF Copy
<1>e. e = Ends[i] + s.size
  OBVIOUS
<1> HIDE DEF b, e
<1>6. b \in Seq(Nat)
  BY <1>3, <1>4, SpanFacts
<1>7. s.bytes \o b \in Seq(Nat) /\ dealt \o (s.bytes \o b) = (dealt \o s.bytes) \o b
  <2> DEFINE d == s.bytes
  <2>1. d \in Seq(Nat)
    BY <1>0
  <2> HIDE DEF d
  <2>2. d \o b \in Seq(Nat)
    BY <1>6, <2>1, ConcatProperties
  <2>3. dealt \in Seq(Nat)
    BY <1>0
  <2>4. (dealt \o d) \o b = dealt \o (d \o b)
    BY <1>6, <2>1, <2>3, ConcatAssociative
  <2>5. QED
    BY <2>2, <2>4 DEF d
<1>8. /\ Copy(s, k) \in ParserStates /\ Copy(s, k).header = s.header
      /\ Copy(s, k).offset = s.offset + k /\ Copy(s, k).size = s.size + k
      /\ Copy(s, k).bytes = s.bytes \o b
  <2>1. s.offset + k \in Nat /\ s.size + k \in Nat
    BY <1>0
  <2>2. QED
    BY <1>0, <1>5, <1>7, <2>1 DEF ParserStates
<1>9. dealt \o (s.bytes \o b) = Span(1, Ends[i] + (s.size + k))
  <2>1. dealt \o s.bytes = Span(1, e)
    BY <1>e DEF Reads
  <2>2. Span(1, e) \o Span(e + 1, k) = Span(1, e + k)
    BY <1>3, SpanGrow
  <2>3. e + k = Ends[i] + (s.size + k)
    BY <1>0, <1>2, <1>e
  <2>4. QED
    BY <1>4, <1>7, <2>1, <2>2, <2>3
<1>10. ASSUME s.size + k <= HeaderSize PROVE s.bytes \o b = Span(Ends[i] + 1, s.size + k)
  <2>1. s.size <= HeaderSize
    BY <1>0, <1>10, FramingAssumption
  <2>2. s.bytes = Span(Ends[i] + 1, s.size)
    BY <2>1 DEF Reads
  <2>3. Span(Ends[i] + 1, s.size) \o Span(Ends[i] + s.size + 1, k)
          = Span(Ends[i] + 1, s.size + k)
    BY <1>0, <1>2, SpanAppend
  <2>4. QED
    BY <1>4, <1>e, <2>2, <2>3
<1>11. QED
  <2>1. s.offset + k <= blocklen
    BY <1>0, <1>1
  <2>2. block[1] + (s.offset + k) = Ends[i] + (s.size + k) + 1
    <3> DEFINE c == block[1]
               o == s.offset
               z == Ends[i]
               n == s.size
    <3>1. /\ c \in Nat /\ o \in Nat /\ z \in Nat /\ n \in Nat /\ k \in Nat
          /\ c + o = z + n + 1
      BY <1>0, <1>1, <1>2, <1>3, <1>e
    <3> HIDE DEF c, o, z, n
    <3>2. c + (o + k) = (c + o) + k
      BY <3>1
    <3>3. z + (n + k) + 1 = (z + n + 1) + k
      BY <3>1
    <3>4. QED
      BY <3>1, <3>2, <3>3 DEF c, o, z, n
  <2>3. QED
    BY <1>8, <1>9, <1>10, <2>1, <2>2 DEF Reads

LEMMA SameReads ==
  ASSUME NEW i, NEW s, Reads(s, i), NEW t \in ParserStates,
         t.offset = s.offset, t.size = s.size, t.bytes = s.bytes
  PROVE  Reads(t, i)
BY DEF Reads

LEMMA MinFacts ==
  ASSUME NEW a \in Nat, NEW b \in Nat
  PROVE  /\ Least(a, b) \in Nat /\ Least(a, b) <= a /\ Least(a, b) <= b
         /\ Least(a, b) = a \/ Least(a, b) = b
BY DEF Least

LEMMA CopyUpToReads ==
  ASSUME IInv, ~kicked, m_list_RawData # <<>>, NEW i \in 0..(Len(stream) - 1),
         NEW s, Reads(s, i), NEW n \in Nat, n <= stream[i + 1].size
  PROVE  /\ Reads(CopyUpTo(s, n), i)
         /\ CopyUpTo(s, n).header = s.header
         /\ s.size >= n => CopyUpTo(s, n) = s
         /\ s.size < n => CopyUpTo(s, n).size <= n
         /\ CopyUpTo(s, n).size >= s.size
         /\ CopyUpTo(s, n).size < n => CopyUpTo(s, n).offset = blocklen
<1>0. s.offset \in Nat /\ s.size \in Nat /\ s.offset <= blocklen /\ blocklen \in Nat
  BY BlockFacts DEF Reads, ParserStates
<1>1. CASE s.size >= n
  <2>1. CopyUpTo(s, n) = s
    BY <1>0, <1>1 DEF CopyUpTo
  <2>2. QED
    BY <1>0, <1>1, <2>1
<1>2. CASE s.size < n
  <2> DEFINE k == Least(n - s.size, blocklen - s.offset)
  <2>1. n - s.size \in Nat /\ blocklen - s.offset \in Nat
    BY <1>0, <1>2
  <2>2. /\ k \in Nat /\ k <= n - s.size /\ k <= blocklen - s.offset
        /\ k = n - s.size \/ k = blocklen - s.offset
    BY <2>1, MinFacts
  <2>3. CopyUpTo(s, n) = Copy(s, k)
    BY <1>2 DEF CopyUpTo
  <2> HIDE DEF k
  <2>a. stream[i + 1].size \in Nat
    <3>1. i + 1 \in 1..Len(stream)
      BY LenProperties DEF IInv
    <3>2. QED
      BY <3>1, ElementOfSeq, MessageFacts DEF IInv
  <2>4. s.size + k <= stream[i + 1].size
    BY <1>0, <1>2, <2>2, <2>a
  <2>5. /\ Reads(Copy(s, k), i)
        /\ Copy(s, k).offset = s.offset + k /\ Copy(s, k).size = s.size + k
        /\ Copy(s, k).header = s.header
    BY <2>2, <2>4, CopyReads
  <2>6. s.size + k <= n /\ s.size + k >= s.size /\ (s.size + k < n => s.offset + k = blocklen)
    BY <1>0, <1>2, <2>2
  <2>7. QED
    BY <1>2, <1>0, <2>3, <2>5, <2>6
<1>3. QED
  BY <1>0, <1>1, <1>2

\* A mark and a header are those of the message the bytes are in.
LEMMA MarkOfReads ==
  ASSUME IInv, NEW i \in 0..(Len(stream) - 1), NEW s, Reads(s, i), s.size = MarkSize
  PROVE  MarkOf(s.bytes) = stream[i + 1].mark
<1>0. Ends[i] \in Nat /\ i + 1 \in 1..Len(stream)
  BY EndsGrow, LenProperties DEF IInv
<1>1. stream[i + 1].size \in Nat /\ 1 <= stream[i + 1].size
  BY <1>0, ElementOfSeq, MessageFacts DEF IInv, MarkSize
<1>a. s.size = 2 /\ s.size <= HeaderSize
  BY FramingAssumption DEF MarkSize
<1>2. s.bytes = Span(Ends[i] + 1, 2)
  BY <1>a DEF Reads, MarkSize
<1>3. s.bytes[1] = Ends[i] + 1 /\ s.bytes[2] = Ends[i] + 2
  <2> DEFINE e == Ends[i]
  <2>1. e \in Nat /\ s.bytes = Span(e + 1, 2)
    BY <1>0, <1>2
  <2> HIDE DEF e
  <2>2. \A j \in 1..2 : Span(e + 1, 2)[j] = e + j
    BY <2>1, SpanFacts
  <2>3. QED
    BY <2>1, <2>2 DEF e
<1>4. MessageAt(Ends[i] + 1) = i + 1 /\ IndexAt(Ends[i] + 1) = 1
  BY <1>1, Located DEF IInv
<1>5. StartsMessage(Ends[i] + 1)
  BY <1>0, <1>4 DEF StartsMessage, Garbage
<1>6. s.bytes[2] = s.bytes[1] + 1
  BY <1>0, <1>3
<1>7. QED
  BY <1>3, <1>4, <1>5, <1>6 DEF MarkOf

LEMMA DataLengthReads ==
  ASSUME IInv, NEW i \in 0..(Len(stream) - 1), NEW s, Reads(s, i), s.size = HeaderSize
  PROVE  DataLengthOf(s.bytes) = stream[i + 1].size - HeaderSize
<1>0. Ends[i] \in Nat /\ i + 1 \in 1..Len(stream)
  BY EndsGrow, LenProperties DEF IInv
<1>1. stream[i + 1].size \in Nat /\ 1 <= stream[i + 1].size
  BY <1>0, ElementOfSeq, MessageFacts DEF IInv, MarkSize
<1>a. s.size = HeaderSize /\ s.size <= HeaderSize
  BY FramingAssumption
<1>2. s.bytes = Span(Ends[i] + 1, HeaderSize)
  BY <1>a DEF Reads
<1>3. s.bytes[1] = Ends[i] + 1
  <2> DEFINE e == Ends[i]
  <2>1. e \in Nat /\ s.bytes = Span(e + 1, HeaderSize)
    BY <1>0, <1>2
  <2> HIDE DEF e
  <2>2. HeaderSize \in Nat /\ 1 \in 1..HeaderSize
    BY FramingAssumption DEF MarkSize
  <2>3. \A j \in 1..HeaderSize : Span(e + 1, HeaderSize)[j] = e + j
    BY <2>1, <2>2, SpanFacts
  <2>4. QED
    BY <2>1, <2>2, <2>3 DEF e
<1>4. MessageAt(Ends[i] + 1) = i + 1 /\ IndexAt(Ends[i] + 1) = 1
  BY <1>1, Located DEF IInv
<1>5. StartsMessage(Ends[i] + 1)
  BY <1>0, <1>4 DEF StartsMessage, Garbage
<1>6. QED
  BY <1>2, <1>3, <1>4, <1>5 DEF DataLengthOf

-----------------------------------------------------------------------------
(* A turn of the loop up to the mark.                                      *)

Cur == [offset |-> m_currentReadOffset, size |-> m_currentMessageSize,
        bytes |-> m_currentBlock, header |-> m_currentHeader]

LEMMA CurReads ==
  ASSUME IInv, ~kicked, Filtering
  PROVE  \E i \in 0..(Len(stream) - 1) :
           MessageInv(i) /\ Reads(Cur, i) /\ Within(m_currentMessageSize, stream[i + 1])
<1>1. PICK i \in 0..Len(stream) : MessageInv(i)
  BY DEF IInv, ParserInv
<1>2. /\ m_list_RawData # <<>> /\ m_currentReadOffset < blocklen
      /\ m_currentReadOffset \in Nat /\ blocklen \in Nat /\ block[1] \in Nat
      /\ block[1] + blocklen - 1 <= Total
  BY BlockFacts DEF Filtering
<1>3. /\ m_currentMessageSize \in Nat /\ m_currentBlock \in Seq(Nat)
      /\ m_currentHeader \in Headers
  BY DEF IInv, ParserInv
<1>4. /\ Len(stream) \in Nat /\ Total \in Nat /\ Ends[i] \in Nat /\ Total = Ends[Len(stream)]
      /\ \A j \in 1..Len(stream) : stream[j].size \in Nat /\ stream[j].size > 0
  BY EndsGrow, ElementOfSeq, MessageFacts DEF IInv, MarkSize
<1>5. block[1] + m_currentReadOffset = Ends[i] + m_currentMessageSize + 1
  <2> DEFINE c == block[1]
             z == Ends[i]
             o == m_currentReadOffset
             n == m_currentMessageSize
  <2>1. c + o - 1 = z + n
    <3>1. NextByte - 1 = z + n
      BY <1>1 DEF MessageInv
    <3>2. QED
      BY <1>2, <3>1 DEF NextByte
  <2>2. c \in Nat /\ o \in Nat /\ z \in Nat /\ n \in Nat
    BY <1>2, <1>3, <1>4
  <2> HIDE DEF c, z, o, n
  <2>3. c + o = z + n + 1
    BY <2>1, <2>2
  <2>4. QED
    BY <2>3 DEF c, z, o, n
<1>6. i # Len(stream)
  <2>1. CASE m_currentMessageSize > 0
    BY <1>1, <1>4, <2>1 DEF MessageInv
  <2>2. CASE m_currentMessageSize = 0
    <3> DEFINE c == block[1]
               z == Ends[i]
    <3>1. c + m_currentReadOffset = z + 1 /\ c \in Nat /\ z \in Nat
      BY <1>2, <1>4, <1>5, <2>2
    <3> HIDE DEF c, z
    <3>2. c + blocklen - 1 >= z + 1
      BY <1>2, <3>1
    <3>3. z < Total
      BY <1>2, <1>4, <3>1, <3>2 DEF c
    <3>4. QED
      BY <1>4, <3>3 DEF z
  <2>3. QED
    BY <1>3, <2>1, <2>2
<1>7. i \in 0..(Len(stream) - 1) /\ i + 1 \in 1..Len(stream)
  BY <1>4, <1>6
<1>8. Within(m_currentMessageSize, stream[i + 1])
  <2>1. CASE m_currentMessageSize > 0
    BY <1>1, <2>1 DEF MessageInv
  <2>2. CASE m_currentMessageSize = 0
    BY <1>4, <1>7, <2>2 DEF Within
  <2>3. QED
    BY <1>3, <2>1, <2>2
<1>9. Cur \in ParserStates
  BY <1>2, <1>3 DEF Cur, ParserStates
<1>10. dealt \o m_currentBlock = Span(1, Ends[i] + m_currentMessageSize)
  BY <1>1 DEF MessageInv
<1>11. m_currentMessageSize <= HeaderSize => m_currentBlock = Span(Ends[i] + 1, m_currentMessageSize)
  BY <1>1 DEF MessageInv
<1>12. Reads(Cur, i)
  <2>1. /\ Cur.offset = m_currentReadOffset /\ Cur.size = m_currentMessageSize
        /\ Cur.bytes = m_currentBlock
    BY DEF Cur
  <2>2. m_currentReadOffset <= blocklen /\ m_currentMessageSize <= stream[i + 1].size
    BY <1>2, <1>3, <1>4, <1>7, <1>8 DEF Within
  <2>3. QED
    BY <1>5, <1>9, <1>10, <1>11, <2>1, <2>2 DEF Reads
<1>13. QED
  BY <1>1, <1>7, <1>8, <1>12

\* The size of a message, and of one with data.
LEMMA SizeFacts ==
  ASSUME IInv, NEW i \in 0..(Len(stream) - 1)
  PROVE  /\ stream[i + 1].size \in Nat /\ stream[i + 1].size > MarkSize
         /\ stream[i + 1].mark \in {"beat", "trans", "unknown"}
         /\ stream[i + 1].mark = "trans" => stream[i + 1].size >= HeaderSize
         /\ stream[i + 1].mark = "beat" => stream[i + 1].size = HeartBeatSize
         /\ Ends[i] \in Nat /\ Ends[i + 1] = Ends[i] + stream[i + 1].size
         /\ i + 1 \in 1..Len(stream) /\ Len(stream) \in Nat
<1>1. i + 1 \in 1..Len(stream) /\ Len(stream) \in Nat /\ i \in 0..Len(stream)
  BY LenProperties DEF IInv
<1>2. stream[i + 1] \in Messages
  BY <1>1, ElementOfSeq DEF IInv
<1>3. Ends[i + 1] = Ends[(i + 1) - 1] + stream[i + 1].size
  BY <1>1, EndsDef DEF IInv
<1>4. (i + 1) - 1 = i
  BY <1>1
<1>5. Ends[i] \in Nat
  BY <1>1, EndsGrow DEF IInv
<1>6. QED
  BY <1>1, <1>2, <1>3, <1>4, <1>5, MessageFacts

\* The message the parser is in.
Reading(i) ==
  /\ i \in 0..(Len(stream) - 1) /\ MessageInv(i) /\ Reads(Cur, i)
  /\ Within(m_currentMessageSize, stream[i + 1])

LEMMA MarkFacts ==
  ASSUME IInv, ~kicked, Filtering, NEW i, Reading(i)
  PROVE  /\ Reads(MarkRead, i) /\ Within(MarkRead.size, stream[i + 1])
         /\ MarkRead.size < MarkSize => MarkRead.offset = blocklen
         /\ MarkRead.size >= MarkSize => MarkRead.header.mark = stream[i + 1].mark
         /\ m_currentMessageSize <= MarkSize => MarkRead.size <= MarkSize
         /\ m_currentMessageSize >= MarkSize => MarkRead.size = m_currentMessageSize
         /\ MarkRead.header.data_length = m_currentHeader.data_length
<1>1. /\ i \in 0..(Len(stream) - 1) /\ MessageInv(i) /\ Reads(Cur, i)
      /\ Within(m_currentMessageSize, stream[i + 1])
  BY DEF Reading
<1>2. /\ stream[i + 1].size \in Nat /\ stream[i + 1].size > MarkSize
      /\ stream[i + 1].mark \in {"beat", "trans", "unknown"}
  BY <1>1, SizeFacts
<1>3. /\ m_list_RawData # <<>> /\ m_currentMessageSize \in Nat /\ m_currentHeader \in Headers
      /\ Cur.size = m_currentMessageSize /\ Cur.header = m_currentHeader
  BY DEF Filtering, IInv, ParserInv, Cur
<1> DEFINE s == CopyUpTo(Cur, MarkSize)
<1>4. /\ Reads(s, i) /\ s.header = m_currentHeader
      /\ m_currentMessageSize >= MarkSize => s = Cur
      /\ m_currentMessageSize < MarkSize => s.size <= MarkSize
      /\ s.size < MarkSize => s.offset = blocklen
  <2>1. MarkSize \in Nat /\ MarkSize <= stream[i + 1].size
    BY <1>2 DEF MarkSize
  <2>2. QED
    BY <1>1, <1>3, <2>1, CopyUpToReads
<1>5. MarkRead = IF s.size = MarkSize THEN [s EXCEPT !.header.mark = MarkOf(s.bytes)] ELSE s
  BY DEF MarkRead, Cur
<1>6. s \in ParserStates /\ s.size \in Nat
  BY <1>4 DEF Reads, ParserStates
<1> HIDE DEF s
<1>7. CASE s.size = MarkSize
  <2>1. MarkOf(s.bytes) = stream[i + 1].mark
    BY <1>1, <1>4, <1>7, MarkOfReads
  <2>2. MarkRead = [s EXCEPT !.header.mark = stream[i + 1].mark]
    BY <1>5, <1>7, <2>1
  <2>3. /\ MarkRead \in ParserStates /\ MarkRead.offset = s.offset /\ MarkRead.size = s.size
        /\ MarkRead.bytes = s.bytes /\ MarkRead.header.mark = stream[i + 1].mark
        /\ MarkRead.header.data_length = s.header.data_length
    BY <1>2, <1>6, <2>2 DEF ParserStates, Headers
  <2>4. Reads(MarkRead, i)
    BY <1>4, <2>3, SameReads
  <2>5. Within(MarkRead.size, stream[i + 1])
    BY <1>2, <1>6, <1>7, <2>3 DEF MarkSize, Within
  <2>6. QED
    BY <1>2, <1>3, <1>4, <1>6, <1>7, <2>3, <2>4, <2>5 DEF MarkSize
<1>8. CASE s.size # MarkSize
  <2>1. MarkRead = s
    BY <1>5, <1>8
  <2>2. s.size >= MarkSize => /\ m_currentMessageSize >= MarkSize
                              /\ s.size = m_currentMessageSize
    BY <1>3, <1>4, <1>6, <1>8 DEF MarkSize
  <2>3. m_currentMessageSize >= MarkSize => m_currentHeader.mark = stream[i + 1].mark
    BY <1>1 DEF MessageInv
  <2>4. Within(s.size, stream[i + 1])
    <3>1. CASE s.size >= MarkSize
      BY <1>1, <2>2, <3>1
    <3>2. CASE ~(s.size >= MarkSize)
      BY <1>2, <1>6, <3>2 DEF MarkSize, Within
    <3>3. QED
      BY <3>1, <3>2
  <2>5. m_currentMessageSize >= MarkSize => s.size = m_currentMessageSize
    BY <1>3, <1>4
  <2>6. m_currentMessageSize <= MarkSize => s.size <= MarkSize
    BY <1>3, <1>4, <1>6, <2>5 DEF MarkSize
  <2>7. QED
    BY <1>4, <2>1, <2>2, <2>3, <2>4, <2>5, <2>6
<1>9. QED
  BY <1>7, <1>8

-----------------------------------------------------------------------------
(* A message with data.                                                    *)

\* The parser when it has read a header and what the header says.
HeaderDone ==
  IF HeaderRead.size = HeaderSize
  THEN [HeaderRead EXCEPT !.header.data_length = DataLengthOf(HeaderRead.bytes)]
  ELSE HeaderRead

LEMMA HeaderFacts ==
  ASSUME IInv, ~kicked, Filtering, NEW i, Reading(i),
         MarkRead.size >= MarkSize, MarkRead.header.mark = "trans"
  PROVE  /\ Reads(HeaderDone, i) /\ Within(HeaderDone.size, stream[i + 1])
         /\ HeaderDone.size = HeaderRead.size /\ HeaderDone.offset = HeaderRead.offset
         /\ HeaderDone.size >= MarkSize /\ HeaderRead.size \in Nat
         /\ HeaderRead.size < HeaderSize => HeaderRead.offset = blocklen
         /\ HeaderDone.header.mark = "trans" /\ stream[i + 1].mark = "trans"
         /\ HeaderDone.size >= HeaderSize =>
              HeaderDone.header.data_length = stream[i + 1].size - HeaderSize
<1>1. /\ i \in 0..(Len(stream) - 1) /\ MessageInv(i)
      /\ Within(m_currentMessageSize, stream[i + 1])
  BY DEF Reading
<1>2. /\ Reads(MarkRead, i) /\ stream[i + 1].mark = "trans"
      /\ m_currentMessageSize <= MarkSize => MarkRead.size <= MarkSize
      /\ m_currentMessageSize >= MarkSize => MarkRead.size = m_currentMessageSize
      /\ MarkRead.header.data_length = m_currentHeader.data_length
  BY MarkFacts
<1>3. /\ stream[i + 1].size \in Nat /\ stream[i + 1].size >= HeaderSize
      /\ HeaderSize \in Nat /\ HeaderSize > MarkSize
  BY <1>1, <1>2, SizeFacts, FramingAssumption
<1>4. m_list_RawData # <<>> /\ m_currentMessageSize \in Nat
  BY DEF Filtering, IInv, ParserInv
<1>5. MarkRead \in ParserStates /\ MarkRead.size \in Nat
  BY <1>2 DEF Reads, ParserStates
<1> DEFINE t == HeaderRead
<1>6. /\ Reads(t, i) /\ t.header = MarkRead.header
      /\ MarkRead.size >= HeaderSize => t = MarkRead
      /\ MarkRead.size < HeaderSize => t.size <= HeaderSize
      /\ t.size >= MarkRead.size
      /\ t.size < HeaderSize => t.offset = blocklen
  <2>1. HeaderSize <= stream[i + 1].size
    BY <1>3
  <2>2. QED
    BY <1>1, <1>2, <1>3, <1>4, <2>1, CopyUpToReads DEF HeaderRead
<1>7. HeaderDone = IF t.size = HeaderSize
                   THEN [t EXCEPT !.header.data_length = DataLengthOf(t.bytes)] ELSE t
  BY DEF HeaderDone
<1>8. t \in ParserStates /\ t.size \in Nat
  BY <1>6 DEF Reads, ParserStates
<1>a. t.size = HeaderRead.size /\ t.offset = HeaderRead.offset
  OBVIOUS
<1> HIDE DEF t
<1>9. t.size >= MarkSize
  BY <1>5, <1>6, <1>8 DEF MarkSize
<1>10. CASE t.size = HeaderSize
  <2>1. DataLengthOf(t.bytes) = stream[i + 1].size - HeaderSize
    BY <1>1, <1>6, <1>10, DataLengthReads
  <2> DEFINE d == stream[i + 1].size - HeaderSize
  <2>2. d \in Nat
    BY <1>3
  <2>3. HeaderDone = [t EXCEPT !.header.data_length = d]
    BY <1>7, <1>10, <2>1
  <2>a. d = stream[i + 1].size - HeaderSize
    OBVIOUS
  <2> HIDE DEF d
  <2>4. /\ HeaderDone \in ParserStates /\ HeaderDone.offset = t.offset
        /\ HeaderDone.size = t.size /\ HeaderDone.bytes = t.bytes
        /\ HeaderDone.header.mark = t.header.mark /\ HeaderDone.header.data_length = d
    BY <1>8, <2>2, <2>3 DEF ParserStates, Headers
  <2>5. Reads(HeaderDone, i)
    BY <1>6, <2>4, SameReads
  <2>6. t.header.mark = "trans"
    BY <1>6
  <2>7. Within(t.size, stream[i + 1])
    BY <1>2, <1>3, <1>10 DEF Within
  <2>8. QED
    BY <1>2, <1>3, <1>6, <1>8, <1>9, <1>10, <1>a, <2>4, <2>5, <2>6, <2>7, <2>a
<1>11. CASE t.size # HeaderSize
  <2>1. HeaderDone = t
    BY <1>7, <1>11
  <2>2. ASSUME t.size >= HeaderSize
        PROVE  t.size = m_currentMessageSize /\ m_currentMessageSize >= HeaderSize
    <3>1. MarkRead.size >= HeaderSize /\ t = MarkRead
      BY <1>3, <1>5, <1>6, <1>8, <1>11, <2>2
    <3>2. MarkRead.size = m_currentMessageSize
      BY <1>2, <1>3, <1>4, <1>5, <3>1 DEF MarkSize
    <3>3. QED
      BY <3>1, <3>2
  <2>3. t.size >= HeaderSize => t.header.data_length = stream[i + 1].size - HeaderSize
    <3>1. SUFFICES ASSUME t.size >= HeaderSize
                   PROVE  t.header.data_length = stream[i + 1].size - HeaderSize
      OBVIOUS
    <3>2. m_currentMessageSize >= HeaderSize /\ m_currentMessageSize >= MarkSize
      BY <1>3, <1>4, <2>2, <3>1 DEF MarkSize
    <3>3. m_currentHeader.mark = "trans"
      BY <1>1, <1>2, <3>2 DEF MessageInv
    <3>4. m_currentHeader.data_length = stream[i + 1].size - HeaderSize
      BY <1>1, <3>2, <3>3 DEF MessageInv
    <3>5. QED
      BY <1>2, <1>6, <3>4
  <2>4. Within(t.size, stream[i + 1])
    <3>1. CASE t.size >= HeaderSize
      BY <1>1, <2>2, <3>1
    <3>2. CASE ~(t.size >= HeaderSize)
      BY <1>3, <1>8, <3>2 DEF Within
    <3>3. QED
      BY <3>1, <3>2
  <2>5. QED
    BY <1>2, <1>6, <1>8, <1>9, <1>a, <2>1, <2>3, <2>4
<1>12. QED
  BY <1>10, <1>11

\* What the block holds of the data is read, and some of it is.
LEMMA DataFacts ==
  ASSUME IInv, ~kicked, Filtering, NEW i, Reading(i),
         MarkRead.size >= MarkSize, MarkRead.header.mark = "trans",
         HeaderRead.size >= HeaderSize, HeaderRead.offset < blocklen
  PROVE  /\ Reads(DataRead, i) /\ stream[i + 1].mark = "trans"
         /\ DataRead.header.mark = "trans"
         /\ DataRead.header.data_length = stream[i + 1].size - HeaderSize
         /\ HeaderSize + DataRead.header.data_length = stream[i + 1].size
         /\ DataRead.size < stream[i + 1].size => DataRead.size > HeaderSize
         /\ DataRead.size \in Nat /\ DataRead.size <= stream[i + 1].size
<1>1. i \in 0..(Len(stream) - 1)
  BY DEF Reading
<1>2. /\ Reads(HeaderDone, i)
      /\ HeaderDone.size = HeaderRead.size /\ HeaderDone.offset = HeaderRead.offset
      /\ HeaderDone.header.mark = "trans" /\ stream[i + 1].mark = "trans"
      /\ HeaderDone.size >= HeaderSize =>
           HeaderDone.header.data_length = stream[i + 1].size - HeaderSize
  BY HeaderFacts
<1>3. HeaderDone.header.data_length = stream[i + 1].size - HeaderSize
  BY <1>2
<1>4. stream[i + 1].size \in Nat /\ HeaderSize \in Nat /\ Ends[i] \in Nat
  BY <1>1, SizeFacts, FramingAssumption
<1>5. HeaderSize + HeaderDone.header.data_length = stream[i + 1].size
  BY <1>3, <1>4
<1>6. DataRead = CopyUpTo(HeaderDone, stream[i + 1].size)
  <2>1. DataRead = CopyUpTo(HeaderDone, HeaderSize + HeaderDone.header.data_length)
    BY DEF DataRead, HeaderDone
  <2>2. QED
    BY <1>5, <2>1
<1>7. m_list_RawData # <<>> /\ blocklen \in Nat /\ block[1] \in Nat
  BY BlockFacts DEF Filtering
<1> DEFINE u == DataRead
<1>8. /\ Reads(u, i) /\ u.header = HeaderDone.header
      /\ u.size < stream[i + 1].size => u.offset = blocklen
  <2>1. stream[i + 1].size <= stream[i + 1].size
    BY <1>4
  <2>2. QED
    BY <1>1, <1>2, <1>4, <1>6, <1>7, <2>1, CopyUpToReads
<1>9. /\ u.size \in Nat /\ u.offset \in Nat /\ u.size <= stream[i + 1].size
      /\ block[1] + u.offset = Ends[i] + u.size + 1
  BY <1>8 DEF Reads, ParserStates
<1>10. /\ HeaderDone.size \in Nat /\ HeaderDone.offset \in Nat
       /\ block[1] + HeaderDone.offset = Ends[i] + HeaderDone.size + 1
  BY <1>2 DEF Reads, ParserStates
<1>11. ASSUME u.size < stream[i + 1].size PROVE u.size > HeaderSize
  <2> DEFINE c == block[1]
             z == Ends[i]
             o == HeaderDone.offset
             n == HeaderDone.size
             m == u.size
  <2>1. /\ c \in Nat /\ z \in Nat /\ o \in Nat /\ n \in Nat /\ m \in Nat
        /\ c + o = z + n + 1 /\ c + blocklen = z + m + 1
        /\ o < blocklen /\ n >= HeaderSize
    BY <1>2, <1>4, <1>7, <1>8, <1>9, <1>10, <1>11
  <2> HIDE DEF c, z, o, n, m
  <2>2. m > n
    BY <1>7, <2>1
  <2>3. m > HeaderSize
    BY <1>4, <2>1, <2>2
  <2>4. QED
    BY <2>3 DEF m
<1>12. QED
  BY <1>2, <1>3, <1>5, <1>8, <1>9, <1>11

-----------------------------------------------------------------------------
(* What a turn leaves behind.                                              *)

\* MessageInv of the next state, of the same block.
NowMessage(i) ==
  /\ block[1] + m_currentReadOffset' = Ends[i] + m_currentMessageSize' + 1
  /\ m_currentMessageSize' > 0 => /\ i < Len(stream)
                                  /\ Within(m_currentMessageSize', stream[i + 1])
  /\ dealt' \o m_currentBlock' = Span(1, Ends[i] + m_currentMessageSize')
  /\ m_currentMessageSize' <= HeaderSize =>
       m_currentBlock' = Span(Ends[i] + 1, m_currentMessageSize')
  /\ m_currentMessageSize' >= MarkSize =>
       /\ m_currentHeader'.mark = stream[i + 1].mark
       /\ m_currentHeader'.mark # "unknown"
       /\ m_currentHeader'.mark = "beat" => m_currentMessageSize' = MarkSize
       /\ m_currentHeader'.mark = "trans" /\ m_currentMessageSize' >= HeaderSize =>
            m_currentHeader'.data_length = stream[i + 1].size - HeaderSize

\* The parser of the next state.
NowParser ==
  /\ m_currentReadOffset' \in Nat /\ m_currentMessageSize' \in Nat
  /\ m_currentBlock' \in Seq(Nat) /\ m_currentHeader' \in Headers /\ dealt' \in Seq(Nat)

LEMMA Kept ==
  ASSUME IInv, ~kicked, kicked' = kicked, m_list_RawData # <<>>,
         UNCHANGED <<stream, sent, m_list_RawData>>,
         NowParser, m_currentReadOffset' <= blocklen,
         NEW i \in 0..Len(stream), NowMessage(i)
  PROVE  IInv'
<1>1. /\ stream' = stream /\ sent' = sent /\ m_list_RawData' = m_list_RawData
      /\ block' = block /\ blocklen' = blocklen
  BY DEF block, blocklen
<1>2. Ends' = Ends /\ Total' = Total /\ \A p : MayCut(p)' = MayCut(p)
  BY <1>1, SameStream
<1>3. BlocksInv'
  BY <1>1, <1>2 DEF IInv, ParserInv, BlocksInv, IsBlock, NowParser
<1>4. block[1] \in Nat /\ Ends[i] \in Nat
  BY BlockFacts, EndsGrow DEF IInv
<1>5. NextByte' = block[1] + m_currentReadOffset'
  BY <1>1 DEF NextByte
<1>6. NextByte' - 1 = Ends[i] + m_currentMessageSize'
  <2> DEFINE c == block[1]
             z == Ends[i]
             o == m_currentReadOffset'
             n == m_currentMessageSize'
  <2>1. c \in Nat /\ z \in Nat /\ o \in Nat /\ n \in Nat /\ c + o = z + n + 1
    BY <1>4 DEF NowParser, NowMessage
  <2>2. NextByte' = c + o
    BY <1>5
  <2> HIDE DEF c, z, o, n
  <2>3. c + o - 1 = z + n
    BY <2>1
  <2>4. NextByte' - 1 = z + n
    BY <2>1, <2>2, <2>3
  <2>5. QED
    BY <2>4 DEF z, n
<1>7. MessageInv(i)'
  BY <1>1, <1>2, <1>6 DEF MessageInv, NowMessage, Within
<1>8. (\E j \in 0..Len(stream) : MessageInv(j))'
  BY <1>1, <1>7 DEF MessageInv
<1>9. ParserInv'
  BY <1>3, <1>8 DEF ParserInv, NowParser
<1>10. QED
  BY <1>1, <1>9 DEF IInv

\* A message that is not over.
LEMMA Stored ==
  ASSUME IInv, ~kicked, kicked' = kicked, m_list_RawData # <<>>,
         UNCHANGED <<stream, sent, m_list_RawData, dealt>>,
         NEW i \in 0..(Len(stream) - 1), NEW t, Reads(t, i), Store(t),
         Within(t.size, stream[i + 1]),
         t.size >= MarkSize =>
           /\ t.header.mark = stream[i + 1].mark /\ t.header.mark # "unknown"
           /\ t.header.mark = "beat" => t.size = MarkSize
           /\ t.header.mark = "trans" /\ t.size >= HeaderSize =>
                t.header.data_length = stream[i + 1].size - HeaderSize
  PROVE  IInv'
<1>1. /\ m_currentReadOffset' = t.offset /\ m_currentMessageSize' = t.size
      /\ m_currentBlock' = t.bytes /\ m_currentHeader' = t.header /\ dealt' = dealt
  BY DEF Store
<1>2. NowParser /\ m_currentReadOffset' <= blocklen
  BY <1>1 DEF NowParser, Reads, ParserStates, IInv, ParserInv
<1>3. i \in 0..Len(stream) /\ i < Len(stream)
  BY SizeFacts
<1>4. NowMessage(i)
  BY <1>1, <1>3 DEF NowMessage, Reads
<1>5. QED
  BY <1>2, <1>3, <1>4, Kept

\* A message that is over: the next one has not been begun.
LEMMA Finished ==
  ASSUME IInv, ~kicked, kicked' = kicked, m_list_RawData # <<>>,
         UNCHANGED <<stream, sent, m_list_RawData>>,
         NEW i \in 0..(Len(stream) - 1), NEW t, Reads(t, i), Over(t),
         t.size = stream[i + 1].size, dealt' = dealt \o t.bytes
  PROVE  IInv'
<1>1. /\ t \in ParserStates /\ t.offset <= blocklen /\ t.size \in Nat /\ t.offset \in Nat
      /\ t.bytes \in Seq(Nat) /\ t.header \in Headers
      /\ block[1] + t.offset = Ends[i] + t.size + 1
      /\ dealt \o t.bytes = Span(1, Ends[i] + t.size)
  BY DEF Reads, ParserStates
<1>2. /\ m_currentReadOffset' = t.offset /\ m_currentMessageSize' = 0
      /\ m_currentBlock' = <<>> /\ m_currentHeader' = t.header
  BY <1>1 DEF Over, Store, ParserStates
<1>3. /\ Ends[i + 1] = Ends[i] + t.size /\ i + 1 \in 0..Len(stream) /\ Ends[i + 1] \in Nat
  BY SizeFacts, EndsGrow
<1> DEFINE z == Ends[i + 1]
<1>4. z \in Nat /\ z = Ends[i] + t.size
  BY <1>3
<1> HIDE DEF z
<1>5. block[1] + t.offset = z + 0 + 1 /\ z + 0 = z
  BY <1>1, <1>4
<1>6. dealt' \in Seq(Nat) /\ dealt' \o <<>> = dealt'
  <2>1. dealt' \in Seq(Nat)
    BY <1>1, ConcatProperties DEF IInv, ParserInv
  <2>2. QED
    BY <2>1, ConcatEmptySeq
<1>7. NowParser /\ m_currentReadOffset' <= blocklen
  BY <1>1, <1>2, <1>6, EmptySeq DEF NowParser
<1>8. dealt' \o m_currentBlock' = Span(1, z + 0)
  BY <1>1, <1>2, <1>4, <1>5, <1>6
<1>9. m_currentBlock' = Span(z + 1, 0)
  BY <1>2, <1>4, SpanEmpty
<1>10. NowMessage(i + 1)
  BY <1>2, <1>5, <1>8, <1>9 DEF NowMessage, z, MarkSize
<1>11. QED
  BY <1>3, <1>7, <1>10, Kept

\* The bytes of a message that is not over, taken away by the application.
LEMMA Taken ==
  ASSUME IInv, ~kicked, kicked' = kicked, m_list_RawData # <<>>,
         UNCHANGED <<stream, sent, m_list_RawData>>,
         NEW i \in 0..(Len(stream) - 1), NEW t, Reads(t, i),
         Store([t EXCEPT !.bytes = <<>>]), dealt' = dealt \o t.bytes,
         t.size < stream[i + 1].size, t.size > HeaderSize,
         t.header.mark = "trans", stream[i + 1].mark = "trans",
         t.header.data_length = stream[i + 1].size - HeaderSize
  PROVE  IInv'
<1>1. /\ t \in ParserStates /\ t.offset <= blocklen /\ t.size \in Nat /\ t.offset \in Nat
      /\ t.bytes \in Seq(Nat) /\ t.header \in Headers
      /\ block[1] + t.offset = Ends[i] + t.size + 1
      /\ dealt \o t.bytes = Span(1, Ends[i] + t.size)
  BY DEF Reads, ParserStates
<1>2. /\ m_currentReadOffset' = t.offset /\ m_currentMessageSize' = t.size
      /\ m_currentBlock' = <<>> /\ m_currentHeader' = t.header
  BY <1>1 DEF Store, ParserStates
<1>3. i \in 0..Len(stream) /\ i < Len(stream)
  BY SizeFacts
<1>4. dealt' \in Seq(Nat) /\ dealt' \o <<>> = dealt'
  <2>1. dealt' \in Seq(Nat)
    BY <1>1, ConcatProperties DEF IInv, ParserInv
  <2>2. QED
    BY <2>1, ConcatEmptySeq
<1>5. NowParser /\ m_currentReadOffset' <= blocklen
  BY <1>1, <1>2, <1>4, EmptySeq DEF NowParser
<1>6. ~(t.size <= HeaderSize)
  BY <1>1, FramingAssumption
<1>7. NowMessage(i)
  BY <1>1, <1>2, <1>3, <1>4, <1>6 DEF NowMessage, Within
<1>8. QED
  BY <1>3, <1>5, <1>7, Kept

-----------------------------------------------------------------------------
(* The turns of the loop.                                                  *)

LEMMA FilteringFacts ==
  ASSUME IInv, ~kicked, Filtering
  PROVE  m_list_RawData # <<>> /\ \E i : Reading(i)
<1>1. m_list_RawData # <<>>
  BY DEF Filtering
<1>2. QED
  BY <1>1, CurReads DEF Reading

LEMMA NextPartOfMark ==
  ASSUME IInv, ~kicked, PartOfMark
  PROVE  IInv'
<1>1. /\ Filtering /\ MarkRead.size < MarkSize /\ Store(MarkRead)
      /\ UNCHANGED <<stream, sent, m_list_RawData, dealt>> /\ kicked' = kicked
  BY DEF PartOfMark
<1>2. PICK i : Reading(i)
  BY <1>1, FilteringFacts
<1>3. i \in 0..(Len(stream) - 1) /\ m_list_RawData # <<>>
  BY <1>1, <1>2, FilteringFacts DEF Reading
<1>4. Reads(MarkRead, i) /\ Within(MarkRead.size, stream[i + 1])
  BY <1>1, <1>2, MarkFacts
<1>5. ~(MarkRead.size >= MarkSize)
  BY <1>1, <1>4 DEF Reads, ParserStates, MarkSize
<1>6. QED
  BY <1>1, <1>3, <1>4, <1>5, Stored

\* The block that holds a byte of a heart beat behind its mark holds all of it.
LEMMA BeatWhole ==
  ASSUME IInv, ~kicked, Filtering, HeartBeatsWhole, NEW i, Reading(i),
         MarkRead.size = MarkSize, MarkRead.offset < blocklen,
         stream[i + 1].mark = "beat"
  PROVE  HeartBeatSize - MarkSize <= blocklen - MarkRead.offset
<1>1. i \in 0..(Len(stream) - 1)
  BY DEF Reading
<1>2. /\ stream[i + 1].size = HeartBeatSize /\ HeartBeatSize \in Nat /\ Ends[i] \in Nat
      /\ HeartBeatSize > MarkSize
  BY <1>1, SizeFacts, FramingAssumption
<1>3. /\ blocklen \in Nat /\ block[1] \in Nat /\ MayCut(block[1] + blocklen - 1)
  <2>1. m_list_RawData # <<>>
    BY DEF Filtering
  <2>2. QED
    BY <2>1, BlockFacts
<1>4. /\ block[1] + MarkRead.offset = Ends[i] + MarkRead.size + 1
      /\ MarkRead.offset \in Nat
  BY MarkFacts DEF Reads, ParserStates
<1> DEFINE c == block[1]
           z == Ends[i]
           o == MarkRead.offset
           q == c + blocklen - 1 - z
<1>5. c \in Nat /\ z \in Nat /\ o \in Nat /\ c + o = z + 3 /\ o < blocklen
  BY <1>2, <1>3, <1>4 DEF MarkSize
<1>6. c + blocklen - 1 = z + q /\ MayCut(c + blocklen - 1)
  BY <1>3, <1>5
<1>7. q \in Nat /\ q > MarkSize /\ q = blocklen + 2 - o
  <2> HIDE DEF c, z, o
  <2>1. QED
    BY <1>3, <1>5 DEF MarkSize
<1> HIDE DEF c, o, q
<1>8. ASSUME q < HeartBeatSize PROVE FALSE
  <2>1. MessageAt(z + q) = i + 1 /\ IndexAt(z + q) = q
    <3>1. q > 0 /\ q <= stream[i + 1].size /\ q \in Nat
      BY <1>2, <1>7, <1>8 DEF MarkSize
    <3>2. stream \in Seq(Messages)
      BY DEF IInv
    <3>3. QED
      BY <1>1, <3>1, <3>2, Located
  <2>2. MayCut(z + q)
    BY <1>6
  <2>3. q <= MarkSize \/ q = HeartBeatSize
    BY <2>1, <2>2 DEF MayCut
  <2>4. QED
    BY <1>2, <1>7, <1>8, <2>3 DEF MarkSize
<1>9. HeartBeatSize - 2 <= blocklen - o
  BY <1>2, <1>3, <1>5, <1>7, <1>8
<1>10. QED
  BY <1>9 DEF o, MarkSize

LEMMA NextHeartBeat ==
  ASSUME IInv, ~kicked, HeartBeatsWhole, HeartBeat
  PROVE  IInv'
<1> DEFINE s == MarkRead
           t == IF s.offset < blocklen THEN Copy(s, HeartBeatSize - s.size) ELSE s
<1>1. /\ Filtering /\ s.size >= MarkSize /\ s.header.mark = "beat"
      /\ IF t.size < HeartBeatSize THEN Store(t) /\ UNCHANGED dealt
                                   ELSE dealt' = dealt \o t.bytes /\ Over(t)
      /\ UNCHANGED <<stream, sent, m_list_RawData>> /\ kicked' = kicked
  BY DEF HeartBeat
<1>2. PICK i : Reading(i)
  BY <1>1, FilteringFacts
<1>3. /\ i \in 0..(Len(stream) - 1) /\ MessageInv(i) /\ m_list_RawData # <<>>
      /\ m_currentMessageSize \in Nat
  BY <1>1, <1>2, FilteringFacts DEF Reading, IInv, ParserInv
<1>4. /\ Reads(s, i) /\ stream[i + 1].mark = "beat"
      /\ m_currentMessageSize <= MarkSize => s.size <= MarkSize
      /\ m_currentMessageSize >= MarkSize => s.size = m_currentMessageSize
  BY <1>1, <1>2, MarkFacts
<1>5. s.size \in Nat /\ s.offset \in Nat /\ s.offset <= blocklen
  BY <1>4 DEF Reads, ParserStates
<1>6. s.size = MarkSize
  <2>1. m_currentMessageSize >= MarkSize => m_currentMessageSize = MarkSize
    BY <1>3, <1>4, <1>1 DEF MessageInv
  <2>2. QED
    BY <1>1, <1>3, <1>4, <1>5, <2>1 DEF MarkSize
<1>7. /\ stream[i + 1].size = HeartBeatSize /\ HeartBeatSize \in Nat
      /\ HeartBeatSize > MarkSize
  BY <1>3, <1>4, SizeFacts, FramingAssumption
<1>8. CASE ~(s.offset < blocklen)
  <2>1. t = s
    BY <1>8
  <2> HIDE DEF s, t
  <2>2. Store(s) /\ UNCHANGED dealt
    BY <1>1, <1>6, <1>7, <2>1
  <2>3. Within(s.size, stream[i + 1])
    BY <1>6, <1>7 DEF Within
  <2>4. QED
    BY <1>1, <1>3, <1>4, <1>6, <2>2, <2>3, Stored
<1>9. CASE s.offset < blocklen
  <2> DEFINE k == HeartBeatSize - MarkSize
  <2>1. k \in Nat /\ t = Copy(s, k) /\ k <= blocklen - s.offset
    <3>1. k \in Nat
      BY <1>7 DEF MarkSize
    <3>2. t = Copy(s, k)
      BY <1>6, <1>9
    <3>3. k <= blocklen - s.offset
      BY <1>1, <1>2, <1>4, <1>6, <1>9, BeatWhole
    <3>4. QED
      BY <3>1, <3>2, <3>3
  <2> HIDE DEF t
  <2>2. s.size + k = HeartBeatSize
    BY <1>6, <1>7 DEF MarkSize
  <2> HIDE DEF s, k
  <2>3. s.size + k <= stream[i + 1].size
    BY <1>7, <2>2
  <2>4. Reads(Copy(s, k), i) /\ Copy(s, k).size = s.size + k
    BY <1>3, <1>4, <2>1, <2>3, CopyReads
  <2>5. Reads(t, i) /\ t.size = HeartBeatSize
    BY <2>1, <2>2, <2>4
  <2>6. dealt' = dealt \o t.bytes /\ Over(t)
    BY <1>1, <1>7, <2>5
  <2>7. QED
    BY <1>1, <1>3, <1>7, <2>5, <2>6, Finished
<1>10. QED
  BY <1>8, <1>9

LEMMA NextPartOfHeader ==
  ASSUME IInv, ~kicked, PartOfHeader
  PROVE  IInv'
<1>1. /\ Filtering /\ MarkRead.size >= MarkSize /\ MarkRead.header.mark = "trans"
      /\ Store(HeaderDone)
      /\ UNCHANGED <<stream, sent, m_list_RawData, dealt>> /\ kicked' = kicked
  BY DEF PartOfHeader, HeaderDone
<1>2. PICK i : Reading(i)
  BY <1>1, FilteringFacts
<1>3. i \in 0..(Len(stream) - 1) /\ m_list_RawData # <<>>
  BY <1>1, <1>2, FilteringFacts DEF Reading
<1>4. /\ Reads(HeaderDone, i) /\ Within(HeaderDone.size, stream[i + 1])
      /\ HeaderDone.header.mark = "trans" /\ stream[i + 1].mark = "trans"
      /\ HeaderDone.size >= HeaderSize =>
           HeaderDone.header.data_length = stream[i + 1].size - HeaderSize
  BY <1>1, <1>2, HeaderFacts
<1>5. QED
  BY <1>1, <1>3, <1>4, Stored

LEMMA NextTransMessage ==
  ASSUME IInv, ~kicked, TransMessage
  PROVE  IInv'
<1> DEFINE u == DataRead
<1>1. /\ Filtering /\ MarkRead.size >= MarkSize /\ MarkRead.header.mark = "trans"
      /\ HeaderRead.size >= HeaderSize /\ HeaderRead.offset < blocklen
      /\ UNCHANGED <<stream, sent, m_list_RawData>> /\ kicked' = kicked
  BY DEF TransMessage
<1>2. PICK i : Reading(i)
  BY <1>1, FilteringFacts
<1>3. i \in 0..(Len(stream) - 1) /\ m_list_RawData # <<>>
  BY <1>1, <1>2, FilteringFacts DEF Reading
<1>4. /\ Reads(u, i) /\ stream[i + 1].mark = "trans" /\ u.header.mark = "trans"
      /\ u.header.data_length = stream[i + 1].size - HeaderSize
      /\ HeaderSize + u.header.data_length = stream[i + 1].size
      /\ u.size < stream[i + 1].size => u.size > HeaderSize
      /\ u.size \in Nat /\ u.size <= stream[i + 1].size
  BY <1>1, <1>2, DataFacts
<1>5. stream[i + 1].size \in Nat
  BY <1>3, SizeFacts
<1>6. \/ /\ u.size >= stream[i + 1].size /\ dealt' = dealt \o u.bytes /\ Over(u)
      \/ /\ ~(u.size >= stream[i + 1].size)
         /\ dealt' = dealt \o u.bytes /\ Store([u EXCEPT !.bytes = <<>>])
      \/ /\ ~(u.size >= stream[i + 1].size)
         /\ Store(u) /\ UNCHANGED dealt
  BY <1>4 DEF TransMessage
<1> HIDE DEF u
<1>7. CASE u.size >= stream[i + 1].size
  <2>1. u.size = stream[i + 1].size /\ dealt' = dealt \o u.bytes /\ Over(u)
    BY <1>4, <1>5, <1>6, <1>7
  <2>2. QED
    BY <1>1, <1>3, <1>4, <2>1, Finished
<1>8. CASE ~(u.size >= stream[i + 1].size)
  <2>1. u.size < stream[i + 1].size /\ u.size > HeaderSize
    BY <1>4, <1>5, <1>8
  <2>2. CASE dealt' = dealt \o u.bytes /\ Store([u EXCEPT !.bytes = <<>>])
    BY <1>1, <1>3, <1>4, <2>1, <2>2, Taken
  <2>3. CASE Store(u) /\ UNCHANGED dealt
    <3>1. Within(u.size, stream[i + 1])
      BY <2>1 DEF Within
    <3>2. QED
      BY <1>1, <1>3, <1>4, <2>3, <3>1, Stored
  <2>4. QED
    BY <1>6, <1>8, <2>2, <2>3
<1>9. QED
  BY <1>7, <1>8

LEMMA NextUnknownMark ==
  ASSUME IInv, ~kicked, UnknownMark
  PROVE  IInv'
<1>1. /\ Filtering /\ MarkRead.size >= MarkSize /\ MarkRead.header.mark = "unknown"
      /\ stream' = stream /\ kicked' = TRUE
  BY DEF UnknownMark
<1>2. PICK i : Reading(i)
  BY <1>1, FilteringFacts
<1>3. i + 1 \in 1..Len(stream)
  BY <1>2, SizeFacts DEF Reading
<1>4. stream[i + 1].mark = "unknown"
  BY <1>1, <1>2, MarkFacts
<1>5. QED
  BY <1>1, <1>3, <1>4 DEF IInv

-----------------------------------------------------------------------------
(* Blocks that come and go.                                                *)

\* What has been read stays the same when only the list of blocks changes.
LEMMA ListOnly ==
  ASSUME IInv, ~kicked, stream' = stream, kicked' = kicked,
         UNCHANGED <<m_currentMessageSize, m_currentBlock, m_currentHeader, dealt>>,
         BlocksInv', NextByte' = NextByte
  PROVE  IInv'
<1>1. Ends' = Ends
  BY SameStream
<1>2. PICK i \in 0..Len(stream) : MessageInv(i)
  BY DEF IInv, ParserInv
<1>3. MessageInv(i)'
  BY <1>1, <1>2 DEF MessageInv, Within
<1>4. (\E j \in 0..Len(stream) : MessageInv(j))'
  BY <1>2, <1>3 DEF MessageInv
<1>5. ParserInv'
  BY <1>4 DEF IInv, ParserInv
<1>6. QED
  BY <1>5 DEF IInv

\* IsBlock in the next state.
NowBlock(b) ==
  /\ Len(b) > 0 /\ b[1] \in Nat \ {0} /\ b = Span(b[1], Len(b))
  /\ b[1] + Len(b) - 1 <= sent' /\ MayCut(b[1] + Len(b) - 1)

\* BlocksInv in the next state, for a list l.
NowBlocks(l) ==
  /\ sent' \in 0..Total
  /\ l \in Seq(Seq(Nat))
  /\ \A k \in 1..Len(l) : NowBlock(l[k])
  /\ \A k \in 1..(Len(l) - 1) : l[k + 1][1] = l[k][1] + Len(l[k])
  /\ l # <<>> => l[Len(l)][1] + Len(l[Len(l)]) - 1 = sent'
  /\ m_currentReadOffset' \in Nat
  /\ IF l = <<>> THEN m_currentReadOffset' = 0 ELSE m_currentReadOffset' <= Len(l[1])

LEMMA BlocksKept ==
  ASSUME stream' = stream, NEW l, l = m_list_RawData', NowBlocks(l)
  PROVE  BlocksInv'
<1>1. Total' = Total /\ \A p : MayCut(p)' = MayCut(p)
  BY SameStream
<1>2. l # <<>> => Len(l) \in Nat \ {0} /\ block' = l[1] /\ blocklen' = Len(l[1])
  <2>1. SUFFICES ASSUME l # <<>> PROVE Len(l) \in Nat \ {0} /\ Head(l) = l[1]
    BY DEF block, blocklen
  <2>2. l \in Seq(Seq(Nat))
    BY DEF NowBlocks
  <2>3. QED
    BY <2>1, <2>2, EmptySeq, HeadTailProperties
<1>3. QED
  BY <1>1, <1>2 DEF BlocksInv, IsBlock, NowBlocks, NowBlock

LEMMA NextPush ==
  ASSUME IInv, ~kicked, push_new_data
  PROVE  IInv'
<1>1. PICK n \in 1..MaxBlock :
        /\ sent + n <= Total /\ MayCut(sent + n)
        /\ m_list_RawData' = Append(m_list_RawData, Span(sent + 1, n))
        /\ sent' = sent + n
        /\ UNCHANGED <<stream, parser, dealt, kicked>>
  BY DEF push_new_data
<1>2. /\ n \in Nat \ {0} /\ sent \in Nat /\ Total \in Nat /\ sent <= Total
  BY EndsGrow, FramingAssumption DEF IInv, ParserInv, BlocksInv
<1> DEFINE l == m_list_RawData
           b == Span(sent + 1, n)
           m == Append(l, b)
<1>3. b \in Seq(Nat) /\ Len(b) = n /\ b[1] = sent + 1
  <2>1. Len(b) = n /\ (\A j \in 1..n : b[j] = sent + j) /\ b \in Seq(Nat)
    BY <1>2, SpanFacts
  <2>2. 1 \in 1..n
    BY <1>2
  <2>3. QED
    BY <2>1, <2>2
<1>4. b = Span(b[1], Len(b)) /\ b[1] + Len(b) - 1 = sent + n
  <2>1. b = Span(sent + 1, n)
    OBVIOUS
  <2> HIDE DEF b
  <2>2. b[1] + Len(b) - 1 = sent + n
    BY <1>2, <1>3
  <2>3. QED
    BY <1>3, <2>1, <2>2
<1>5. l \in Seq(Seq(Nat))
  BY DEF IInv, ParserInv, BlocksInv
<1>6. /\ m \in Seq(Seq(Nat)) /\ Len(m) = Len(l) + 1 /\ Len(l) \in Nat
      /\ \A k \in 1..Len(l) : m[k] = l[k]
      /\ m[Len(l) + 1] = b /\ m # <<>>
  <2> HIDE DEF l, b
  <2>1. /\ m \in Seq(Seq(Nat)) /\ Len(m) = Len(l) + 1 /\ Len(l) \in Nat
        /\ \A k \in 1..Len(l) : m[k] = l[k]
        /\ m[Len(l) + 1] = b
    BY <1>3, <1>5, AppendProperties, LenProperties
  <2> HIDE DEF m
  <2>2. m # <<>>
    BY <2>1, EmptySeq
  <2>3. QED
    BY <2>1, <2>2
<1>7. /\ \A k \in 1..Len(l) : IsBlock(l[k])
      /\ \A k \in 1..(Len(l) - 1) : l[k + 1][1] = l[k][1] + Len(l[k])
      /\ l # <<>> => l[Len(l)][1] + Len(l[Len(l)]) - 1 = sent
      /\ m_currentReadOffset \in Nat
      /\ IF l = <<>> THEN m_currentReadOffset = 0 ELSE m_currentReadOffset <= blocklen
  BY DEF IInv, ParserInv, BlocksInv
<1>8. /\ sent' = sent + n /\ m_currentReadOffset' = m_currentReadOffset
      /\ m_list_RawData' = m /\ stream' = stream /\ kicked' = kicked /\ dealt' = dealt
      /\ m_currentMessageSize' = m_currentMessageSize /\ m_currentBlock' = m_currentBlock
      /\ m_currentHeader' = m_currentHeader /\ MayCut(sent + n) /\ sent + n <= Total
  BY <1>1 DEF parser
<1>9. l # <<>> => Len(l) \in Nat \ {0} /\ block = l[1] /\ blocklen = Len(l[1])
  BY <1>5, EmptySeq, HeadTailProperties DEF block, blocklen
<1>10. l = <<>> => Len(l) = 0
  BY EmptySeq
<1>l. l = m_list_RawData
  OBVIOUS
<1> HIDE DEF l, b, m
<1>11. \A k \in 1..Len(m) : NowBlock(m[k])
  <2>1. ASSUME NEW k \in 1..Len(m) PROVE NowBlock(m[k])
    <3>1. CASE k \in 1..Len(l)
      <4>1. m[k] = l[k] /\ IsBlock(l[k]) /\ l[k] \in Seq(Nat)
        BY <1>5, <1>6, <1>7, <3>1, ElementOfSeq
      <4> DEFINE c == l[k]
      <4>2. IsBlock(c) /\ Len(c) \in Nat
        BY <4>1, LenProperties
      <4> HIDE DEF c
      <4>3. c[1] + Len(c) - 1 <= sent + n
        BY <1>2, <4>2 DEF IsBlock
      <4>4. NowBlock(c)
        BY <1>8, <4>2, <4>3 DEF NowBlock, IsBlock
      <4>5. QED
        BY <4>1, <4>4 DEF c
    <3>2. CASE k = Len(l) + 1
      <4>1. m[k] = b
        BY <1>6, <3>2
      <4>2. Len(b) > 0 /\ b[1] \in Nat \ {0}
        BY <1>2, <1>3
      <4>3. b[1] + Len(b) - 1 <= sent' /\ MayCut(b[1] + Len(b) - 1)
        BY <1>2, <1>4, <1>8
      <4>4. QED
        BY <1>4, <4>1, <4>2, <4>3 DEF NowBlock
    <3>3. QED
      BY <1>6, <3>1, <3>2
  <2>2. QED
    BY <2>1
<1>12. \A k \in 1..(Len(m) - 1) : m[k + 1][1] = m[k][1] + Len(m[k])
  <2>1. ASSUME NEW k \in 1..(Len(m) - 1) PROVE m[k + 1][1] = m[k][1] + Len(m[k])
    <3>0. k \in 1..Len(l) /\ m[k] = l[k] /\ Len(l) \in Nat
      BY <1>6
    <3>1. CASE k # Len(l)
      <4>1. k \in 1..(Len(l) - 1) /\ k + 1 \in 1..Len(l)
        BY <3>0, <3>1
      <4>2. m[k + 1] = l[k + 1]
        BY <1>6, <4>1
      <4>3. QED
        BY <1>7, <3>0, <4>1, <4>2
    <3>2. CASE k = Len(l)
      <4> DEFINE c == l[Len(l)]
      <4>1. l # <<>> /\ c \in Seq(Nat) /\ IsBlock(c)
        BY <1>5, <1>7, <1>10, <3>0, <3>2, ElementOfSeq
      <4>2. c[1] + Len(c) - 1 = sent
        BY <1>7, <4>1
      <4>3. m[k] = c /\ m[k + 1] = b
        BY <1>6, <3>0, <3>2
      <4> HIDE DEF c
      <4>4. c[1] \in Nat /\ Len(c) \in Nat
        BY <4>1, LenProperties DEF IsBlock
      <4>5. c[1] + Len(c) = sent + 1
        BY <1>2, <4>2, <4>4
      <4>6. QED
        BY <1>3, <4>3, <4>5
    <3>3. QED
      BY <3>1, <3>2
  <2>2. QED
    BY <2>1
<1>13. m[Len(m)][1] + Len(m[Len(m)]) - 1 = sent'
  BY <1>4, <1>6, <1>8
<1>14. m_currentReadOffset' \in Nat /\ m_currentReadOffset' <= Len(m[1])
  <2>1. CASE l = <<>>
    <3>1. m[1] = b
      BY <1>6, <1>10, <2>1
    <3>2. QED
      BY <1>2, <1>3, <1>7, <1>8, <2>1, <3>1
  <2>2. CASE l # <<>>
    <3>1. m[1] = l[1]
      BY <1>6, <1>9, <2>2
    <3>2. QED
      BY <1>7, <1>8, <1>9, <2>2, <3>1
  <2>3. QED
    BY <2>1, <2>2
<1>15. sent' \in 0..Total
  BY <1>2, <1>8
<1>16. BlocksInv'
  <2>1. NowBlocks(m)
    BY <1>6, <1>11, <1>12, <1>13, <1>14, <1>15 DEF NowBlocks
  <2>2. QED
    BY <1>8, <2>1, BlocksKept
<1>17. NextByte' = NextByte
  <2>0. block' = m[1]
    BY <1>6, <1>8, HeadTailProperties DEF block
  <2>1. NextByte' = m[1][1] + m_currentReadOffset
    BY <1>6, <1>8, <2>0 DEF NextByte
  <2>2. CASE l = <<>>
    <3>1. m[1] = b /\ m_currentReadOffset = 0
      BY <1>6, <1>7, <1>10, <2>2
    <3>2. NextByte = sent + 1
      BY <1>l, <2>2 DEF NextByte
    <3>3. QED
      BY <1>2, <1>3, <2>1, <3>1, <3>2
  <2>3. CASE l # <<>>
    <3>1. m[1] = l[1] /\ block = l[1]
      BY <1>6, <1>9, <2>3
    <3>2. NextByte = block[1] + m_currentReadOffset
      BY <1>l, <2>3 DEF NextByte
    <3>3. QED
      BY <2>1, <3>1, <3>2
  <2>4. QED
    BY <2>2, <2>3
<1>18. QED
  BY <1>8, <1>16, <1>17, ListOnly

LEMMA NextPop ==
  ASSUME IInv, ~kicked, PopBlock
  PROVE  IInv'
<1> DEFINE l == m_list_RawData
           m == Tail(l)
<1>1. /\ l # <<>> /\ m_currentReadOffset >= blocklen
      /\ m_list_RawData' = m /\ m_currentReadOffset' = 0
      /\ UNCHANGED <<stream, sent, m_currentMessageSize, m_currentBlock,
                     m_currentHeader, dealt, kicked>>
  BY DEF PopBlock
<1>2. /\ l \in Seq(Seq(Nat))
      /\ \A k \in 1..Len(l) : IsBlock(l[k])
      /\ \A k \in 1..(Len(l) - 1) : l[k + 1][1] = l[k][1] + Len(l[k])
      /\ l[Len(l)][1] + Len(l[Len(l)]) - 1 = sent
      /\ sent \in 0..Total /\ Total \in Nat
  BY <1>1, EndsGrow DEF IInv, ParserInv, BlocksInv
<1>3. /\ blocklen \in Nat \ {0} /\ block[1] \in Nat \ {0} /\ block = l[1]
      /\ m_currentReadOffset \in Nat /\ m_currentReadOffset <= blocklen
      /\ blocklen = Len(l[1])
  BY <1>1, BlockFacts DEF blocklen
<1>4. m_currentReadOffset = blocklen
  BY <1>1, <1>3
<1>l. l = m_list_RawData
  OBVIOUS
<1> HIDE DEF l
<1>5. /\ m \in Seq(Seq(Nat)) /\ Len(m) = Len(l) - 1 /\ Len(l) \in Nat \ {0}
      /\ \A k \in 1..(Len(l) - 1) : m[k] = l[k + 1]
  BY <1>1, <1>2, EmptySeq, HeadTailProperties
<1> HIDE DEF m
<1>6. m = <<>> <=> Len(l) = 1
  <2>1. m = <<>> <=> Len(m) = 0
    BY <1>5, EmptySeq
  <2>2. Len(m) = 0 <=> Len(l) = 1
    BY <1>5
  <2>3. QED
    BY <2>1, <2>2
<1>7. \A k \in 1..Len(m) : NowBlock(m[k])
  <2>1. ASSUME NEW k \in 1..Len(m) PROVE NowBlock(m[k])
    <3>1. k + 1 \in 1..Len(l) /\ m[k] = l[k + 1]
      BY <1>5
    <3>2. IsBlock(l[k + 1])
      BY <1>2, <3>1
    <3>3. QED
      BY <1>1, <3>1, <3>2 DEF IsBlock, NowBlock
  <2>2. QED
    BY <2>1
<1>8. \A k \in 1..(Len(m) - 1) : m[k + 1][1] = m[k][1] + Len(m[k])
  <2>1. ASSUME NEW k \in 1..(Len(m) - 1) PROVE m[k + 1][1] = m[k][1] + Len(m[k])
    <3> DEFINE q == k + 1
    <3>1. q \in 1..(Len(l) - 1) /\ k \in 1..(Len(l) - 1)
      BY <1>5
    <3>2. m[k] = l[q]
      BY <1>5, <3>1
    <3>3. k + 1 = q
      OBVIOUS
    <3> HIDE DEF q
    <3>4. m[q] = l[q + 1] /\ l[q + 1][1] = l[q][1] + Len(l[q])
      BY <1>2, <1>5, <3>1
    <3>5. QED
      BY <3>2, <3>3, <3>4
  <2>2. QED
    BY <2>1
<1>9. m # <<>> => m[Len(m)] = l[Len(l)] /\ Len(m[1]) \in Nat /\ m[1] = l[2]
  <2>1. SUFFICES ASSUME m # <<>>
                 PROVE  m[Len(m)] = l[Len(l)] /\ Len(m[1]) \in Nat /\ m[1] = l[2]
    OBVIOUS
  <2>2. Len(l) - 1 \in 1..(Len(l) - 1) /\ 1 \in 1..(Len(l) - 1) /\ (Len(l) - 1) + 1 = Len(l)
    BY <1>5, <1>6, <2>1
  <2>3. m[Len(m)] = l[Len(l)] /\ m[1] = l[2]
    BY <1>5, <2>2
  <2>4. m[1] \in Seq(Nat)
    BY <1>5, <2>2, ElementOfSeq
  <2>5. QED
    BY <2>3, <2>4, LenProperties
<1>10. BlocksInv'
  <2>1. m # <<>> => m[Len(m)][1] + Len(m[Len(m)]) - 1 = sent'
    BY <1>1, <1>2, <1>9
  <2>2. sent' \in 0..Total /\ m_currentReadOffset' \in Nat
    BY <1>1, <1>2
  <2>3. m # <<>> => m_currentReadOffset' <= Len(m[1])
    BY <1>1, <1>9
  <2>4. NowBlocks(m)
    BY <1>1, <1>5, <1>7, <1>8, <2>1, <2>2, <2>3 DEF NowBlocks
  <2>5. QED
    BY <1>1, <2>4, BlocksKept
<1>11. NextByte = l[1][1] + Len(l[1])
  BY <1>1, <1>3, <1>4, <1>l DEF NextByte
<1>12. NextByte' = NextByte
  <2>1. CASE m = <<>>
    <3> DEFINE c == l[1]
    <3>1. c[1] + Len(c) - 1 = sent /\ c[1] \in Nat /\ Len(c) \in Nat /\ sent \in Nat
      <4>1. Len(l) = 1
        BY <1>6, <2>1
      <4>2. l[1][1] + Len(l[1]) - 1 = sent
        BY <1>2, <4>1
      <4>3. l[1][1] \in Nat /\ Len(l[1]) \in Nat /\ sent \in Nat
        BY <1>2, <1>3
      <4>4. QED
        BY <4>2, <4>3
    <3> HIDE DEF c
    <3>2. c[1] + Len(c) = sent + 1
      BY <3>1
    <3>3. NextByte' = sent + 1
      BY <1>1, <2>1 DEF NextByte
    <3>4. QED
      BY <1>11, <3>2, <3>3 DEF c
  <2>2. CASE m # <<>>
    <3>1. block' = m[1]
      BY <1>1, <1>5, <2>2, HeadTailProperties DEF block
    <3>2. NextByte' = l[2][1] + 0
      BY <1>1, <1>9, <2>2, <3>1 DEF NextByte
    <3>3. 1 \in 1..(Len(l) - 1) /\ 2 \in 1..Len(l)
      BY <1>5, <1>6, <2>2
    <3>4. l[1 + 1][1] = l[1][1] + Len(l[1])
      BY <1>2, <3>3
    <3>5. l[2][1] \in Nat
      BY <1>2, <3>3 DEF IsBlock
    <3>6. QED
      BY <1>11, <3>2, <3>4, <3>5
  <2>3. QED
    BY <2>1, <2>2
<1>13. QED
  BY <1>1, <1>10, <1>12, ListOnly

-----------------------------------------------------------------------------
(* The theorems.                                                           *)

LEMMA InitIInv ==
  ASSUME Init
  PROVE  IInv
<1>1. /\ sent = 0 /\ m_list_RawData = <<>> /\ m_currentReadOffset = 0
      /\ m_currentMessageSize = 0 /\ m_currentBlock = <<>> /\ dealt = <<>>
      /\ m_currentHeader = [mark |-> "unknown", data_length |-> 0] /\ kicked = FALSE
  BY DEF Init
<1>2. stream \in Seq(Messages)
  <2>1. PICK n \in 1..MaxMessages : stream \in [1..n -> Messages]
    BY DEF Init
  <2>2. n \in Nat
    BY FramingAssumption
  <2>3. QED
    BY <2>1, <2>2
<1>3. /\ Ends[0] = 0 /\ Len(stream) \in Nat /\ Total \in Nat /\ 0 \in 0..Len(stream)
  BY <1>2, EndsDef, EndsGrow
<1>4. <<>> \in Seq(Nat) /\ <<>> \in Seq(Seq(Nat)) /\ <<>> \o <<>> = <<>>
  BY EmptySeq, ConcatEmptySeq
<1>5. Span(1, 0) = <<>>
  <2> DEFINE z == 0
  <2>1. z \in Nat /\ z + 1 = 1
    OBVIOUS
  <2> HIDE DEF z
  <2>2. Span(z + 1, 0) = <<>>
    BY <2>1, SpanEmpty
  <2>3. QED
    BY <2>1, <2>2
<1>6. BlocksInv
  <2>1. Len(m_list_RawData) = 0
    BY <1>1, EmptySeq
  <2>2. QED
    BY <1>1, <1>3, <1>4, <2>1 DEF BlocksInv
<1>7. MessageInv(0)
  <2>1. NextByte - 1 = Ends[0] + m_currentMessageSize
    BY <1>1, <1>3 DEF NextByte
  <2>2. Ends[0] + m_currentMessageSize = 0 /\ Ends[0] + 1 = 1
    BY <1>1, <1>3
  <2>3. QED
    BY <1>1, <1>4, <1>5, <2>1, <2>2 DEF MessageInv, MarkSize
<1>8. m_currentHeader \in Headers
  BY <1>1 DEF Headers
<1>9. QED
  BY <1>1, <1>2, <1>3, <1>4, <1>6, <1>7, <1>8 DEF IInv, ParserInv

\* Once the client is to be closed the parser may do anything.
LEMMA NextKicked ==
  ASSUME IInv, kicked, [Next]_vars
  PROVE  IInv'
<1>1. stream' = stream /\ (kicked' = kicked \/ kicked' = TRUE)
  BY DEF Next, push_new_data, filter_message, PartOfMark, HeartBeat, PartOfHeader,
         TransMessage, UnknownMark, PopBlock, vars
<1>2. kicked = TRUE
  BY DEF IInv
<1>3. QED
  BY <1>1, <1>2 DEF IInv

LEMMA NextIInv ==
  ASSUME IInv, HeartBeatsWhole, [Next]_vars
  PROVE  IInv'
<1>1. CASE kicked
  BY <1>1, NextKicked
<1>2. CASE ~kicked
  <2>1. CASE push_new_data
    BY <1>2, <2>1, NextPush
  <2>2. CASE PartOfMark
    BY <1>2, <2>2, NextPartOfMark
  <2>3. CASE HeartBeat
    BY <1>2, <2>3, NextHeartBeat
  <2>4. CASE PartOfHeader
    BY <1>2, <2>4, NextPartOfHeader
  <2>5. CASE TransMessage
    BY <1>2, <2>5, NextTransMessage
  <2>6. CASE UnknownMark
    BY <1>2, <2>6, NextUnknownMark
  <2>7. CASE PopBlock
    BY <1>2, <2>7, NextPop
  <2>8. CASE UNCHANGED vars
    <3>1. /\ stream' = stream /\ sent' = sent /\ m_list_RawData' = m_list_RawData
          /\ m_currentReadOffset' = m_currentReadOffset /\ kicked' = kicked
          /\ UNCHANGED <<m_currentMessageSize, m_currentBlock, m_currentHeader, dealt>>
      BY <2>8 DEF vars, parser
    <3>2. BlocksInv
      BY <1>2 DEF IInv, ParserInv
    <3>3. Total' = Total /\ (\A p : MayCut(p)' = MayCut(p)) /\ block' = block
          /\ blocklen' = blocklen
      BY <3>1, SameStream DEF block, blocklen
    <3>4. BlocksInv'
      BY <3>1, <3>2, <3>3 DEF BlocksInv, IsBlock
    <3>5. NextByte' = NextByte
      BY <3>1, <3>3 DEF NextByte
    <3>6. QED
      BY <1>2, <3>1, <3>4, <3>5, ListOnly
  <2>9. QED
    BY <2>1, <2>2, <2>3, <2>4, <2>5, <2>6, <2>7, <2>8 DEF Next, filter_message
<1>3. QED
  BY <1>1, <1>2

\* Where no heart beat is cut behind its mark, whatever else the cuts are: the
\* parser is in one message of the client, in step with it.
THEOREM IInvCorrect ==
  ASSUME HeartBeatsWhole
  PROVE  Spec => []IInv
<1>1. Init => IInv
  BY InitIInv
<1>2. IInv /\ [Next]_vars => IInv'
  BY NextIInv
<1>3. QED
  BY <1>1, <1>2, PTL DEF Spec

\* Until the client is closed every byte read is dealt with or kept, in the
\* order in which it was sent, whatever the messages are and however the
\* socket cuts them.
THEOREM ConservedCorrect ==
  ASSUME HeartBeatsWhole
  PROVE  Spec => []Conserved
<1>1. IInv => Conserved
  <2>1. SUFFICES ASSUME IInv, ~kicked
                 PROVE  dealt \o m_currentBlock = Span(1, NextByte - 1)
    BY DEF Conserved
  <2>2. PICK i \in 0..Len(stream) : MessageInv(i)
    BY <2>1 DEF IInv, ParserInv
  <2>3. QED
    BY <2>2 DEF MessageInv
<1>2. QED
  BY <1>1, IInvCorrect, PTL

\* The parser begins a message where the client began one, and closes none but
\* a client that sent an unknown mark.
THEOREM InStepCorrect ==
  ASSUME HeartBeatsWhole
  PROVE  Spec => []InStep
<1>1. IInv => InStep
  <2>1. SUFFICES ASSUME IInv PROVE InStep
    OBVIOUS
  <2>2. CASE kicked
    BY <2>1, <2>2 DEF IInv, InStep
  <2>3. CASE ~kicked
    <3>1. PICK i \in 0..Len(stream) : MessageInv(i)
      BY <2>1, <2>3 DEF IInv, ParserInv
    <3>2. NextByte - 1 - m_currentMessageSize = Ends[i]
      <4> DEFINE z == Ends[i]
                 n == m_currentMessageSize
                 y == NextByte - 1
      <4>1. z \in Nat /\ n \in Nat /\ y = z + n
        BY <2>1, <2>3, <3>1, EndsGrow DEF IInv, ParserInv, MessageInv
      <4> HIDE DEF z, n, y
      <4>2. y - n = z
        BY <4>1
      <4>3. QED
        BY <4>2 DEF z, n, y
    <3>3. m_currentMessageSize >= MarkSize => m_currentHeader.mark = stream[i + 1].mark
      BY <3>1 DEF MessageInv
    <3>4. QED
      BY <2>3, <3>2, <3>3 DEF InStep
  <2>4. QED
    BY <2>2, <2>3
<1>2. QED
  BY <1>1, IInvCorrect, PTL

\* A message whose last byte has come does not wait for another block, unless
\* it is a header without data that ends with its block.
THEOREM PromptCorrect ==
  ASSUME HeartBeatsWhole
  PROVE  Spec => []Prompt
<1>1. IInv => Prompt
  <2>1. SUFFICES ASSUME IInv, m_list_RawData = <<>>, ~kicked, m_currentMessageSize > 0
                 PROVE  Within(m_currentMessageSize, stream[MessageAt(sent)])
    BY DEF Prompt, Within
  <2>2. PICK i \in 0..Len(stream) : MessageInv(i)
    BY <2>1 DEF IInv, ParserInv
  <2>3. /\ m_currentMessageSize \in Nat /\ i < Len(stream) /\ sent \in Nat
        /\ Within(m_currentMessageSize, stream[i + 1]) /\ stream \in Seq(Messages)
        /\ Ends[i] \in Nat /\ Len(stream) \in Nat
    BY <2>1, <2>2, EndsGrow DEF IInv, ParserInv, BlocksInv, MessageInv
  <2>4. i \in 0..(Len(stream) - 1) /\ stream[i + 1].size \in Nat
    <3>1. i \in 0..(Len(stream) - 1)
      BY <2>3
    <3>2. QED
      BY <2>1, <3>1, SizeFacts
  <2>5. sent = Ends[i] + m_currentMessageSize
    <3>1. NextByte = sent + 1 /\ NextByte - 1 = Ends[i] + m_currentMessageSize
      BY <2>1, <2>2 DEF NextByte, MessageInv
    <3>2. sent + 1 - 1 = sent
      BY <2>3
    <3>3. NextByte - 1 = sent
      BY <2>3, <3>1, <3>2
    <3>4. QED
      BY <3>1, <3>3
  <2>6. m_currentMessageSize <= stream[i + 1].size
    BY <2>3, <2>4 DEF Within
  <2>7. MessageAt(Ends[i] + m_currentMessageSize) = i + 1
    BY <2>1, <2>3, <2>4, <2>6, Located
  <2>8. QED
    BY <2>3, <2>5, <2>7
<1>2. QED
  BY <1>1, IInvCorrect, PTL

\* It takes a heart beat in two blocks for filter_message to read behind the
\* end of a block, as long as the client is not to be closed.
THEOREM UsedWithinBlockCorrect ==
  ASSUME HeartBeatsWhole
  PROVE  Spec => [](~kicked => UsedWithinBlock)
<1>1. IInv => (~kicked => UsedWithinBlock)
  BY DEF IInv, ParserInv, BlocksInv, UsedWithinBlock
<1>2. QED
  BY <1>1, IInvCorrect, PTL
=============================================================================
