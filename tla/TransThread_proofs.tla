------------------------- MODULE TransThread_proofs -------------------------
(* The bytes written to a socket are the messages, in order and complete up *)
(* to the last byte written, for any number and any sizes of messages.      *)
EXTENDS TransThread, SequenceTheorems, TLAPS

\* InOrder of bytes w and message sizes a.
After(a, b) == IF b[2] < a[b[1]] THEN <<b[1], b[2] + 1>> ELSE <<b[1] + 1, 1>>
Chain(w, a) ==
  /\ w # <<>> => w[1] = First
  /\ \A i \in 1..(Len(w) - 1) : w[i + 1] = After(a, w[i])
  /\ \A i \in 1..Len(w) : w[i][1] \in 1..Len(a)

\* The last byte of w is the one before byte off + 1 of message m.
EndsAt(w, a, m, off) ==
  IF off > 0 THEN w # <<>> /\ w[Len(w)] = <<m, off>>
  ELSE IF m = 1 THEN w = <<>> ELSE w # <<>> /\ w[Len(w)] = <<m - 1, a[m - 1]>>

Positive == Nat \ {0}
Positions == Nat \X Nat

Types ==
  /\ sock \in {"none", "connected", "closing", "unconnected"}
  /\ events \in Seq(Events)
  /\ accepted \in Seq(Positive)
  /\ m_buffer_sending \in Seq(Nat) /\ m_buffer_sending_offset \in Seq(Int)
  /\ written \in Seq(Positions)

\* A socket that the thread has let go of, or whose end is queued, is unconnected.
SockInv ==
  /\ \A i \in 1..Len(events) : events[i].kind = "disconnected" => sock = "unconnected"
  /\ ~listed => sock \in {"none", "unconnected"}
  /\ sock = "none" => ~listed

\* What waits is the last messages taken, one after the other; only the first of
\* them has been written in part.
ListsInv ==
  /\ Len(m_buffer_sending) = Len(m_buffer_sending_offset)
  /\ Len(m_buffer_sending) <= Len(accepted)
  /\ \A i \in 1..Len(m_buffer_sending) :
       /\ m_buffer_sending[i] = Len(accepted) - Len(m_buffer_sending) + i
       /\ i > 1 => m_buffer_sending_offset[i] = 0
  /\ pumping => m_buffer_sending # <<>>

\* The next byte to be written is the one behind the last, as long as any can be.
NextInv ==
  Writable =>
    IF m_buffer_sending = <<>> THEN EndsAt(written, accepted, Len(accepted) + 1, 0)
    ELSE /\ m_buffer_sending_offset[1] \in 0..(accepted[m_buffer_sending[1]] - 1)
         /\ EndsAt(written, accepted, m_buffer_sending[1], m_buffer_sending_offset[1])

IInv == Types /\ SockInv /\ ListsInv /\ NextInv /\ Chain(written, accepted)

-----------------------------------------------------------------------------

\* A piece of n bytes of message m behind its first off goes on from w.
LEMMA PieceGoesOn ==
  ASSUME NEW w \in Seq(Positions), NEW a \in Seq(Positive), Chain(w, a),
         NEW m \in 1..Len(a), NEW off \in Nat, NEW n \in Positive,
         off + n <= a[m], EndsAt(w, a, m, off)
  PROVE  /\ w \o Bytes(m, off, n) \in Seq(Positions)
         /\ Chain(w \o Bytes(m, off, n), a)
         /\ EndsAt(w \o Bytes(m, off, n), a, m, off + n)
<1> DEFINE b == Bytes(m, off, n)
           v == w \o b
<1>1. b \in Seq(Positions) /\ Len(b) = n /\ \A j \in 1..n : b[j] = <<m, off + j>>
  BY DEF Bytes, Positions, Positive
<1>2. /\ v \in Seq(Positions) /\ Len(v) = Len(w) + n
      /\ \A i \in 1..Len(w) : v[i] = w[i]
      /\ \A i \in (Len(w) + 1)..Len(v) : v[i] = <<m, off + (i - Len(w))>>
  <2> HIDE DEF b
  <2>1. Len(v) = Len(w) + n /\ v \in Seq(Positions)
    <3>1. v \in Seq(Positions)
      BY <1>1
    <3>2. Len(v) = Len(w) + Len(b)
      BY <1>1, ConcatProperties
    <3>3. QED
      BY <1>1, <3>1, <3>2
  <2>2. \A i \in 1..Len(w) : v[i] = w[i]
    BY <1>1
  <2>3. ASSUME NEW i \in (Len(w) + 1)..Len(v)
        PROVE  v[i] = <<m, off + (i - Len(w))>>
    <3>1. v[i] = b[i - Len(w)] /\ i - Len(w) \in 1..n
      BY <1>1, <2>1 DEF Positive
    <3>2. QED
      BY <1>1, <3>1
  <2>4. QED
    BY <2>1, <2>2, <2>3
<1> HIDE DEF v
<1>3. v[1] = First
  <2>1. CASE w = <<>>
    BY <1>2, <2>1 DEF EndsAt, First, Positive, Positions, Chain
  <2>2. CASE w # <<>>
    BY <1>2, <2>2 DEF Chain, First
  <2>3. QED
    BY <2>1, <2>2
<1>4. ASSUME NEW i \in 1..(Len(v) - 1)
      PROVE  v[i + 1] = After(a, v[i])
  <2>1. CASE i < Len(w)
    <3>1. i \in 1..(Len(w) - 1) /\ i \in 1..Len(w) /\ i + 1 \in 1..Len(w)
      BY <1>2, <2>1 DEF Positive
    <3>2. w[i + 1] = After(a, w[i])
      BY <3>1 DEF Chain
    <3>3. QED
      BY <1>2, <3>1, <3>2
  <2>2. CASE i = Len(w)
    <3>1. w # <<>> /\ v[i] = w[Len(w)] /\ v[i + 1] = <<m, off + 1>>
      <4>1. i \in 1..Len(w) /\ i + 1 \in (Len(w) + 1)..Len(v) /\ (i + 1) - Len(w) = 1
        BY <1>2, <2>2 DEF Positive
      <4>2. v[i] = w[i] /\ v[i + 1] = <<m, off + ((i + 1) - Len(w))>>
        BY <1>2, <4>1
      <4>3. QED
        BY <2>2, <4>1, <4>2
    <3>2. CASE off > 0
      BY <3>1, <3>2 DEF EndsAt, After, Positive
    <3>3. CASE off = 0
      BY <3>1, <3>3 DEF EndsAt, After, Positive
    <3>4. QED
      BY <3>2, <3>3
  <2>3. CASE i > Len(w)
    <3>1. v[i] = <<m, off + (i - Len(w))>> /\ v[i + 1] = <<m, off + (i - Len(w)) + 1>>
      BY <1>2, <2>3
    <3>2. off + (i - Len(w)) < a[m]
      BY <1>2 DEF Positive
    <3>3. QED
      BY <3>1, <3>2 DEF After
  <2>4. QED
    BY <2>1, <2>2, <2>3
<1>5. ASSUME NEW i \in 1..Len(v)
      PROVE  v[i][1] \in 1..Len(a)
  <2>1. Len(w) \in Nat
    OBVIOUS
  <2>2. CASE i \in 1..Len(w)
    BY <1>2, <2>2 DEF Chain
  <2>3. CASE i \in (Len(w) + 1)..Len(v)
    BY <1>2, <2>3
  <2>4. QED
    BY <1>2, <2>1, <2>2, <2>3
<1>6. Chain(v, a)
  BY <1>3, <1>4, <1>5 DEF Chain
<1>7. EndsAt(v, a, m, off + n)
  BY <1>2 DEF EndsAt, Positive
<1>8. QED
  BY <1>2, <1>6, <1>7 DEF v

\* The end of message m is where message m + 1 starts.
LEMMA MessageEnds ==
  ASSUME NEW w \in Seq(Positions), NEW a \in Seq(Positive), NEW m \in 1..Len(a),
         EndsAt(w, a, m, a[m])
  PROVE  EndsAt(w, a, m + 1, 0)
BY DEF EndsAt, Positive

\* Taking another message changes nothing of what has been written.
LEMMA TakeMessage ==
  ASSUME NEW w \in Seq(Positions), NEW a \in Seq(Positive), NEW s \in Positive
  PROVE  /\ Chain(w, a) => Chain(w, Append(a, s))
         /\ \A m \in 1..(Len(a) + 1), off \in Nat :
              EndsAt(w, a, m, off) => EndsAt(w, Append(a, s), m, off)
<1>1. /\ Len(Append(a, s)) = Len(a) + 1
      /\ \A i \in 1..Len(a) : Append(a, s)[i] = a[i]
  OBVIOUS
<1> DEFINE c == Append(a, s)
<1> HIDE DEF c
<1>2. Len(c) = Len(a) + 1 /\ \A i \in 1..Len(a) : c[i] = a[i]
  BY <1>1 DEF c
<1>3. Chain(w, a) => Chain(w, c)
  BY <1>2 DEF Chain, After
<1>4. \A m \in 1..(Len(a) + 1), off \in Nat : EndsAt(w, a, m, off) => EndsAt(w, c, m, off)
  BY <1>2 DEF EndsAt
<1>5. QED
  BY <1>3, <1>4 DEF c

-----------------------------------------------------------------------------

LEMMA InitIInv == Init => IInv
<1>1. Init => Types /\ SockInv /\ ListsInv
  BY DEF Init, Types, SockInv, ListsInv
<1>2. Init => Chain(written, accepted)
  BY DEF Init, Chain
<1>3. Init => NextInv
  BY DEF Init, NextInv, EndsAt
<1>4. QED
  BY <1>1, <1>2, <1>3 DEF IInv

\* A slot or another thread that leaves the lists and the output alone.
LEMMA Elsewhere ==
  ASSUME IInv, Types', SockInv', sock = "unconnected" => sock' = "unconnected",
         UNCHANGED <<accepted, buffers, written>>, pumping' => m_buffer_sending # <<>>
  PROVE  IInv'
<1>1. ListsInv' /\ Chain(written, accepted)'
  BY DEF IInv, ListsInv, buffers, Chain, After
<1>2. NextInv'
  BY DEF IInv, NextInv, Writable, buffers, EndsAt
<1>3. QED
  BY <1>1, <1>2 DEF IInv

\* What a queue holds when an event that is no end of the connection is put behind it.
LEMMA PostIInv ==
  ASSUME IInv, NEW e \in Events, e.kind # "disconnected", events' = Append(events, e),
         UNCHANGED <<sock, listed, accepted, buffers, written, pumping>>
  PROVE  IInv'
<1>1. Types'
  BY DEF IInv, Types, buffers
<1>2. SockInv'
  <2>1. \A i \in 1..Len(events') : events'[i].kind = "disconnected" => i \in 1..Len(events) /\ events'[i] = events[i]
    BY DEF IInv, Types
  <2>2. QED
    BY <2>1 DEF IInv, SockInv
<1>3. QED
  BY <1>1, <1>2, Elsewhere DEF IInv, ListsInv

\* What is left of the queue when its first event is handled.
LEMMA HandledTail ==
  ASSUME IInv, events # <<>>, Handled
  PROVE  /\ events' \in Seq(Events)
         /\ \A i \in 1..Len(events') : i + 1 \in 1..Len(events) /\ events'[i] = events[i + 1]
BY DEF IInv, Types, Handled

\* The steps of other threads and of the socket.
LEMMA OutsideIInv ==
  ASSUME IInv, \/ SendData \/ KickClients
               \/ ~pumping /\ (incomingConnection \/ Receive \/ Flush \/ Broken)
  PROVE  IInv'
<1>1. \A k \in {"kick", "readyRead", "bytesWritten", "error", "disconnected"} :
        Event(k) \in Events /\ Event(k).kind = k
  BY DEF Event, Events, SocketEvents
<1>2. ASSUME NEW e \in Events, Event("disconnected") \in Events,
             events' = events \o <<e, Event("disconnected")>>, sock' = "unconnected",
             UNCHANGED <<listed, accepted, buffers, written, pumping>>
      PROVE  IInv'
  <2>1. Types'
    BY <1>2 DEF IInv, Types, buffers
  <2>2. SockInv'
    BY <1>2 DEF IInv, SockInv
  <2>3. QED
    BY <1>2, <2>1, <2>2, Elsewhere DEF IInv, ListsInv
<1>3. CASE SendData
  <2>1. PICK n \in Sizes : events' = Append(events, [kind |-> "send", size |-> n])
    BY <1>3 DEF SendData
  <2>2. [kind |-> "send", size |-> n] \in Events
    BY DEF Events, SendEvents
  <2>3. QED
    BY <1>3, <2>1, <2>2, PostIInv DEF SendData, output
<1>4. CASE KickClients
  BY <1>1, <1>4, PostIInv DEF KickClients, Post, output
<1>5. CASE ~pumping /\ incomingConnection
  <2>1. SockInv'
    BY <1>5 DEF IInv, SockInv, incomingConnection
  <2>2. Types'
    BY <1>5 DEF IInv, Types, incomingConnection, buffers, output
  <2>3. QED
    BY <1>5, <2>1, <2>2, Elsewhere DEF incomingConnection, output
<1>6. CASE Receive
  BY <1>1, <1>6, PostIInv DEF Receive, Post, output
<1>7. CASE Flush
  BY <1>1, <1>2, <1>7, PostIInv DEF Flush, Post
<1>8. CASE Broken
  BY <1>1, <1>2, <1>8, PostIInv DEF Broken, Post
<1>9. QED
  BY <1>3, <1>4, <1>5, <1>6, <1>7, <1>8

\* The slots that write nothing.
LEMMA EventIInv ==
  ASSUME IInv, ~pumping, some_data_sended \/ new_data_recieved \/ KickClient
  PROVE  IInv'
<1>1. CASE some_data_sended \/ new_data_recieved
  <2>1. Types'
    BY <1>1, HandledTail DEF IInv, Types, some_data_sended, new_data_recieved, Next1, buffers, output
  <2>2. SockInv'
    BY <1>1, HandledTail DEF IInv, SockInv, some_data_sended, new_data_recieved, Next1
  <2>3. pumping' => m_buffer_sending # <<>>
    BY <1>1 DEF some_data_sended, new_data_recieved, Waits
  <2>4. QED
    BY <1>1, <2>1, <2>2, <2>3, Elsewhere DEF some_data_sended, new_data_recieved, output
<1>2. CASE KickClient
  <2>1. Tail(events) \in Seq(Events) /\ \A i \in 1..Len(Tail(events)) :
          i + 1 \in 1..Len(events) /\ Tail(events)[i] = events[i + 1]
    BY <1>2 DEF KickClient, Next1, IInv, Types
  <2>2. Event("disconnected") \in Events
    BY DEF Event, Events, SocketEvents
  <2>3. Types'
    <3>1. events' \in Seq(Events)
      BY <1>2, <2>1, <2>2 DEF KickClient, Handled
    <3>2. sock' \in {"none", "connected", "closing", "unconnected"}
      BY <1>2 DEF IInv, Types, KickClient
    <3>3. UNCHANGED <<accepted, buffers, written>>
      BY <1>2 DEF KickClient, output
    <3>4. QED
      BY <3>1, <3>2, <3>3 DEF IInv, Types, buffers
  <2>4. SockInv'
    BY <1>2, <2>1 DEF IInv, SockInv, KickClient, Handled
  <2>5. QED
    BY <1>2, <2>3, <2>4, Elsewhere DEF KickClient, output
<1>3. QED
  BY <1>1, <1>2

\* The slots that end the connection.
LEMMA EndIInv ==
  ASSUME IInv, ~pumping, client_closed \/ displayError
  PROVE  IInv'
<1>1. events # <<>> /\ Handled
  BY DEF client_closed, displayError, Next1
<1>2. Types'
  <2>1. sock' \in {"none", "connected", "closing", "unconnected"}
    BY DEF IInv, Types, client_closed, displayError
  <2>2. m_buffer_sending' \in Seq(Nat) /\ m_buffer_sending_offset' \in Seq(Int)
    <3>1. CASE listed
      <4>1. m_buffer_sending' = <<>> /\ m_buffer_sending_offset' = <<>>
        BY <3>1 DEF client_closed, displayError, Forget
      <4>2. QED
        BY <4>1
    <3>2. CASE ~listed
      BY <3>2 DEF IInv, Types, client_closed, displayError, buffers
    <3>3. QED
      BY <3>1, <3>2
  <2>3. UNCHANGED <<accepted, written>>
    BY DEF client_closed, displayError, output
  <2>4. QED
    BY <1>1, <2>1, <2>2, <2>3, HandledTail DEF IInv, Types
<1>3. CASE ~listed
  <2>1. SockInv'
    BY <1>1, <1>3, HandledTail DEF IInv, SockInv, client_closed, displayError
  <2>2. QED
    BY <1>2, <1>3, <2>1, Elsewhere DEF client_closed, displayError, output
<1>4. CASE listed
  <2>1. sock' = "unconnected" /\ listed' = FALSE
    <3>1. CASE client_closed
      <4>1. events[1].kind = "disconnected" /\ 1 \in 1..Len(events)
        BY <3>1 DEF client_closed, Next1, IInv, Types
      <4>2. QED
        BY <1>4, <3>1, <4>1 DEF client_closed, IInv, SockInv
    <3>2. CASE displayError
      BY <1>4, <3>2 DEF displayError
    <3>3. QED
      BY <3>1, <3>2
  <2>2. SockInv' /\ NextInv'
    BY <2>1 DEF SockInv, NextInv, Writable
  <2>3. /\ m_buffer_sending' = <<>> /\ m_buffer_sending_offset' = <<>>
        /\ UNCHANGED <<accepted, written, pumping>>
    BY <1>4 DEF client_closed, displayError, Forget, output
  <2>4. ListsInv' /\ Chain(written, accepted)'
    BY <2>3 DEF IInv, Types, ListsInv, Chain, After
  <2>5. QED
    BY <1>2, <2>2, <2>4 DEF IInv
<1>5. QED
  BY <1>3, <1>4

LEMMA LeastProperty ==
  ASSUME NEW a \in Positive
  PROVE  Least(a, m_nPayLoad) \in Positive /\ Least(a, m_nPayLoad) <= a
BY PayLoadAssumption DEF Least, Positive

\* A message is taken.
LEMMA SendDataToClientIInv ==
  ASSUME IInv, ~pumping, SendDataToClient
  PROVE  IInv'
<1> DEFINE size == Head(events).size
           m == Len(accepted) + 1
           n == Least(size, m_nPayLoad)
<1>1. events # <<>> /\ Handled
  BY DEF SendDataToClient, Next1
<1>2. SockInv' /\ events' \in Seq(Events) /\ UNCHANGED <<sock, listed, pumping>>
  BY <1>1, HandledTail DEF IInv, SockInv, SendDataToClient
<1>3. CASE ~listed
  BY <1>2, <1>3, Elsewhere DEF SendDataToClient, output, buffers, IInv, Types
<1>4. CASE listed
  <2>1. size \in Positive
    <3>1. Head(events) \in Events /\ Head(events).kind = "send"
      BY <1>1 DEF IInv, Types, SendDataToClient, Next1
    <3>2. Head(events) \in SendEvents
      BY <3>1 DEF Events, SocketEvents
    <3>3. QED
      BY <3>2, PayLoadAssumption DEF SendEvents, Positive
  <2>2. n \in Positive /\ n <= size
    BY <2>1, LeastProperty
  <2>3. /\ accepted' = Append(accepted, size)
        /\ IF m_buffer_sending # <<>>
           THEN /\ m_buffer_sending' = Append(m_buffer_sending, m)
                /\ m_buffer_sending_offset' = Append(m_buffer_sending_offset, 0)
                /\ written' = written
           ELSE /\ written' = IF Writable THEN written \o Bytes(m, 0, n) ELSE written
                /\ IF Writable /\ n = size THEN UNCHANGED buffers
                   ELSE /\ m_buffer_sending' = <<m>>
                        /\ m_buffer_sending_offset' = <<IF Writable THEN n ELSE -1>>
    BY <1>4 DEF SendDataToClient, Waits, output
  <2> HIDE DEF size, n
  <2>4. /\ accepted' \in Seq(Positive) /\ Len(accepted') = m /\ accepted'[m] = size
        /\ \A i \in 1..Len(accepted) : accepted'[i] = accepted[i]
    BY <2>1, <2>3 DEF IInv, Types
  <2>5. /\ Chain(written, accepted')
        /\ \A k \in 1..m, off \in Nat :
             EndsAt(written, accepted, k, off) => EndsAt(written, accepted', k, off)
    BY <2>1, <2>3, TakeMessage DEF IInv, Types
  <2>6. CASE m_buffer_sending # <<>>
    <3>1. /\ m_buffer_sending' = Append(m_buffer_sending, m)
          /\ m_buffer_sending_offset' = Append(m_buffer_sending_offset, 0)
          /\ written' = written
      BY <2>3, <2>6
    <3>2. Types'
      BY <1>2, <2>4, <3>1 DEF IInv, Types
    <3>3. /\ Len(m_buffer_sending') = Len(m_buffer_sending) + 1
          /\ m_buffer_sending'[Len(m_buffer_sending) + 1] = m
          /\ \A i \in 1..Len(m_buffer_sending) : m_buffer_sending'[i] = m_buffer_sending[i]
      BY <3>1 DEF IInv, Types
    <3>4. /\ Len(m_buffer_sending_offset') = Len(m_buffer_sending_offset) + 1
          /\ m_buffer_sending_offset'[Len(m_buffer_sending_offset) + 1] = 0
          /\ \A i \in 1..Len(m_buffer_sending_offset) :
               m_buffer_sending_offset'[i] = m_buffer_sending_offset[i]
      BY <3>1 DEF IInv, Types
    <3>5. ListsInv'
      <4>1. /\ Len(m_buffer_sending) \in Nat /\ Len(accepted) \in Nat
            /\ Len(m_buffer_sending) = Len(m_buffer_sending_offset)
            /\ Len(m_buffer_sending) <= Len(accepted)
        BY DEF IInv, Types, ListsInv
      <4>2. \A i \in 1..Len(m_buffer_sending') :
              /\ m_buffer_sending'[i] = Len(accepted') - Len(m_buffer_sending') + i
              /\ i > 1 => m_buffer_sending_offset'[i] = 0
        <5>1. TAKE i \in 1..Len(m_buffer_sending')
        <5>2. CASE i \in 1..Len(m_buffer_sending)
          BY <2>4, <3>3, <3>4, <4>1, <5>2 DEF IInv, ListsInv
        <5>3. CASE i = Len(m_buffer_sending) + 1
          BY <2>4, <3>3, <3>4, <4>1, <5>3
        <5>4. QED
          BY <3>3, <4>1, <5>2, <5>3
      <4>3. QED
        BY <1>2, <2>4, <3>3, <3>4, <4>1, <4>2 DEF ListsInv
    <3>6. NextInv'
      <4> DEFINE k == m_buffer_sending[1]
                 off == m_buffer_sending_offset[1]
      <4>1. k \in 1..Len(accepted) /\ off \in Int
        BY <2>6 DEF IInv, Types, ListsInv
      <4>2. m_buffer_sending'[1] = k /\ m_buffer_sending_offset'[1] = off
            /\ m_buffer_sending' # <<>>
        <5>1. 1 \in 1..Len(m_buffer_sending) /\ 1 \in 1..Len(m_buffer_sending_offset)
          BY <2>6 DEF IInv, Types, ListsInv
        <5>2. QED
          BY <3>3, <3>4, <5>1
      <4>3. Writable => off \in 0..(accepted[k] - 1) /\ EndsAt(written, accepted, k, off)
        BY <2>6 DEF IInv, NextInv
      <4> HIDE DEF k, off
      <4>4. Writable => off \in 0..(accepted'[k] - 1) /\ EndsAt(written, accepted', k, off)
        BY <2>4, <2>5, <4>1, <4>3 DEF IInv, Types
      <4>5. QED
        BY <1>2, <3>1, <4>2, <4>4 DEF NextInv, Writable
    <3>7. QED
      BY <1>2, <2>5, <3>1, <3>2, <3>5, <3>6 DEF IInv
  <2>7. CASE m_buffer_sending = <<>> /\ Writable
    <3>1. EndsAt(written, accepted', m, 0)
      BY <2>5, <2>7 DEF IInv, Types, NextInv
    <3>2. written' = written \o Bytes(m, 0, n)
      BY <2>3, <2>7
    <3>3. written' \in Seq(Positions) /\ Chain(written', accepted')
          /\ EndsAt(written', accepted', m, n)
      <4>1. m \in 1..Len(accepted') /\ 0 + n <= accepted'[m] /\ 0 + n = n
        BY <2>1, <2>2, <2>4 DEF IInv, Types, Positive
      <4>2. written \in Seq(Positions)
        BY DEF IInv, Types
      <4>3. QED
        BY <2>2, <2>4, <2>5, <3>1, <3>2, <4>1, <4>2, PieceGoesOn
    <3>4. CASE n = size
      <4>1. m_buffer_sending' = <<>> /\ UNCHANGED buffers
        BY <2>3, <2>7, <3>4 DEF buffers
      <4>2. Types' /\ ListsInv'
        BY <1>2, <2>4, <3>3, <4>1 DEF IInv, Types, ListsInv, buffers
      <4>3. EndsAt(written', accepted', m + 1, 0)
        <5>1. m \in 1..Len(accepted') /\ EndsAt(written', accepted', m, accepted'[m])
          BY <2>4, <3>3, <3>4 DEF IInv, Types
        <5>2. QED
          BY <2>4, <3>3, <5>1, MessageEnds
      <4>4. NextInv'
        BY <2>4, <4>1, <4>3 DEF NextInv
      <4>5. QED
        BY <1>2, <3>3, <4>2, <4>4 DEF IInv
    <3>5. CASE n # size
      <4>1. m_buffer_sending' = <<m>> /\ m_buffer_sending_offset' = <<n>>
        BY <2>3, <2>7, <3>5
      <4>2. Types' /\ ListsInv'
        BY <1>2, <2>2, <2>4, <3>3, <4>1 DEF IInv, Types, ListsInv, Positive
      <4>3. NextInv'
        BY <2>1, <2>2, <2>4, <3>3, <3>5, <4>1 DEF NextInv, Positive
      <4>4. QED
        BY <1>2, <3>3, <4>2, <4>3 DEF IInv
    <3>6. QED
      BY <3>4, <3>5
  <2>8. CASE m_buffer_sending = <<>> /\ ~Writable
    <3>1. m_buffer_sending' = <<m>> /\ m_buffer_sending_offset' = <<-1>> /\ written' = written
      BY <2>3, <2>8
    <3>2. Types' /\ ListsInv'
      BY <1>2, <2>4, <3>1 DEF IInv, Types, ListsInv
    <3>3. NextInv'
      BY <1>2, <2>8 DEF NextInv, Writable
    <3>4. QED
      BY <1>2, <2>5, <3>1, <3>2, <3>3 DEF IInv
  <2>9. QED
    BY <2>6, <2>7, <2>8
<1>5. QED
  BY <1>3, <1>4

\* A piece of the oldest message is written.
LEMMA WritePieceIInv ==
  ASSUME IInv, WritePiece
  PROVE  IInv'
<1> DEFINE m == Head(m_buffer_sending)
           off == Head(m_buffer_sending_offset)
           n == Least(accepted[m] - off, m_nPayLoad)
           len == Len(m_buffer_sending)
           current == NewOffset(off, n)
<1>1. /\ UNCHANGED <<sock, listed, events>> /\ accepted' = accepted
      /\ written' = IF Writable THEN written \o Bytes(m, off, n) ELSE written
      /\ IF current >= accepted[m]
         THEN /\ m_buffer_sending' = Tail(m_buffer_sending)
              /\ m_buffer_sending_offset' = Tail(m_buffer_sending_offset)
              /\ pumping' = (len > 1)
         ELSE /\ m_buffer_sending_offset' = [m_buffer_sending_offset EXCEPT ![1] = current]
              /\ pumping' = FALSE /\ UNCHANGED m_buffer_sending
  BY DEF WritePiece, output
<1>2. /\ len \in Nat \ {0} /\ len <= Len(accepted)
      /\ Len(m_buffer_sending_offset) = len
      /\ m = m_buffer_sending[1] /\ m = Len(accepted) - len + 1 /\ m \in 1..Len(accepted)
      /\ off = m_buffer_sending_offset[1] /\ off \in Int
      /\ Len(accepted) \in Nat /\ accepted[m] \in Positive
  <2>1. m_buffer_sending # <<>>
    BY DEF WritePiece, IInv, ListsInv
  <2>2. len \in Nat \ {0} /\ Len(m_buffer_sending_offset) = len /\ len <= Len(accepted)
    BY <2>1 DEF IInv, Types, ListsInv
  <2>3. m = m_buffer_sending[1] /\ off = m_buffer_sending_offset[1] /\ off \in Int
    BY <2>1, <2>2 DEF IInv, Types
  <2>4. m_buffer_sending[1] = Len(accepted) - len + 1
    BY <2>2 DEF IInv, ListsInv
  <2>5. Len(accepted) \in Nat /\ accepted \in Seq(Positive)
    BY DEF IInv, Types
  <2>6. QED
    BY <2>2, <2>3, <2>4, <2>5
<1>3. SockInv'
  BY <1>1 DEF IInv, SockInv
<1>4. n \in Int /\ current \in Int
  <2>1. accepted[m] \in Int /\ off \in Int /\ m_nPayLoad \in Int
    BY <1>2, PayLoadAssumption DEF IInv, Types, Positive
  <2> HIDE DEF m, off
  <2>2. QED
    BY <2>1 DEF Least, NewOffset
<1>5. Writable => /\ off \in Nat /\ n \in Positive /\ off + n <= accepted[m]
                  /\ current = off + n /\ EndsAt(written, accepted, m, off)
  <2> SUFFICES ASSUME Writable
               PROVE  /\ off \in Nat /\ n \in Positive /\ off + n <= accepted[m]
                      /\ current = off + n /\ EndsAt(written, accepted, m, off)
    OBVIOUS
  <2>1. off \in 0..(accepted[m] - 1) /\ EndsAt(written, accepted, m, off)
    BY <1>2 DEF IInv, NextInv
  <2>2. accepted[m] \in Positive /\ accepted[m] - off \in Positive
    BY <1>2, <2>1 DEF IInv, Types, Positive
  <2> HIDE DEF m, off
  <2>3. n \in Positive /\ n <= accepted[m] - off
    BY <2>2, LeastProperty
  <2> HIDE DEF n
  <2>4. QED
    BY <2>1, <2>2, <2>3 DEF NewOffset, Positive
<1> HIDE DEF m, off, n, current
<1>6. Writable => /\ written' \in Seq(Positions) /\ Chain(written', accepted)
                  /\ EndsAt(written', accepted, m, current)
  <2> SUFFICES ASSUME Writable
               PROVE  /\ written' \in Seq(Positions) /\ Chain(written', accepted)
                      /\ EndsAt(written', accepted, m, current)
    OBVIOUS
  <2>1. written' = written \o Bytes(m, off, n) /\ current = off + n
    BY <1>1, <1>5
  <2>2. written \in Seq(Positions) /\ accepted \in Seq(Positive) /\ Chain(written, accepted)
    BY DEF IInv, Types
  <2>3. QED
    BY <1>2, <1>5, <2>1, <2>2, PieceGoesOn
<1>7. written' \in Seq(Positions) /\ Chain(written', accepted)
  BY <1>1, <1>6 DEF IInv, Types
<1>8. CASE current >= accepted[m]
  <2>1. /\ m_buffer_sending' \in Seq(Nat) /\ m_buffer_sending_offset' \in Seq(Int)
        /\ Len(m_buffer_sending') = len - 1 /\ Len(m_buffer_sending_offset') = len - 1
        /\ \A i \in 1..(len - 1) :
             /\ i + 1 \in 1..len
             /\ m_buffer_sending'[i] = m_buffer_sending[i + 1]
             /\ m_buffer_sending_offset'[i] = m_buffer_sending_offset[i + 1]
    <3>1. m_buffer_sending' = Tail(m_buffer_sending)
          /\ m_buffer_sending_offset' = Tail(m_buffer_sending_offset)
      BY <1>1, <1>8
    <3>2. /\ m_buffer_sending \in Seq(Nat) /\ m_buffer_sending # <<>>
          /\ m_buffer_sending_offset \in Seq(Int) /\ m_buffer_sending_offset # <<>>
      BY <1>2 DEF IInv, Types
    <3>3. QED
      BY <1>2, <3>1, <3>2
  <2>2. \A i \in 1..(len - 1) :
          m_buffer_sending'[i] = m + i /\ m_buffer_sending_offset'[i] = 0
    <3>1. TAKE i \in 1..(len - 1)
    <3>2. /\ m_buffer_sending[i + 1] = Len(accepted) - Len(m_buffer_sending) + (i + 1)
          /\ m_buffer_sending_offset[i + 1] = 0
      <4>1. i + 1 \in 1..Len(m_buffer_sending) /\ i + 1 > 1
        BY <1>2
      <4>2. QED
        BY <4>1 DEF IInv, ListsInv
    <3>3. m_buffer_sending'[i] = m_buffer_sending[i + 1]
          /\ m_buffer_sending_offset'[i] = m_buffer_sending_offset[i + 1]
      BY <2>1
    <3>4. Len(accepted) - Len(m_buffer_sending) + (i + 1) = m + i
      BY <1>2
    <3>5. QED
      BY <3>2, <3>3, <3>4
  <2>3. Types'
    BY <1>1, <1>7, <2>1 DEF IInv, Types
  <2>4. ListsInv'
    <3>1. pumping' => m_buffer_sending' # <<>>
      <4>1. pumping' => len > 1
        BY <1>1, <1>8
      <4>2. QED
        BY <1>2, <2>1, <4>1
    <3>2. Len(m_buffer_sending') = Len(m_buffer_sending_offset')
          /\ Len(m_buffer_sending') <= Len(accepted')
      BY <1>1, <1>2, <2>1
    <3>3. \A i \in 1..Len(m_buffer_sending') :
            /\ m_buffer_sending'[i] = Len(accepted') - Len(m_buffer_sending') + i
            /\ i > 1 => m_buffer_sending_offset'[i] = 0
      <4>1. TAKE i \in 1..Len(m_buffer_sending')
      <4>2. i \in 1..(len - 1) /\ m + i = Len(accepted) - (len - 1) + i
        BY <1>2, <2>1
      <4>3. QED
        BY <1>1, <2>1, <2>2, <4>2
    <3>4. QED
      BY <3>1, <3>2, <3>3 DEF ListsInv
  <2>5. ASSUME Writable
        PROVE  NextInv'
    <3>1. EndsAt(written', accepted, m, accepted[m])
      <4>1. current = accepted[m]
        BY <1>2, <1>5, <1>8, <2>5 DEF Positive
      <4>2. QED
        BY <1>6, <2>5, <4>1
    <3>2. EndsAt(written', accepted', m + 1, 0)
      BY <1>1, <1>2, <1>7, <3>1, MessageEnds DEF IInv, Types
    <3>3. CASE len = 1
      BY <1>1, <1>2, <2>1, <3>2, <3>3 DEF NextInv
    <3>4. CASE len > 1
      <4>1. m_buffer_sending' # <<>> /\ m_buffer_sending'[1] = m + 1
            /\ m_buffer_sending_offset'[1] = 0
        BY <1>2, <2>1, <2>2, <3>4
      <4>2. m + 1 \in 1..Len(accepted')
        BY <1>1, <1>2, <3>4 DEF IInv, Types
      <4>3. accepted'[m + 1] \in Positive
        BY <1>1, <4>2 DEF IInv, Types
      <4>4. QED
        BY <3>2, <4>1, <4>3 DEF NextInv, Positive
    <3>5. QED
      BY <1>2, <3>3, <3>4
  <2>6. NextInv'
    BY <1>1, <2>5 DEF NextInv, Writable
  <2>7. QED
    BY <1>1, <1>3, <1>7, <2>3, <2>4, <2>6 DEF IInv
<1>9. CASE ~(current >= accepted[m])
  <2>1. /\ m_buffer_sending' = m_buffer_sending
        /\ m_buffer_sending_offset' \in Seq(Int) /\ Len(m_buffer_sending_offset') = len
        /\ m_buffer_sending_offset'[1] = current
        /\ \A i \in 2..len : m_buffer_sending_offset'[i] = m_buffer_sending_offset[i]
        /\ pumping' = FALSE
    <3>1. /\ m_buffer_sending_offset' = [m_buffer_sending_offset EXCEPT ![1] = current]
          /\ pumping' = FALSE /\ m_buffer_sending' = m_buffer_sending
      BY <1>1, <1>9
    <3>2. m_buffer_sending_offset \in Seq(Int)
      BY DEF IInv, Types
    <3>3. QED
      BY <1>2, <1>4, <3>1, <3>2
  <2>2. Types'
    BY <1>1, <1>7, <2>1 DEF IInv, Types
  <2>3. ListsInv'
    <3>1. \A i \in 1..len :
            /\ m_buffer_sending'[i] = Len(accepted) - len + i
            /\ i > 1 => m_buffer_sending_offset'[i] = 0
      BY <1>2, <2>1 DEF IInv, ListsInv
    <3>2. QED
      BY <1>1, <1>2, <2>1, <3>1 DEF ListsInv
  <2>4. ASSUME Writable
        PROVE  NextInv'
    <3>1. current \in 0..(accepted[m] - 1)
      BY <1>2, <1>4, <1>5, <1>9, <2>4 DEF Positive
    <3>2. EndsAt(written', accepted', m, current)
      BY <1>1, <1>6, <2>4
    <3>3. m_buffer_sending' # <<>> /\ m_buffer_sending'[1] = m
          /\ m_buffer_sending_offset'[1] = current /\ accepted' = accepted
      <4>1. m_buffer_sending # <<>>
        BY <1>2
      <4>2. QED
        BY <1>1, <1>2, <2>1, <4>1
    <3>4. QED
      BY <3>1, <3>2, <3>3 DEF NextInv
  <2>5. NextInv'
    BY <1>1, <2>4 DEF NextInv, Writable
  <2>6. QED
    BY <1>1, <1>3, <1>7, <2>2, <2>3, <2>5 DEF IInv
<1>10. QED
  BY <1>8, <1>9

-----------------------------------------------------------------------------

LEMMA NextIInv == IInv /\ [Next]_vars => IInv'
<1> SUFFICES ASSUME IInv, [Next]_vars
             PROVE  IInv'
  OBVIOUS
<1>1. CASE \/ SendData \/ KickClients
           \/ ~pumping /\ (incomingConnection \/ Receive \/ Flush \/ Broken)
  BY <1>1, OutsideIInv
<1>2. CASE ~pumping /\ Slot
  BY <1>2, SendDataToClientIInv, EventIInv, EndIInv DEF Slot
<1>3. CASE WritePiece
  BY <1>3, WritePieceIInv
<1>4. CASE UNCHANGED vars
  <2>1. Types' /\ SockInv' /\ UNCHANGED <<sock, accepted, buffers, written, pumping>>
    BY <1>4 DEF vars, output, buffers, IInv, Types, SockInv
  <2>2. QED
    BY <2>1, Elsewhere DEF IInv, ListsInv
<1>5. QED
  BY <1>1, <1>2, <1>3, <1>4 DEF Next

\* InOrder is an invariant: what the client is sent is the messages the thread
\* has taken, one after the other and byte by byte, for any number of messages,
\* any sizes, any m_nPayLoad and any moment at which the connection ends.
THEOREM WrittenInOrder == Spec => []InOrder
<1>1. IInv => InOrder
  BY DEF IInv, Chain, After, InOrder, Following
<1>2. QED
  BY <1>1, InitIInv, NextIInv, PTL DEF Spec

-----------------------------------------------------------------------------
(* Sending does not stall.                                                 *)

Queued(k) == \E i \in 1..Len(events) : events[i].kind = k

\* While a message waits, the loop runs, or some bytes are not sent, or their
\* being sent is queued.
WakeInv ==
  listed /\ Writable /\ m_buffer_sending # <<>> =>
    pumping \/ unsent > 0 \/ Queued("bytesWritten")

\* A socket that is closing has something to send, and the end of one that the
\* thread still has is queued; for one that it has not nothing waits.
ClosingInv ==
  /\ unsent \in Nat /\ gone \in Nat
  /\ sock = "closing" => unsent > 0
  /\ sock = "unconnected" /\ listed => Queued("disconnected")
  /\ ~listed => m_buffer_sending = <<>>
  /\ gone = IF listed \/ sock = "none" THEN 0 ELSE 1

SettledInv == IInv /\ WakeInv /\ ClosingInv

\* What the queue holds when an event has been put behind it, or two, or the
\* first has been handled.
LEMMA QueueFacts ==
  ASSUME events \in Seq(Events), events' \in Seq(Events), NEW k
  PROVE  /\ \A e : events' = Append(events, e) =>
              /\ Queued(k) => Queued(k)'
              /\ e.kind = k => Queued(k)'
         /\ \A e, f : events' = events \o <<e, f>> =>
              /\ Queued(k) => Queued(k)'
              /\ e.kind = k \/ f.kind = k => Queued(k)'
         /\ events # <<>> /\ Head(events).kind # k /\ Handled =>
              (Queued(k) => Queued(k)')
<1>1. ASSUME NEW e, events' = Append(events, e)
      PROVE  /\ Queued(k) => Queued(k)'
             /\ e.kind = k => Queued(k)'
  <2>1. /\ Len(events') = Len(events) + 1 /\ events'[Len(events) + 1] = e
        /\ \A i \in 1..Len(events) : events'[i] = events[i]
    BY <1>1
  <2>2. Len(events) \in Nat
    OBVIOUS
  <2>3. QED
    BY <2>1, <2>2 DEF Queued
<1>2. ASSUME NEW e, NEW f, events' = events \o <<e, f>>
      PROVE  /\ Queued(k) => Queued(k)'
             /\ e.kind = k \/ f.kind = k => Queued(k)'
  <2>1. /\ Len(events') = Len(events) + 2
        /\ events'[Len(events) + 1] = e /\ events'[Len(events) + 2] = f
        /\ \A i \in 1..Len(events) : events'[i] = events[i]
    BY <1>2
  <2>2. Len(events) \in Nat
    OBVIOUS
  <2>3. QED
    BY <2>1, <2>2 DEF Queued
<1>3. ASSUME events # <<>>, Head(events).kind # k, Handled, Queued(k)
      PROVE  Queued(k)'
  <2>1. PICK i \in 1..Len(events) : events[i].kind = k
    BY <1>3 DEF Queued
  <2>2. i # 1
    BY <1>3, <2>1
  <2>3. i - 1 \in 1..Len(events') /\ events'[i - 1] = events[i]
    BY <1>3, <2>1, <2>2 DEF Handled
  <2>4. QED
    BY <2>1, <2>3 DEF Queued
<1>4. QED
  BY <1>1, <1>2, <1>3

\* Calls from other threads are put behind what is queued.
LEMMA CallsSettled ==
  ASSUME SettledInv, IInv', SendData \/ KickClients \/ Receive
  PROVE  WakeInv' /\ ClosingInv'
<1>1. events \in Seq(Events) /\ events' \in Seq(Events)
  BY DEF SettledInv, IInv, Types
<1>2. \E e : events' = Append(events, e)
  BY DEF SendData, KickClients, Receive, Post
<1>3. \A k : Queued(k) => Queued(k)'
  BY <1>1, <1>2, QueueFacts
<1>4. UNCHANGED <<sock, listed, m_buffer_sending, unsent, pumping, gone>>
  BY DEF SendData, KickClients, Receive, buffers, output
<1>5. WakeInv' /\ ClosingInv'
  BY <1>3, <1>4 DEF SettledInv, WakeInv, ClosingInv, Writable
<1>6. QED
  BY <1>5

\* What a socket sends is reported, and so is its end.
LEMMA SocketSettled ==
  ASSUME SettledInv, IInv', incomingConnection \/ Flush \/ Broken
  PROVE  WakeInv' /\ ClosingInv'
<1> USE DEF SettledInv
<1>1. events \in Seq(Events) /\ events' \in Seq(Events)
  BY DEF IInv, Types
<1>2. \A k : Event(k).kind = k
  BY DEF Event
<1>3. CASE incomingConnection
  <2>1. m_buffer_sending = <<>>
    BY <1>3 DEF incomingConnection, IInv, SockInv, ClosingInv
  <2>2. QED
    BY <1>3, <2>1 DEF incomingConnection, WakeInv, ClosingInv, buffers, output
<1>4. CASE Flush
  <2>1. PICK n \in 1..unsent :
          /\ sock \in {"connected", "closing"} /\ unsent' = unsent - n
          /\ IF sock = "closing" /\ n = unsent
             THEN /\ events' = events \o <<Event("bytesWritten"), Event("disconnected")>>
                  /\ sock' = "unconnected"
             ELSE Post("bytesWritten") /\ UNCHANGED sock
    BY <1>4 DEF Flush
  <2>2. UNCHANGED <<listed, gone, m_buffer_sending>>
    BY <1>4 DEF Flush, buffers
  <2>3. unsent' \in Nat /\ (sock' = "closing" => unsent' > 0)
    BY <2>1 DEF ClosingInv
  <2>4. Queued("bytesWritten")' /\ (sock' = "unconnected" => Queued("disconnected")')
    BY <1>1, <1>2, <2>1, QueueFacts DEF Post
  <2>5. sock' # "none" /\ sock # "none"
    BY <2>1
  <2>6. QED
    BY <2>2, <2>3, <2>4, <2>5 DEF WakeInv, ClosingInv
<1>5. CASE Broken
  <2>1. sock # "none" /\ sock # "unconnected" /\ UNCHANGED <<listed, gone, pumping, m_buffer_sending>>
    BY <1>5 DEF Broken, buffers
  <2>2. CASE /\ sock' = "unconnected" /\ unsent' = 0
             /\ events' = events \o <<Event("error"), Event("disconnected")>>
    <3>1. Queued("disconnected")'
      BY <1>1, <1>2, <2>2, QueueFacts
    <3>2. QED
      BY <2>1, <2>2, <3>1 DEF WakeInv, ClosingInv, Writable
  <2>3. CASE Post("error") /\ UNCHANGED <<sock, unsent>>
    <3>1. \A k : Queued(k) => Queued(k)'
      BY <1>1, <2>3, QueueFacts DEF Post
    <3>2. QED
      BY <2>1, <2>3, <3>1 DEF WakeInv, ClosingInv, Writable
  <2>4. QED
    BY <1>5, <2>2, <2>3 DEF Broken
<1>6. QED
  BY <1>3, <1>4, <1>5

\* What has been handed to write() is not sent yet.
LEMMA SendSettled ==
  ASSUME SettledInv, IInv', ~pumping, SendDataToClient
  PROVE  WakeInv' /\ ClosingInv'
<1> DEFINE size == Head(events).size
           n == Least(size, m_nPayLoad)
<1> USE DEF SettledInv
<1>1. /\ events # <<>> /\ Head(events).kind = "send" /\ Handled
      /\ UNCHANGED <<sock, listed, pumping, gone>>
  BY DEF SendDataToClient, Next1
<1>2. events \in Seq(Events) /\ events' \in Seq(Events)
  BY DEF IInv, Types
<1>3. \A k \in {"bytesWritten", "disconnected"} : Queued(k) => Queued(k)'
  BY <1>1, <1>2, QueueFacts
<1>4. n \in Positive
  <2>1. Head(events) \in SendEvents
    BY <1>1, <1>2 DEF Events, SocketEvents
  <2>2. size \in Positive
    BY <2>1, PayLoadAssumption DEF SendEvents, Positive
  <2>3. QED
    BY <2>2, LeastProperty
<1>5. \/ UNCHANGED <<m_buffer_sending, unsent>>
      \/ m_buffer_sending # <<>> /\ unsent' = unsent
      \/ Writable /\ unsent' = unsent + n
      \/ ~Writable /\ unsent' = unsent
  BY DEF SendDataToClient, Waits, buffers, output
<1> HIDE DEF n
<1>6. unsent' \in Nat /\ unsent' >= unsent /\ (unsent' # unsent => unsent' > 0)
  BY <1>4, <1>5 DEF ClosingInv, Positive
<1>10. ~listed => m_buffer_sending' = m_buffer_sending
  BY DEF SendDataToClient, buffers
<1>7. ClosingInv'
  BY <1>1, <1>3, <1>6, <1>10 DEF ClosingInv
<1>8. WakeInv'
  BY <1>1, <1>3, <1>4, <1>5, <1>6 DEF WakeInv, Writable, ClosingInv, Positive
<1>9. QED
  BY <1>7, <1>8

\* When a report of bytes sent is handled the loop starts, if anything waits.
LEMMA EventSettled ==
  ASSUME SettledInv, IInv', ~pumping, some_data_sended \/ new_data_recieved
  PROVE  WakeInv' /\ ClosingInv'
<1> USE DEF SettledInv
<1>1. events \in Seq(Events) /\ events' \in Seq(Events) /\ events # <<>> /\ Handled
  BY DEF IInv, Types, some_data_sended, new_data_recieved, Next1
<1>2. UNCHANGED <<sock, listed, m_buffer_sending, unsent, gone>>
  BY DEF some_data_sended, new_data_recieved, buffers, output
<1>3. Queued("disconnected") => Queued("disconnected")'
  BY <1>1, QueueFacts DEF some_data_sended, new_data_recieved, Next1
<1>4. ClosingInv'
  BY <1>2, <1>3 DEF ClosingInv
<1>5. CASE some_data_sended
  <2>1. pumping' = (listed /\ m_buffer_sending # <<>>)
    BY <1>5 DEF some_data_sended, Waits
  <2>2. listed' /\ m_buffer_sending' # <<>> => pumping'
    BY <1>2, <2>1, Zenon
  <2>3. QED
    BY <1>4, <2>2 DEF WakeInv
<1>6. CASE new_data_recieved
  <2>1. Queued("bytesWritten") => Queued("bytesWritten")'
    BY <1>1, <1>6, QueueFacts DEF new_data_recieved, Next1
  <2>2. QED
    BY <1>2, <1>4, <1>6, <2>1 DEF WakeInv, Writable, new_data_recieved
<1>7. QED
  BY <1>4, <1>5, <1>6

LEMMA KickSettled ==
  ASSUME SettledInv, IInv', ~pumping, KickClient
  PROVE  WakeInv' /\ ClosingInv'
<1> USE DEF SettledInv
<1>1. /\ events \in Seq(Events) /\ events' \in Seq(Events)
      /\ events # <<>> /\ Head(events).kind = "kick"
      /\ UNCHANGED <<listed, m_buffer_sending, unsent, pumping, gone>>
  BY DEF IInv, Types, KickClient, Next1, buffers, output
<1>2. CASE listed /\ sock = "connected" /\ unsent = 0
  <2>1. sock' = "unconnected" /\ events' = Append(Tail(events), Event("disconnected"))
    BY <1>2 DEF KickClient
  <2>2. /\ Len(events') \in 1..Len(events')
        /\ events'[Len(events')] = Event("disconnected")
    BY <1>1, <2>1
  <2>3. Queued("disconnected")'
    BY <2>2 DEF Queued, Event
  <2>4. QED
    BY <1>1, <1>2, <2>1, <2>3 DEF WakeInv, ClosingInv, Writable
<1>3. CASE ~(listed /\ sock = "connected" /\ unsent = 0)
  <2>1. /\ Handled
        /\ sock' = IF listed /\ sock = "connected" THEN "closing" ELSE sock
    BY <1>3 DEF KickClient
  <2>2. \A k \in {"bytesWritten", "disconnected"} : Queued(k) => Queued(k)'
    BY <1>1, <2>1, QueueFacts
  <2>3. QED
    BY <1>1, <1>3, <2>1, <2>2 DEF WakeInv, ClosingInv, Writable
<1>4. QED
  BY <1>2, <1>3

\* The engine is told of the end.
LEMMA EndSettled ==
  ASSUME SettledInv, IInv', ~pumping, client_closed \/ displayError
  PROVE  WakeInv' /\ ClosingInv'
<1> USE DEF SettledInv
<1>1. events \in Seq(Events) /\ events' \in Seq(Events) /\ events # <<>> /\ Handled
  BY DEF IInv, Types, client_closed, displayError, Next1
<1>2. CASE listed
  <2>1. /\ listed' = FALSE /\ gone' = gone + 1
        /\ \/ sock' = sock /\ unsent' = unsent
           \/ sock' = "unconnected" /\ unsent' = 0
    BY <1>2 DEF client_closed, displayError, Forget, output
  <2>2. sock # "none" /\ m_buffer_sending' = <<>>
    BY <1>2 DEF IInv, SockInv, client_closed, displayError, Forget
  <2>3. QED
    BY <1>2, <2>1, <2>2 DEF WakeInv, ClosingInv
<1>3. CASE ~listed
  <2>1. UNCHANGED <<listed, sock, unsent, gone, m_buffer_sending>>
    BY <1>3 DEF client_closed, displayError, output, buffers
  <2>2. QED
    BY <1>3, <2>1 DEF WakeInv, ClosingInv
<1>4. QED
  BY <1>2, <1>3

\* A piece is never empty.
LEMMA PieceSettled ==
  ASSUME SettledInv, WritePiece
  PROVE  WakeInv' /\ ClosingInv'
<1> DEFINE m == Head(m_buffer_sending)
           off == Head(m_buffer_sending_offset)
           n == Least(accepted[m] - off, m_nPayLoad)
<1> USE DEF SettledInv
<1>1. /\ UNCHANGED <<sock, listed, events, gone>>
      /\ unsent' = IF Writable THEN unsent + n ELSE unsent
  BY DEF WritePiece, output
<1>2. Writable => n \in Positive
  <2> SUFFICES ASSUME Writable PROVE n \in Positive
    OBVIOUS
  <2>1. /\ m_buffer_sending # <<>> /\ m_buffer_sending_offset # <<>>
        /\ Len(m_buffer_sending) <= Len(accepted)
    BY DEF WritePiece, IInv, Types, ListsInv
  <2>2. m = m_buffer_sending[1] /\ off = m_buffer_sending_offset[1]
    BY <2>1 DEF IInv, Types
  <2>3. off \in 0..(accepted[m] - 1)
    <3>1. m_buffer_sending_offset[1] \in 0..(accepted[m_buffer_sending[1]] - 1)
      BY <2>1 DEF IInv, NextInv
    <3>2. QED
      BY <2>2, <3>1
  <2>4. m \in 1..Len(accepted)
    <3>1. Len(m_buffer_sending) \in Nat \ {0} /\ Len(accepted) \in Nat
      BY <2>1 DEF IInv, Types
    <3>2. m_buffer_sending[1] = Len(accepted) - Len(m_buffer_sending) + 1
      BY <3>1 DEF IInv, ListsInv
    <3>3. QED
      BY <2>1, <2>2, <3>1, <3>2
  <2>5. accepted[m] \in Positive
    BY <2>4 DEF IInv, Types
  <2> HIDE DEF m, off
  <2>6. accepted[m] - off \in Positive
    BY <2>3, <2>5 DEF Positive
  <2>7. QED
    BY <2>6, LeastProperty
<1> HIDE DEF n
<1>3. unsent' \in Nat /\ unsent' >= unsent /\ (Writable => unsent' > 0)
  BY <1>1, <1>2 DEF ClosingInv, Positive
<1>4. listed /\ pumping
  BY DEF WritePiece, IInv, NextInv, ListsInv, ClosingInv, Types
<1>5. QED
  BY <1>1, <1>3, <1>4 DEF WakeInv, ClosingInv, Writable, Queued

LEMMA NextSettled ==
  ASSUME SettledInv, [Next]_vars
  PROVE  SettledInv'
<1>1. IInv'
  BY NextIInv DEF SettledInv
<1>2. CASE SendData \/ KickClients \/ Receive
  BY <1>1, <1>2, CallsSettled DEF SettledInv
<1>3. CASE incomingConnection \/ Flush \/ Broken
  BY <1>1, <1>3, SocketSettled DEF SettledInv
<1>4. CASE ~pumping /\ Slot
  BY <1>1, <1>4, SendSettled, EventSettled, KickSettled, EndSettled DEF SettledInv, Slot
<1>5. CASE WritePiece
  BY <1>1, <1>5, PieceSettled DEF SettledInv
<1>6. CASE UNCHANGED vars
  BY <1>1, <1>6 DEF vars, buffers, output, SettledInv, WakeInv, ClosingInv, Writable, Queued
<1>7. QED
  BY <1>2, <1>3, <1>4, <1>5, <1>6 DEF Next

\* Sending never stalls: what some_data_sended has not handed to write() yet has
\* bytes in front of it that are still to be sent or reported, and a kicked or
\* broken connection has its end queued.  At rest everything has been written.
THEOREM SettledCorrect == Spec => []Settled
<1>1. Init => SettledInv
  <2>1. Init => WakeInv /\ ClosingInv
    BY DEF Init, WakeInv, ClosingInv
  <2>2. QED
    BY <2>1, InitIInv DEF SettledInv
<1>2. ASSUME SettledInv PROVE Settled
  <2> SUFFICES ASSUME events = <<>>, ~pumping, unsent = 0, sock # "none"
               PROVE  \/ sock = "unconnected" /\ gone = 1
                      \/ /\ sock = "connected" /\ m_buffer_sending = <<>>
                         /\ accepted # <<>> =>
                              /\ written # <<>>
                              /\ written[Len(written)] = <<Len(accepted), accepted[Len(accepted)]>>
    BY DEF Settled
  <2>1. \A k : ~Queued(k)
    BY DEF Queued
  <2>2. CASE sock = "unconnected"
    BY <1>2, <2>1, <2>2 DEF SettledInv, ClosingInv
  <2>3. CASE sock # "unconnected"
    <3>1. sock = "connected" /\ listed
      BY <1>2, <2>3 DEF SettledInv, ClosingInv, IInv, Types, SockInv
    <3>2. m_buffer_sending = <<>>
      BY <1>2, <2>1, <2>3, <3>1 DEF SettledInv, WakeInv, ClosingInv, Writable
    <3>3. EndsAt(written, accepted, Len(accepted) + 1, 0)
      BY <1>2, <2>3, <3>2 DEF SettledInv, IInv, NextInv, Writable
    <3>4. accepted # <<>> => Len(accepted) \in Nat \ {0}
      BY <1>2 DEF SettledInv, IInv, Types
    <3>5. QED
      BY <3>1, <3>2, <3>3, <3>4 DEF EndsAt
  <2>4. QED
    BY <2>2, <2>3
<1>3. QED
  BY <1>1, <1>2, NextSettled, PTL DEF Spec

-----------------------------------------------------------------------------
(* The end of a client.                                                    *)

\* A client that is gone has had its socket, and the thread knows it no more.
GoneInv ==
  /\ gone \in Nat
  /\ sock = "none" => ~listed
  /\ gone > 0 => ~listed /\ sock # "none"

\* Each step keeps it, and reports nothing of a client that is gone: what it can
\* be told of it are its connection, of which it has one, and what the slots
\* find of a client in the list.
LEMMA NextGone ==
  ASSUME GoneInv, [Next]_vars
  PROVE  GoneInv' /\ (gone > 0 => UNCHANGED <<reports, gone>>)
<1> USE DEF GoneInv
<1>1. CASE SendData \/ KickClients \/ Receive \/ WritePiece
  BY <1>1 DEF SendData, KickClients, Receive, WritePiece
<1>2. CASE incomingConnection
  BY <1>2 DEF incomingConnection
<1>3. CASE Flush \/ Broken
  BY <1>3 DEF Flush, Broken
<1>4. CASE SendDataToClient \/ KickClient
  BY <1>4 DEF SendDataToClient, KickClient
<1>5. CASE some_data_sended \/ new_data_recieved
  BY <1>5 DEF some_data_sended, new_data_recieved
<1>6. CASE client_closed \/ displayError
  BY <1>6 DEF client_closed, displayError, Forget
<1>7. CASE UNCHANGED vars
  BY <1>7 DEF vars
<1>8. QED
  BY <1>1, <1>2, <1>3, <1>4, <1>5, <1>6, <1>7 DEF Next, Slot

\* The engine is told once that a client is gone (evt_ClientDisconnected, from
\* client_closed or displayError), and of that client no more, whatever events of
\* its socket are still queued.
THEOREM LastWordCorrect == Spec => LastWord
<1>1. Init => GoneInv
  BY DEF Init, GoneInv
<1>2. GoneInv /\ [Next]_vars => GoneInv' /\ [gone > 0 => UNCHANGED <<reports, gone>>]_vars
  BY NextGone
<1>3. QED
  BY <1>1, <1>2, PTL DEF Spec, LastWord
=============================================================================
