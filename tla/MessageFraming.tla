--------------------------- MODULE MessageFraming ---------------------------
(***************************************************************************)
(* filter_message of a client node (smartlink/st_clientnode_basetrans):    *)
(* the stream of a socket, cut into blocks at arbitrary places, is put     *)
(* together to messages again.  A heart beat is sent back when it is       *)
(* complete, a message with data is dealt with whenever more of it has     *)
(* arrived, anything else has the client closed.                           *)
(*                                                                         *)
(* A byte is its position in the stream.  The worker that runs the node is *)
(* alone with the parser (RunExclusive of TaskEngine); one action is one   *)
(* turn of the loop.                                                       *)
(***************************************************************************)
EXTENDS Integers, Sequences

CONSTANTS MaxMessages,     \* bound on the messages of a stream
          DataLengths,     \* the lengths that data may have
          HeaderSize,      \* sizeof(EXAMPLE_TRANS_MSG) - 1
          HeartBeatSize,   \* sizeof(EXAMPLE_HEARTBEATING)
          MaxBlock,        \* bound on the bytes of a block
          HeartBeatsWhole  \* no block ends in a heart beat, behind its mark

MarkSize == 2
Garbage == 0               \* a byte from behind the end of a block

\* st_message.h asks for two bytes of data at least, the code for none.
ASSUME FramingAssumption ==
  /\ MaxMessages \in Nat /\ MaxBlock \in Nat \ {0}
  /\ DataLengths \subseteq Nat
  /\ HeaderSize \in Nat /\ HeaderSize > MarkSize
  /\ HeartBeatSize \in Nat /\ HeartBeatSize > MarkSize
  /\ HeartBeatsWhole \in BOOLEAN

Messages == [mark : {"trans"}, size : {HeaderSize + n : n \in DataLengths}]
              \cup [mark : {"beat"}, size : {HeartBeatSize}]
              \cup [mark : {"unknown"}, size : {HeaderSize}]

VARIABLES
  stream,               \* what the client sends, never changed
  sent,                 \* how many of its bytes have arrived
  m_list_RawData,       \* blocks not used up, oldest first
  m_currentReadOffset,  \* bytes used of the oldest block
  m_currentMessageSize, \* bytes read of the current message
  m_currentBlock,       \* those of them not yet given away
  m_currentHeader,      \* its mark and the size of its data
  dealt,                \* every byte sent back or dealt with, in that order
  kicked                \* evt_close_client has been emitted

parser == <<m_currentReadOffset, m_currentMessageSize, m_currentBlock, m_currentHeader>>
vars == <<stream, sent, m_list_RawData, parser, dealt, kicked>>

-----------------------------------------------------------------------------
(* The stream.                                                             *)

\* Ends[i]: the position of the last byte of the first i messages.
Ends == LET e[i \in 0..Len(stream)] == IF i = 0 THEN 0 ELSE e[i - 1] + stream[i].size
        IN e

Total == Ends[Len(stream)]

\* The message with a byte at position p, and where in it that is.
MessageAt(p) == CHOOSE i \in 1..Len(stream) : Ends[i - 1] < p /\ p <= Ends[i]
IndexAt(p) == p - Ends[MessageAt(p) - 1]

StartsMessage(p) == p # Garbage /\ IndexAt(p) = 1

\* m consecutive positions from p on.
Span(p, m) == [i \in 1..m |-> p + i - 1]

\* What the parser reads in bytes b that begin with a mark or a header.
MarkOf(b) == IF StartsMessage(b[1]) /\ b[2] = b[1] + 1
             THEN stream[MessageAt(b[1])].mark ELSE "unknown"
DataLengthOf(b) == IF b = Span(b[1], HeaderSize) /\ StartsMessage(b[1])
                   THEN stream[MessageAt(b[1])].size - HeaderSize ELSE 0

Init ==
  /\ stream \in UNION {[1..n -> Messages] : n \in 1..MaxMessages}
  /\ sent = 0
  /\ m_list_RawData = <<>>
  /\ m_currentReadOffset = 0
  /\ m_currentMessageSize = 0
  /\ m_currentBlock = <<>>
  /\ m_currentHeader = [mark |-> "unknown", data_length |-> 0]
  /\ dealt = <<>>
  /\ kicked = FALSE

\* The stream may be cut behind byte p.
MayCut(p) ==
  HeartBeatsWhole /\ stream[MessageAt(p)].mark = "beat"
    => IndexAt(p) <= MarkSize \/ IndexAt(p) = HeartBeatSize

\* push_new_data: the next bytes of the stream, as many as happen to arrive.
push_new_data ==
  \E n \in 1..MaxBlock :
    /\ sent + n <= Total /\ MayCut(sent + n)
    /\ m_list_RawData' = Append(m_list_RawData, Span(sent + 1, n))
    /\ sent' = sent + n
    /\ UNCHANGED <<stream, parser, dealt, kicked>>

-----------------------------------------------------------------------------
(* One turn of the loop in filter_message, as long as the block has bytes. *)

block == Head(m_list_RawData)
blocklen == Len(block)
Filtering == m_list_RawData # <<>> /\ m_currentReadOffset < blocklen

Least(a, b) == IF a < b THEN a ELSE b

\* The parser once nCpy bytes more have been appended to m_currentBlock.
Copy(s, nCpy) ==
  [s EXCEPT !.offset = @ + nCpy, !.size = @ + nCpy,
            !.bytes = @ \o [i \in 1..nCpy |-> IF s.offset + i <= blocklen
                                               THEN block[s.offset + i] ELSE Garbage]]

\* As many bytes as are missing to n, or as the block still has.
CopyUpTo(s, n) ==
  IF s.size < n THEN Copy(s, Least(n - s.size, blocklen - s.offset)) ELSE s

\* The first two bytes are read, and the mark with them.
MarkRead ==
  LET s == CopyUpTo([offset |-> m_currentReadOffset, size |-> m_currentMessageSize,
                     bytes |-> m_currentBlock, header |-> m_currentHeader], MarkSize)
  IN IF s.size = MarkSize THEN [s EXCEPT !.header.mark = MarkOf(s.bytes)] ELSE s

Store(s) ==
  /\ m_currentReadOffset' = s.offset
  /\ m_currentMessageSize' = s.size
  /\ m_currentBlock' = s.bytes
  /\ m_currentHeader' = s.header

\* A message is over, a new one starts.
Over(s) == Store([s EXCEPT !.size = 0, !.bytes = <<>>])

\* The first two bytes are not complete.
PartOfMark ==
  /\ Filtering /\ MarkRead.size < MarkSize
  /\ Store(MarkRead)
  /\ UNCHANGED <<stream, sent, m_list_RawData, dealt, kicked>>

\* A heart beat.  The number of bytes is limited by what the message lacks and
\* not by what the block holds: offset - blocklen is negative, and greater than
\* any size when it is compared with one.
HeartBeat ==
  LET s == MarkRead
      t == IF s.offset < blocklen THEN Copy(s, HeartBeatSize - s.size) ELSE s
  IN
    /\ Filtering /\ s.size >= MarkSize /\ s.header.mark = "beat"
    /\ IF t.size < HeartBeatSize
       THEN Store(t) /\ UNCHANGED dealt
       ELSE dealt' = dealt \o t.bytes /\ Over(t)
    /\ UNCHANGED <<stream, sent, m_list_RawData, kicked>>

\* The header of a message with data, complete or not.
HeaderRead == CopyUpTo(MarkRead, HeaderSize)

\* The header is not complete, or nothing follows it in this block.
PartOfHeader ==
  LET t == HeaderRead IN
    /\ Filtering /\ MarkRead.size >= MarkSize /\ MarkRead.header.mark = "trans"
    /\ t.size < HeaderSize \/ t.offset = blocklen
    /\ Store(IF t.size = HeaderSize
             THEN [t EXCEPT !.header.data_length = DataLengthOf(t.bytes)] ELSE t)
    /\ UNCHANGED <<stream, sent, m_list_RawData, dealt, kicked>>

DataRead_WholeBlock ==           \* mutant: the length of the data is no limit
  LET t == HeaderRead
      u == IF t.size = HeaderSize
           THEN [t EXCEPT !.header.data_length = DataLengthOf(t.bytes)] ELSE t
  IN Copy(u, blocklen - u.offset)

\* The parser when it has read what the block holds of the message.
DataRead ==
  LET t == HeaderRead
      u == IF t.size = HeaderSize
           THEN [t EXCEPT !.header.data_length = DataLengthOf(t.bytes)] ELSE t
  IN CopyUpTo(u, HeaderSize + u.header.data_length)

TransMessage_DealTwice ==        \* mutant: what has been dealt with is kept
  LET u == DataRead
      over == u.size >= HeaderSize + u.header.data_length
  IN
    /\ Filtering /\ MarkRead.size >= MarkSize /\ MarkRead.header.mark = "trans"
    /\ HeaderRead.size >= HeaderSize /\ HeaderRead.offset < blocklen
    /\ dealt' = dealt \o u.bytes
    /\ IF over THEN Over(u) ELSE Store(u)
    /\ UNCHANGED <<stream, sent, m_list_RawData, kicked>>

TransMessage_Lazy ==             \* mutant: a message ends with the next block
  LET u == DataRead
      over == u.size >= HeaderSize + u.header.data_length /\ u.offset < blocklen
  IN
    /\ Filtering /\ MarkRead.size >= MarkSize /\ MarkRead.header.mark = "trans"
    /\ HeaderRead.size >= HeaderSize /\ HeaderRead.offset < blocklen
    /\ IF over THEN dealt' = dealt \o u.bytes /\ Over(u)
              ELSE Store(u) /\ UNCHANGED dealt
    /\ UNCHANGED <<stream, sent, m_list_RawData, kicked>>

\* deal_current_message_block is called whenever data has been read.  It may
\* take the bytes away, as the application does when it relays them, or wait
\* for the rest of the message.
TransMessage ==
  LET u == DataRead
      over == u.size >= HeaderSize + u.header.data_length
  IN
    /\ Filtering /\ MarkRead.size >= MarkSize /\ MarkRead.header.mark = "trans"
    /\ HeaderRead.size >= HeaderSize /\ HeaderRead.offset < blocklen
    /\ \/ over /\ dealt' = dealt \o u.bytes /\ Over(u)
       \/ ~over /\ dealt' = dealt \o u.bytes /\ Store([u EXCEPT !.bytes = <<>>])
       \/ ~over /\ Store(u) /\ UNCHANGED dealt
    /\ UNCHANGED <<stream, sent, m_list_RawData, kicked>>

\* An unknown mark: the rest of the block is dropped, the client closed.
UnknownMark ==
  LET s == MarkRead IN
    /\ Filtering /\ s.size >= MarkSize /\ s.header.mark = "unknown"
    /\ Over([s EXCEPT !.offset = blocklen])
    /\ kicked' = TRUE
    /\ UNCHANGED <<stream, sent, m_list_RawData, dealt>>

\* run() pops a block that is used up.
PopBlock ==
  /\ m_list_RawData # <<>> /\ m_currentReadOffset >= blocklen
  /\ m_list_RawData' = Tail(m_list_RawData)
  /\ m_currentReadOffset' = 0
  /\ UNCHANGED <<stream, sent, m_currentMessageSize, m_currentBlock,
                 m_currentHeader, dealt, kicked>>

filter_message == PartOfMark \/ HeartBeat \/ PartOfHeader \/ TransMessage \/ UnknownMark

Next == push_new_data \/ filter_message \/ PopBlock

Spec == Init /\ [][Next]_vars

-----------------------------------------------------------------------------
(* Properties.                                                             *)

TypeOK ==
  /\ sent \in 0..Total
  /\ m_list_RawData \in Seq(Seq(1..Total))
  /\ m_currentReadOffset \in Nat /\ m_currentMessageSize \in Nat
  /\ m_currentBlock \in Seq(0..Total)
  /\ m_currentHeader \in [mark : {"beat", "trans", "unknown"}, data_length : Nat]
  /\ dealt \in Seq(0..Total)
  /\ kicked \in BOOLEAN

\* The first byte not read.  Blocks that follow one another in the list do so
\* in the stream.
NextByte == IF m_list_RawData = <<>> THEN sent + 1 ELSE block[1] + m_currentReadOffset

\* Until the client is closed no byte is lost, repeated, exchanged or made up:
\* what has been dealt with and what is kept of the current message is the
\* stream as far as it has been read, wherever it was cut.
Conserved == ~kicked => dealt \o m_currentBlock = Span(1, NextByte - 1)

\* The parser begins a message where the client began one, and has its mark,
\* until it closes the client, which it does only to one who sent an unknown
\* mark.
InStep ==
  \/ /\ kicked
     /\ \E i \in 1..Len(stream) : stream[i].mark = "unknown"
  \/ /\ ~kicked
     /\ \E i \in 0..Len(stream) :
          /\ NextByte - 1 - m_currentMessageSize = Ends[i]
          /\ m_currentMessageSize >= MarkSize =>
               m_currentHeader.mark = stream[i + 1].mark

\* A message whose last byte has arrived is dealt with completely before run()
\* finds the list empty: it does not wait for the next block.  Only a header
\* without data that ends with its block is left lying until more is sent.
Prompt ==
  m_list_RawData = <<>> /\ ~kicked /\ m_currentMessageSize > 0 =>
    LET m == stream[MessageAt(sent)] IN
      m_currentMessageSize < m.size \/ (m.mark = "trans" /\ m.size = HeaderSize)

\* filter_message uses no more bytes than the block has.
UsedWithinBlock == m_list_RawData # <<>> => m_currentReadOffset <= blocklen
=============================================================================
