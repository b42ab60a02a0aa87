---------------------------- MODULE TransThread -----------------------------
(***************************************************************************)
(* A transfer thread of the network engine (network/zp_nettransthread) and *)
(* one of its sockets.  Data is handed to the socket in pieces of at most  *)
(* m_nPayLoad bytes, the next piece when the socket has sent some bytes;   *)
(* what is waiting is kept in two lists, the messages and how much of each *)
(* has been written.                                                       *)
(*                                                                         *)
(* All slots run in the transfer thread and all of them are queued: the    *)
(* other threads and the socket only post events.  When a slot has cut the *)
(* socket's connections, an event that is still queued finds sender() = 0. *)
(***************************************************************************)
EXTENDS Integers, Sequences

CONSTANTS MaxMessages,  \* bound on the messages sent to the client
          Sizes,        \* the sizes a message may have
          m_nPayLoad,   \* the largest piece
          MaxArrivals   \* bound on the blocks the client sends

ASSUME PayLoadAssumption ==
  /\ MaxMessages \in Nat /\ MaxArrivals \in Nat
  /\ Sizes \subseteq Nat \ {0}
  /\ m_nPayLoad \in Nat \ {0}

VARIABLES
  sock,                    \* "none", "connected", "closing", "unconnected"
  listed,                  \* the socket is in m_clientList and connected to the slots
  posted,                  \* how many messages have been sent to the client
  arrived,                 \* how many blocks the client has sent
  events,                  \* the queue of the transfer thread, oldest first
  accepted,                \* the sizes of the messages the thread has taken
  m_buffer_sending,        \* those not completely written, by their number
  m_buffer_sending_offset, \* how many bytes of each are written
  written,                 \* the bytes given to write(), <<message, position>>
  unsent,                  \* how many of them the socket has not sent
  reports,                 \* how many events the engine has been told of the client
  pumping,                 \* some_data_sended is in its loop
  gone                     \* how many of these were evt_ClientDisconnected

buffers == <<m_buffer_sending, m_buffer_sending_offset>>
output == <<written, unsent>>
vars == <<sock, listed, posted, arrived, events, accepted, buffers, output,
          reports, pumping, gone>>

SendEvents == [kind : {"send"}, size : Sizes]
SocketEvents == [kind : {"readyRead", "bytesWritten", "error", "disconnected"}]
Events == SendEvents \cup SocketEvents \cup [kind : {"kick"}]

Event(k) == [kind |-> k]
Post(k) == events' = Append(events, Event(k))

Init ==
  /\ sock = "none" /\ listed = FALSE
  /\ posted = 0 /\ arrived = 0
  /\ events = <<>> /\ accepted = <<>>
  /\ m_buffer_sending = <<>> /\ m_buffer_sending_offset = <<>>
  /\ written = <<>> /\ unsent = 0
  /\ reports = 0 /\ gone = 0 /\ pumping = FALSE

-----------------------------------------------------------------------------
(* Other threads, and the socket while the event loop polls it.            *)

\* incomingConnection of an accepted socket: the first the engine hears of it.
incomingConnection ==
  /\ sock = "none"
  /\ sock' = "connected" /\ listed' = TRUE
  /\ reports' = reports + 1
  /\ UNCHANGED <<posted, arrived, events, accepted, buffers, output, pumping, gone>>

\* SendDataToClient of the engine, from whichever thread.
SendData ==
  /\ reports > 0 /\ posted < MaxMessages
  /\ \E n \in Sizes : events' = Append(events, [kind |-> "send", size |-> n])
  /\ posted' = posted + 1
  /\ UNCHANGED <<sock, listed, arrived, accepted, buffers, output, pumping, reports, gone>>

\* KickClients of the engine; once is enough.
KickClients ==
  /\ reports > 0 /\ sock = "connected"
  /\ \A i \in 1..Len(events) : events[i].kind # "kick"
  /\ Post("kick")
  /\ UNCHANGED <<sock, listed, posted, arrived, accepted, buffers, output, pumping, reports, gone>>

\* The client sends a block.
Receive ==
  /\ sock \in {"connected", "closing"} /\ arrived < MaxArrivals
  /\ arrived' = arrived + 1
  /\ Post("readyRead")
  /\ UNCHANGED <<sock, listed, posted, accepted, buffers, output, pumping, reports, gone>>

\* The socket sends some of what has been written.  One that is closing is
\* closed when all is sent.
Flush ==
  \E n \in 1..unsent :
    /\ sock \in {"connected", "closing"}
    /\ unsent' = unsent - n
    /\ IF sock = "closing" /\ n = unsent
       THEN /\ events' = events \o <<Event("bytesWritten"), Event("disconnected")>>
            /\ sock' = "unconnected"
       ELSE Post("bytesWritten") /\ UNCHANGED sock
    /\ UNCHANGED <<listed, posted, arrived, accepted, buffers, written, pumping, reports, gone>>

\* The connection breaks or the client closes it: an error is reported first.
\* Some errors leave the connection as it is.
Broken ==
  /\ sock \in {"connected", "closing"}
  /\ \A i \in 1..Len(events) : events[i].kind # "error"
  /\ \/ /\ sock' = "unconnected" /\ unsent' = 0
        /\ events' = events \o <<Event("error"), Event("disconnected")>>
     \/ Post("error") /\ UNCHANGED <<sock, unsent>>
  /\ UNCHANGED <<listed, posted, arrived, accepted, buffers, written, pumping, reports, gone>>

-----------------------------------------------------------------------------
(* The slots of the transfer thread.                                       *)

Next1(k) == events # <<>> /\ Head(events).kind = k
Handled == events' = Tail(events)

Least(a, b) == IF a < b THEN a ELSE b

\* The next n bytes of message m behind its first off.
Bytes(m, off, n) == [j \in 1..n |-> <<m, off + j>>]

\* write() keeps every byte for a socket that is not unconnected, and returns
\* -1 for one that is.
Writable == sock # "unconnected"

Waits_OneBehind == Len(m_buffer_sending) > 1   \* mutant: by one

\* A message has not been written completely.
Waits == m_buffer_sending # <<>>

SendDataToClient_NoRest ==       \* mutant: what one piece leaves is dropped
  LET size == Head(events).size
      m == Len(accepted) + 1
      n == Least(size, m_nPayLoad)
  IN
    /\ Next1("send") /\ Handled
    /\ IF ~listed THEN UNCHANGED <<accepted, buffers, output>>
       ELSE
       /\ accepted' = Append(accepted, size)
       /\ IF m_buffer_sending = <<>> /\ Writable
          THEN /\ written' = written \o Bytes(m, 0, n) /\ unsent' = unsent + n
               /\ UNCHANGED buffers
          ELSE /\ m_buffer_sending' = Append(m_buffer_sending, m)
               /\ m_buffer_sending_offset' = Append(m_buffer_sending_offset, 0)
               /\ UNCHANGED output
    /\ UNCHANGED <<sock, listed, posted, arrived, pumping, reports, gone>>

\* SendDataToClient: a message is written at once, as far as one piece goes,
\* unless others wait.
SendDataToClient ==
  LET size == Head(events).size
      m == Len(accepted) + 1
      n == Least(size, m_nPayLoad)
  IN
    /\ Next1("send") /\ Handled
    /\ IF ~listed THEN UNCHANGED <<accepted, buffers, output>>
       ELSE
       /\ accepted' = Append(accepted, size)
       /\ IF Waits
          THEN /\ m_buffer_sending' = Append(m_buffer_sending, m)
               /\ m_buffer_sending_offset' = Append(m_buffer_sending_offset, 0)
               /\ UNCHANGED output
          ELSE /\ IF Writable
                  THEN written' = written \o Bytes(m, 0, n) /\ unsent' = unsent + n
                  ELSE UNCHANGED output
               /\ IF Writable /\ n = size THEN UNCHANGED buffers
                  ELSE /\ m_buffer_sending' = <<m>>
                       /\ m_buffer_sending_offset' = <<IF Writable THEN n ELSE -1>>
    /\ UNCHANGED <<sock, listed, posted, arrived, pumping, reports, gone>>

\* some_data_sended: told the engine, then the lists are looked at.
some_data_sended ==
  /\ Next1("bytesWritten") /\ Handled
  /\ reports' = IF listed THEN reports + 1 ELSE reports
  /\ pumping' = (listed /\ Waits)
  /\ UNCHANGED <<sock, listed, posted, arrived, accepted, buffers, output, gone>>

NewOffset_NotAdded(off, n) == IF Writable THEN n ELSE off - 1   \* mutant: = for +=

\* The offset when a piece of n bytes has been given to write().
NewOffset(off, n) == off + (IF Writable THEN n ELSE -1)

\* One turn of its loop: a piece of the oldest message.  The loop goes on to the
\* next message when this one is finished, and ends when there is a rest.
WritePiece ==
  LET m == Head(m_buffer_sending)
      off == Head(m_buffer_sending_offset)
      n == Least(accepted[m] - off, m_nPayLoad)
      currentOffset == NewOffset(off, n)
  IN
    /\ pumping
    /\ IF Writable THEN written' = written \o Bytes(m, off, n) /\ unsent' = unsent + n
       ELSE UNCHANGED output
    /\ IF currentOffset >= accepted[m]
       THEN /\ m_buffer_sending' = Tail(m_buffer_sending)
            /\ m_buffer_sending_offset' = Tail(m_buffer_sending_offset)
            /\ pumping' = (Len(m_buffer_sending) > 1)
       ELSE /\ m_buffer_sending_offset' =
                 [m_buffer_sending_offset EXCEPT ![1] = currentOffset]
            /\ pumping' = FALSE /\ UNCHANGED m_buffer_sending
    /\ UNCHANGED <<sock, listed, posted, arrived, events, accepted, reports, gone>>

\* new_data_recieved.
new_data_recieved ==
  /\ Next1("readyRead") /\ Handled
  /\ reports' = IF listed THEN reports + 1 ELSE reports
  /\ UNCHANGED <<sock, listed, posted, arrived, accepted, buffers, output, pumping, gone>>

\* What both ends of a connection do: the buffers are erased, and the engine is
\* told that the client is gone.
Forget ==
  /\ m_buffer_sending' = <<>> /\ m_buffer_sending_offset' = <<>>
  /\ reports' = reports + 1 /\ gone' = gone + 1

\* client_closed.
client_closed ==
  /\ Next1("disconnected") /\ Handled
  /\ IF listed THEN listed' = FALSE /\ Forget ELSE UNCHANGED <<listed, buffers, reports, gone>>
  /\ UNCHANGED <<sock, posted, arrived, accepted, output, pumping>>

displayError_KeepSlots ==        \* mutant: the socket's signals are not cut
  /\ Next1("error") /\ Handled
  /\ IF listed THEN sock' = "unconnected" /\ unsent' = 0 /\ Forget
     ELSE UNCHANGED <<sock, unsent, buffers, reports, gone>>
  /\ UNCHANGED <<listed, posted, arrived, accepted, written, pumping>>

\* displayError, which aborts the connection besides.
displayError ==
  /\ Next1("error") /\ Handled
  /\ IF listed THEN listed' = FALSE /\ sock' = "unconnected" /\ unsent' = 0 /\ Forget
     ELSE UNCHANGED <<listed, sock, unsent, buffers, reports, gone>>
  /\ UNCHANGED <<posted, arrived, accepted, written, pumping>>

\* KickClient: disconnectFromHost closes at once if nothing is unsent.
KickClient ==
  /\ Next1("kick")
  /\ IF listed /\ sock = "connected" /\ unsent = 0
     THEN sock' = "unconnected" /\ events' = Append(Tail(events), Event("disconnected"))
     ELSE /\ sock' = IF listed /\ sock = "connected" THEN "closing" ELSE sock
          /\ Handled
  /\ UNCHANGED <<listed, posted, arrived, accepted, buffers, output, pumping,
                 reports, gone>>

Slot == SendDataToClient \/ some_data_sended \/ new_data_recieved
          \/ client_closed \/ displayError \/ KickClient

\* The event loop runs a slot, or polls the sockets, between two slots only.
Next ==
  \/ SendData \/ KickClients
  \/ ~pumping /\ (incomingConnection \/ Receive \/ Flush \/ Broken \/ Slot)
  \/ WritePiece

Spec == Init /\ [][Next]_vars

\* The event loop keeps running, and the client takes what is sent to it.
FairSpec == /\ Spec
            /\ WF_vars(WritePiece) /\ WF_vars(~pumping /\ Slot) /\ WF_vars(~pumping /\ Flush)

-----------------------------------------------------------------------------
(* Properties.                                                             *)

TypeOK ==
  /\ sock \in {"none", "connected", "closing", "unconnected"}
  /\ listed \in BOOLEAN /\ pumping \in BOOLEAN
  /\ posted \in 0..MaxMessages /\ arrived \in 0..MaxArrivals
  /\ events \in Seq(Events)
  /\ accepted \in Seq(Sizes)
  /\ m_buffer_sending \in Seq(1..MaxMessages)
  /\ m_buffer_sending_offset \in Seq(Int)
  /\ Len(m_buffer_sending) = Len(m_buffer_sending_offset)
  /\ written \in Seq((1..MaxMessages) \X Nat)
  /\ unsent \in Nat /\ reports \in Nat /\ gone \in Nat

First == <<1, 1>>
Following(b) == IF b[2] < accepted[b[1]] THEN <<b[1], b[2] + 1>> ELSE <<b[1] + 1, 1>>

\* What the client is sent is the messages in the order in which the thread took
\* them, from the first byte on, none left out, repeated or mixed with another:
\* also the -1 of a write that fails does not move the place where the next
\* piece starts as long as anything can be sent.
InOrder ==
  /\ written # <<>> => written[1] = First
  /\ \A i \in 1..(Len(written) - 1) : written[i + 1] = Following(written[i])

\* Sending never stalls: when no event is queued and the socket has sent all it
\* was given, nothing waits, and the last byte written is the last of the last
\* message taken; or the connection has ended and the engine knows.
Settled ==
  events = <<>> /\ ~pumping /\ unsent = 0 =>
    \/ sock = "none"
    \/ sock = "unconnected" /\ gone = 1
    \/ /\ sock = "connected" /\ m_buffer_sending = <<>>
       /\ accepted # <<>> =>
            /\ written # <<>>
            /\ written[Len(written)] = <<Len(accepted), accepted[Len(accepted)]>>

\* The engine is told once that the client is gone, and then of the client no
\* more: a block reported later would make it a new node that nobody removes.
LastWord == [][gone > 0 => UNCHANGED <<reports, gone>>]_vars

\* Every message the thread has taken is written to its last byte unless the
\* connection ends, and when it ends the engine is told.
EverythingWritten ==
  \A m \in 1..MaxMessages :
    (m <= Len(accepted)) ~>
      \/ m <= Len(accepted) /\ \E i \in 1..Len(written) : written[i] = <<m, accepted[m]>>
      \/ gone = 1
=============================================================================
