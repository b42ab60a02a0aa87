-------------------------------- MODULE Relay -------------------------------
(***************************************************************************)
(* Messages from client to client.  A message that arrives in several      *)
(* blocks is dealt with piece by piece: the working thread of the sender   *)
(* looks for the receiver anew for every piece and hands on what it holds, *)
(* to a node of this server or, as message 0x03, to the server on which    *)
(* the receiver is said to be; there it is handed on in turn.  Models the  *)
(* relaying part of smartlink/st_clientnode_applayer and                   *)
(* st_cross_svr_node.                                                      *)
(*                                                                         *)
(* The senders are all on one server, the receivers here, on the server    *)
(* there, or nowhere.  A sender that is closed sends no more.  How bytes   *)
(* become pieces is MessageFraming, how the directory of users comes about *)
(* UserDirectory; what is given to a connection is written in order        *)
(* (TransThread).                                                          *)
(***************************************************************************)
EXTENDS Naturals, Sequences, FiniteSets

CONSTANTS
  Senders, Receivers, NoReceiver,
  MaxPieces,      \* in how many pieces a message may arrive
  MaxMessages,    \* bound on messages of a sender
  MaxBad,         \* bound on senders at a message with a bad source id
  MaxMoves        \* bound on logins of a receiver

ASSUME RelayAssumption ==
  /\ NoReceiver \notin Receivers
  /\ MaxPieces \in Nat /\ MaxMessages \in Nat /\ MaxBad \in Nat
  /\ MaxMoves \in Nat

VARIABLES
  place,          \* of a receiver: "nowhere", "here", "there"
  conn,           \* the number of his present or last login
  got,            \* what has been given to his present connection
  number, source_id, destin_id, size,  \* the message a sender is at
  m_currentMessageSize,     \* pieces of it that have arrived
  m_currentBlock, \* the first and the last piece of it that are held
  pc, destin_node,          \* a thread's position, the connection it has found
  directory,      \* receivers known to be there
  wire            \* from here to there

receiver == <<place, conn, got>>
message == <<number, source_id, destin_id, size, m_currentMessageSize>>
sender == <<message, m_currentBlock, pc, destin_node>>
vars == <<receiver, sender, directory, wire>>

Init ==
  /\ place = [d \in Receivers |-> "nowhere"]
  /\ conn = [d \in Receivers |-> 0]
  /\ got = [d \in Receivers |-> <<>>]
  /\ number = [s \in Senders |-> 0]
  /\ source_id = [s \in Senders |-> "own"]
  /\ destin_id = [s \in Senders |-> NoReceiver]
  /\ size = [s \in Senders |-> 0]
  /\ m_currentMessageSize = [s \in Senders |-> 0]
  /\ m_currentBlock = [s \in Senders |-> <<>>]
  /\ pc = [s \in Senders |-> "block"]
  /\ destin_node = [s \in Senders |-> 0]
  /\ directory = {}
  /\ wire = <<>>

\* The pieces a sender holds, as they are handed on.
Held(s) ==
  [from |-> s, number |-> number[s], source |-> source_id[s], size |-> size[s],
   first |-> m_currentBlock[s][1], last |-> m_currentBlock[s][2],
   to |-> destin_id[s], whole |-> TRUE]

Holding(s) == m_currentBlock[s] # <<>>

-----------------------------------------------------------------------------
(* Senders.                                                                *)

\* A block brings the next piece of the message, or the first of a new one.
\* What was left of a message that is over has been dropped.  The source id of
\* the header is the sender's own, or 0xffffffff, or else a bad one: invalid or
\* another than he has used before.
filter_message(s) ==
  /\ pc[s] = "block"
  /\ \/ /\ m_currentMessageSize[s] = size[s] /\ number[s] < MaxMessages
        /\ number' = [number EXCEPT ![s] = @ + 1]
        /\ \E id \in {"own", "bad"} :
             /\ id = "bad" => Cardinality({r \in Senders : source_id[r] = "bad"}) < MaxBad
             /\ source_id' = [source_id EXCEPT ![s] = id]
        /\ \E d \in Receivers : destin_id' = [destin_id EXCEPT ![s] = d]
        /\ \E n \in 1..MaxPieces : size' = [size EXCEPT ![s] = n]
        /\ m_currentMessageSize' = [m_currentMessageSize EXCEPT ![s] = 1]
        /\ m_currentBlock' = [m_currentBlock EXCEPT ![s] = <<1, 1>>]
     \/ /\ m_currentMessageSize[s] < size[s]
        /\ LET next == m_currentMessageSize[s] + 1 IN
             /\ m_currentMessageSize' = [m_currentMessageSize EXCEPT ![s] = next]
             /\ m_currentBlock' = [m_currentBlock EXCEPT ![s] =
                                     IF Holding(s) THEN <<@[1], next>> ELSE <<next, next>>]
        /\ UNCHANGED <<number, source_id, destin_id, size>>
  /\ pc' = [pc EXCEPT ![s] = "find"]
  /\ UNCHANGED <<receiver, destin_node, directory, wire>>

\* clientNodeFromUUID: the node is found in the table of this server, or not.
clientNodeFromUUID(s) ==
  LET d == destin_id[s] IN
    /\ pc[s] = "find"
    /\ \/ /\ place[d] = "here"
          /\ destin_node' = [destin_node EXCEPT ![s] = conn[d]]
          /\ pc' = [pc EXCEPT ![s] = "found"]
       \/ /\ place[d] # "here"
          /\ pc' = [pc EXCEPT ![s] = "absent"]
          /\ UNCHANGED destin_node
    /\ UNCHANGED <<receiver, message, m_currentBlock, directory, wire>>

\* A chunk is given to a connection.
Given(d, c) == [got EXCEPT ![d] = Append(@, c)]

\* mutant: what has been handed on is kept
SendHere_Keep(s) ==
  LET d == destin_id[s] IN
    /\ pc[s] = "found"
    /\ got' = IF place[d] = "here" /\ conn[d] = destin_node[s]
              THEN Given(d, Held(s)) ELSE got
    /\ destin_node' = [destin_node EXCEPT ![s] = 0]
    /\ pc' = [pc EXCEPT ![s] = "block"]
    /\ UNCHANGED <<place, conn, message, m_currentBlock, directory, wire>>

\* What is held goes to the node that was found, if that is still connected,
\* and is held no longer.
SendHere(s) ==
  LET d == destin_id[s] IN
    /\ pc[s] = "found"
    /\ got' = IF place[d] = "here" /\ conn[d] = destin_node[s]
              THEN Given(d, Held(s)) ELSE got
    /\ m_currentBlock' = [m_currentBlock EXCEPT ![s] = <<>>]
    /\ destin_node' = [destin_node EXCEPT ![s] = 0]
    /\ pc' = [pc EXCEPT ![s] = "block"]
    /\ UNCHANGED <<place, conn, message, directory, wire>>

\* mutant: what finds no receiver is not held
SendThere_Drop(s) ==
  /\ pc[s] = "absent"
  /\ wire' = IF destin_id[s] \in directory THEN Append(wire, Held(s)) ELSE wire
  /\ m_currentBlock' = [m_currentBlock EXCEPT ![s] = <<>>]
  /\ pc' = [pc EXCEPT ![s] = "block"]
  /\ UNCHANGED <<receiver, message, destin_node, directory>>

\* What deal_current_message_block of the base class, which comes last, leaves:
\* pieces with a bad source id are dropped, and the sender is closed, some time
\* later: he may go on for a while.
Kept(s) == IF source_id[s] = "bad" THEN <<>> ELSE m_currentBlock[s]

\* cross_svr_find_uuid, cross_svr_send_data: what is held goes to the other
\* server, if the receiver is known there, and is held on to.
SendThere(s) ==
  /\ pc[s] = "absent"
  /\ wire' = IF destin_id[s] \in directory THEN Append(wire, Held(s)) ELSE wire
  /\ m_currentBlock' = [m_currentBlock EXCEPT ![s] = Kept(s)]
  /\ pc' = [pc EXCEPT ![s] = "block"]
  /\ UNCHANGED <<receiver, message, destin_node, directory>>

-----------------------------------------------------------------------------
(* The other server.                                                       *)

\* mutant: a message relayed is not taken for finished
deal_user_data_Again ==
  /\ wire # <<>>
  /\ LET c == Head(wire) IN
       got' = IF place[c.to] = "there" THEN Given(c.to, c) ELSE got
  /\ wire' \in {wire, Tail(wire)}
  /\ UNCHANGED <<place, conn, sender, directory>>

\* Message 0x03 arrives, in one block or in several: SendToNode gives the first
\* of them to the receiver, and the others, which then are taken for the start
\* of a message, are dropped.
deal_user_data ==
  /\ wire # <<>>
  /\ \E whole \in BOOLEAN :
       LET c == [Head(wire) EXCEPT !.whole = whole] IN
         got' = IF place[c.to] = "there" THEN Given(c.to, c) ELSE got
  /\ wire' = Tail(wire)
  /\ UNCHANGED <<place, conn, sender, directory>>

-----------------------------------------------------------------------------
(* Receivers, and what is known of them.                                   *)

LogIn(d) ==
  /\ place[d] = "nowhere" /\ conn[d] < MaxMoves
  /\ \E where \in {"here", "there"} : place' = [place EXCEPT ![d] = where]
  /\ conn' = [conn EXCEPT ![d] = @ + 1]
  /\ got' = [got EXCEPT ![d] = <<>>]
  /\ UNCHANGED <<sender, directory, wire>>

Leave(d) ==
  /\ place[d] # "nowhere"
  /\ place' = [place EXCEPT ![d] = "nowhere"]
  /\ got' = [got EXCEPT ![d] = <<>>]
  /\ UNCHANGED <<conn, sender, directory, wire>>

\* Messages 0x01 and 0x02 reach this server, sooner or later.
Directory ==
  /\ directory' = {d \in Receivers : place[d] = "there"}
  /\ directory' # directory
  /\ UNCHANGED <<receiver, sender, wire>>

Next ==
  \/ \E s \in Senders :
       filter_message(s) \/ clientNodeFromUUID(s) \/ SendHere(s) \/ SendThere(s)
  \/ deal_user_data \/ Directory
  \/ \E d \in Receivers : LogIn(d) \/ Leave(d)

Spec == Init /\ [][Next]_vars

-----------------------------------------------------------------------------
(* Properties.                                                             *)

\* Where in what a receiver has got there are pieces of a sender.
From(d, s) == {i \in 1..Len(got[d]) : got[d][i].from = s}

\* Two of them with none of the same sender in between.
Neighbours(d, s, i, j) == i < j /\ \A k \in From(d, s) : k <= i \/ k >= j

\* What a receiver on this server gets from one sender is his messages, each
\* from its first piece to its last, though the pieces of other senders come in
\* between and the receiver is looked for piece by piece.  Only the first thing
\* a connection gets may be the rest of a message begun with a former one.
Continuous ==
  \A d \in Receivers, s \in Senders :
    place[d] = "here" =>
      \A i, j \in From(d, s) :
        LET c == got[d][i]
            e == got[d][j]
        IN Neighbours(d, s, i, j) =>
             \/ e.number = c.number /\ e.first = c.last + 1
             \/ e.number > c.number /\ e.first = 1 /\ c.last = c.size

\* A message that fits into one block is never torn, repeated or overtaken by a
\* later one of its sender, here and there, whatever becomes of longer ones and
\* of receivers that come and go, unless the block between the servers is torn.
ShortIntact ==
  \A d \in Receivers, s \in Senders :
    \A i, j \in From(d, s) :
      i < j /\ got[d][i].size = 1 /\ got[d][j].size = 1
        => got[d][i].number < got[d][j].number

\* A message to a receiver who is nowhere is held while it arrives: whoever logs
\* in for the first time meanwhile, here, gets it from its first piece on, never
\* its rest alone, but for one with a bad source id, whose sender is closed.
KeptForReceiver ==
  \A d \in Receivers, s \in Senders :
    place[d] = "here" /\ conn[d] = 1 =>
      \A i \in From(d, s) : (\A k \in From(d, s) : i <= k) =>
        got[d][i].first = 1 \/ got[d][i].source = "bad"
=============================================================================
