---------------------------- MODULE Relay_proofs ----------------------------
(* Theorems about Relay for any number of senders, receivers, messages,    *)
(* pieces and logins.                                                      *)
EXTENDS Relay, SequenceTheorems, TLAPS

-----------------------------------------------------------------------------
(* The inductive invariant.                                                *)

Sources == {"own", "bad"}

Chunk == [from : Senders, number : Nat, source : Sources, size : Nat, first : Nat,
          last : Nat, to : Receivers, whole : BOOLEAN]

RelayTypes ==
  /\ place \in [Receivers -> {"nowhere", "here", "there"}]
  /\ conn \in [Receivers -> Nat]
  /\ got \in [Receivers -> Seq(Chunk)]
  /\ number \in [Senders -> Nat]
  /\ source_id \in [Senders -> Sources]
  /\ destin_id \in [Senders -> Receivers \cup {NoReceiver}]
  /\ size \in [Senders -> Nat]
  /\ m_currentMessageSize \in [Senders -> Nat]
  /\ m_currentBlock \in [Senders -> {<<>>} \cup (Nat \X Nat)]
  /\ pc \in [Senders -> {"block", "find", "found", "absent"}]
  /\ destin_node \in [Senders -> Nat]
  /\ wire \in Seq(Chunk)

\* A sender holds the last piece that has arrived and those before it back to
\* some first one; the connection it has found is or was one of the receiver.
SenderInv ==
  \A s \in Senders :
    /\ m_currentMessageSize[s] <= size[s]
    /\ size[s] > 0 => m_currentMessageSize[s] > 0 /\ destin_id[s] \in Receivers
    /\ pc[s] # "block" => Holding(s)
    /\ Holding(s) => /\ m_currentBlock[s][1] \in 1..m_currentBlock[s][2]
                     /\ m_currentBlock[s][2] = m_currentMessageSize[s]
    /\ pc[s] = "found" => destin_node[s] \in 1..conn[destin_id[s]]

\* What has been handed on is of the present or of a former message; a message of
\* one piece is handed on once, and its sender is at the next block then.
Known(c) ==
  /\ c.number <= number[c.from]
  /\ c.number = number[c.from] =>
       /\ c.size = size[c.from] /\ c.to = destin_id[c.from]
       /\ c.size = 1 => pc[c.from] = "block"

KnownInv ==
  /\ \A d \in Receivers : \A i \in 1..Len(got[d]) : Known(got[d][i]) /\ got[d][i].to = d
  /\ \A i \in 1..Len(wire) : Known(wire[i])

\* Of two messages of one piece from one client to another, the first is older.
Earlier(c, e) ==
  c.from = e.from /\ c.to = e.to /\ c.size = 1 /\ e.size = 1 => c.number < e.number

ShortInv ==
  /\ \A d \in Receivers : \A i, j \in 1..Len(got[d]) : i < j => Earlier(got[d][i], got[d][j])
  /\ \A i, j \in 1..Len(wire) : i < j => Earlier(wire[i], wire[j])
  /\ \A d \in Receivers : place[d] = "there" =>
       \A i \in 1..Len(got[d]), j \in 1..Len(wire) : Earlier(got[d][i], wire[j])

\* The last thing that a receiver on this server has got from a sender, and what
\* that sender is at: the next piece it reads is the next one to be handed on.
Last(d, s, i) == i \in From(d, s) /\ \A k \in From(d, s) : k <= i

AtLast(d, s, c) ==
  /\ c.number = number[s] =>
       \/ pc[s] = "block" /\ ~Holding(s) /\ c.last = m_currentMessageSize[s]
       \/ /\ pc[s] \in {"find", "found"} /\ c.last + 1 = m_currentMessageSize[s]
          /\ m_currentBlock[s][1] = m_currentMessageSize[s]
  /\ c.number < number[s] =>
       /\ c.last = c.size
       /\ destin_id[s] = d => pc[s] \in {"find", "found"} /\ m_currentMessageSize[s] = 1
  /\ pc[s] = "found" /\ destin_id[s] = d => destin_node[s] = conn[d]

LastInv ==
  \A d \in Receivers, s \in Senders :
    place[d] = "here" => \A i \in From(d, s) : Last(d, s, i) => AtLast(d, s, got[d][i])

\* A receiver who has never been here, or has come and got nothing yet, will get
\* the message from its first piece on, but for one with a bad source id.
Awaited(d, s) == conn[d] = 0 \/ (conn[d] = 1 /\ place[d] = "here" /\ From(d, s) = {})

KeptInv ==
  /\ \A d \in Receivers : /\ conn[d] = 0 => place[d] = "nowhere"
                          /\ place[d] = "nowhere" => got[d] = <<>>
  /\ \A d \in Receivers, s \in Senders :
       Awaited(d, s) /\ destin_id[s] = d =>
         source_id[s] = "bad" \/ (Holding(s) /\ m_currentBlock[s][1] = 1)

RelayInv ==
  RelayTypes /\ SenderInv /\ KnownInv /\ ShortInv /\ LastInv /\ KeptInv
    /\ Continuous /\ KeptForReceiver

-----------------------------------------------------------------------------
(* What the actions do.                                                    *)

\* What does not change of a sender.
SameMessage(r) ==
  /\ number'[r] = number[r] /\ destin_id'[r] = destin_id[r] /\ size'[r] = size[r]
  /\ m_currentMessageSize'[r] = m_currentMessageSize[r] /\ source_id'[r] = source_id[r]

Unmoved(r) ==
  /\ SameMessage(r) /\ m_currentBlock'[r] = m_currentBlock[r]
  /\ pc'[r] = pc[r] /\ destin_node'[r] = destin_node[r]

LEMMA FilterFacts ==
  ASSUME RelayTypes, NEW s \in Senders, filter_message(s)
  PROVE  /\ pc[s] = "block" /\ pc' = [pc EXCEPT ![s] = "find"]
         /\ UNCHANGED <<place, conn, got, destin_node, directory, wire>>
         /\ \A r \in Senders \ {s} : Unmoved(r)
         /\ pc'[s] = "find" /\ destin_node'[s] = destin_node[s]
         /\ \/ /\ m_currentMessageSize[s] = size[s] /\ number'[s] = number[s] + 1
               /\ source_id'[s] \in Sources
               /\ destin_id'[s] \in Receivers /\ size'[s] \in Nat \ {0}
               /\ m_currentMessageSize'[s] = 1 /\ m_currentBlock'[s] = <<1, 1>>
            \/ /\ m_currentMessageSize[s] < size[s]
               /\ number'[s] = number[s] /\ destin_id'[s] = destin_id[s] /\ size'[s] = size[s]
               /\ source_id'[s] = source_id[s]
               /\ m_currentMessageSize'[s] = m_currentMessageSize[s] + 1
               /\ m_currentBlock'[s] =
                    IF Holding(s) THEN <<m_currentBlock[s][1], m_currentMessageSize[s] + 1>>
                    ELSE <<m_currentMessageSize[s] + 1, m_currentMessageSize[s] + 1>>
<1> USE DEF RelayTypes, receiver, Unmoved, SameMessage
<1>1. pc[s] = "block" /\ pc' = [pc EXCEPT ![s] = "find"]
      /\ UNCHANGED <<place, conn, got, destin_node, directory, wire>>
  BY DEF filter_message
<1>2. CASE m_currentMessageSize[s] = size[s] /\ number' = [number EXCEPT ![s] = @ + 1]
           /\ (\E id \in Sources : source_id' = [source_id EXCEPT ![s] = id])
           /\ (\E d \in Receivers : destin_id' = [destin_id EXCEPT ![s] = d])
           /\ (\E n \in 1..MaxPieces : size' = [size EXCEPT ![s] = n])
           /\ m_currentMessageSize' = [m_currentMessageSize EXCEPT ![s] = 1]
           /\ m_currentBlock' = [m_currentBlock EXCEPT ![s] = <<1, 1>>]
  <2>1. PICK d \in Receivers : destin_id' = [destin_id EXCEPT ![s] = d]
    BY <1>2
  <2>2. PICK n \in 1..MaxPieces : size' = [size EXCEPT ![s] = n]
    BY <1>2
  <2>3. n \in Nat \ {0}
    BY RelayAssumption
  <2>a. PICK id \in Sources : source_id' = [source_id EXCEPT ![s] = id]
    BY <1>2
  <2>4. \A r \in Senders \ {s} :
          /\ number'[r] = number[r] /\ destin_id'[r] = destin_id[r] /\ size'[r] = size[r]
          /\ m_currentMessageSize'[r] = m_currentMessageSize[r]
          /\ m_currentBlock'[r] = m_currentBlock[r] /\ source_id'[r] = source_id[r]
    BY <1>2, <2>1, <2>2, <2>a
  <2>5. /\ number'[s] = number[s] + 1 /\ destin_id'[s] = d /\ size'[s] = n
        /\ m_currentMessageSize'[s] = 1 /\ m_currentBlock'[s] = <<1, 1>>
        /\ source_id'[s] = id
    BY <1>2, <2>1, <2>2, <2>a
  <2>6. QED
    BY <1>1, <1>2, <2>3, <2>4, <2>5
<1>3. CASE m_currentMessageSize[s] < size[s]
           /\ (LET next == m_currentMessageSize[s] + 1 IN
                 /\ m_currentMessageSize' = [m_currentMessageSize EXCEPT ![s] = next]
                 /\ m_currentBlock' = [m_currentBlock EXCEPT ![s] =
                                         IF Holding(s) THEN <<@[1], next>> ELSE <<next, next>>])
           /\ UNCHANGED <<number, source_id, destin_id, size>>
  <2>1. \A r \in Senders \ {s} : m_currentMessageSize'[r] = m_currentMessageSize[r]
                                 /\ m_currentBlock'[r] = m_currentBlock[r]
    BY <1>3
  <2>2. m_currentMessageSize'[s] = m_currentMessageSize[s] + 1
    BY <1>3
  <2>3. m_currentBlock'[s] =
          IF Holding(s) THEN <<m_currentBlock[s][1], m_currentMessageSize[s] + 1>>
          ELSE <<m_currentMessageSize[s] + 1, m_currentMessageSize[s] + 1>>
    BY <1>3
  <2>4. QED
    BY <1>1, <1>3, <2>1, <2>2, <2>3
<1>4. QED
  BY <1>2, <1>3 DEF filter_message, Sources

\* What a sender holds is a chunk to its receiver.
LEMMA HeldFacts ==
  ASSUME RelayTypes, SenderInv, NEW s \in Senders, pc[s] # "block"
  PROVE  /\ Held(s) \in Chunk /\ destin_id[s] \in Receivers
         /\ Held(s).from = s /\ Held(s).number = number[s] /\ Held(s).size = size[s]
         /\ Held(s).first = m_currentBlock[s][1] /\ Held(s).to = destin_id[s]
         /\ Held(s).source = source_id[s]
         /\ Held(s).last = m_currentMessageSize[s]
         /\ m_currentBlock[s][1] \in 1..m_currentMessageSize[s]
         /\ size[s] > 0
<1>1. m_currentBlock[s] \in Nat \X Nat
  BY DEF RelayTypes, SenderInv, Holding
<1>2. /\ m_currentBlock[s][1] \in Nat /\ m_currentBlock[s][2] = m_currentMessageSize[s]
      /\ m_currentBlock[s][1] \in 1..m_currentMessageSize[s]
      /\ m_currentMessageSize[s] \in Nat /\ m_currentMessageSize[s] <= size[s] /\ size[s] \in Nat
  BY <1>1 DEF SenderInv, RelayTypes
<1>3. size[s] > 0 /\ destin_id[s] \in Receivers
  BY <1>2 DEF SenderInv
<1>4. QED
  BY <1>2, <1>3 DEF Held, Chunk, RelayTypes

\* The receiver is looked for, and found or not.
LEMMA FindFacts ==
  ASSUME RelayTypes, SenderInv, KeptInv, NEW s \in Senders, clientNodeFromUUID(s)
  PROVE  /\ UNCHANGED <<receiver, message, m_currentBlock, wire>>
         /\ \A r \in Senders \ {s} : Unmoved(r)
         /\ SameMessage(s) /\ m_currentBlock'[s] = m_currentBlock[s]
         /\ pc[s] = "find" /\ Holding(s) /\ destin_id[s] \in Receivers
         /\ \/ /\ place[destin_id[s]] = "here" /\ pc'[s] = "found"
               /\ destin_node'[s] = conn[destin_id[s]] /\ conn[destin_id[s]] \in Nat \ {0}
            \/ /\ place[destin_id[s]] # "here" /\ pc'[s] = "absent"
               /\ destin_node'[s] = destin_node[s]
<1>1. /\ UNCHANGED <<receiver, message, m_currentBlock, wire>> /\ pc[s] = "find" /\ Holding(s)
      /\ UNCHANGED <<number, source_id, destin_id, size, m_currentMessageSize>>
  BY DEF clientNodeFromUUID, message, SenderInv
<1>2. destin_id[s] \in Receivers
  BY <1>1, HeldFacts
<1>3. conn[destin_id[s]] \in Nat /\ (place[destin_id[s]] = "here" => conn[destin_id[s]] # 0)
  BY <1>2 DEF RelayTypes, KeptInv
<1>4. \A r \in Senders \ {s} : pc'[r] = pc[r] /\ destin_node'[r] = destin_node[r]
  BY DEF clientNodeFromUUID, RelayTypes
<1>5. \/ /\ place[destin_id[s]] = "here" /\ pc'[s] = "found"
         /\ destin_node'[s] = conn[destin_id[s]]
      \/ /\ place[destin_id[s]] # "here" /\ pc'[s] = "absent"
         /\ destin_node'[s] = destin_node[s]
  BY DEF clientNodeFromUUID, RelayTypes
<1>6. QED
  BY <1>1, <1>2, <1>3, <1>4, <1>5 DEF Unmoved, SameMessage

\* What is held is handed on here.
LEMMA HereFacts ==
  ASSUME RelayTypes, SenderInv, NEW s \in Senders, SendHere(s)
  PROVE  /\ UNCHANGED <<place, conn, message, wire>>
         /\ \A r \in Senders \ {s} : Unmoved(r)
         /\ SameMessage(s) /\ m_currentBlock'[s] = <<>> /\ pc'[s] = "block"
         /\ pc[s] = "found" /\ Holding(s) /\ destin_id[s] \in Receivers
         /\ \/ /\ place[destin_id[s]] = "here" /\ conn[destin_id[s]] = destin_node[s]
               /\ got' = Given(destin_id[s], Held(s))
            \/ /\ place[destin_id[s]] # "here" \/ conn[destin_id[s]] # destin_node[s]
               /\ got' = got
<1>1. /\ UNCHANGED <<place, conn, message, wire>> /\ pc[s] = "found" /\ Holding(s)
      /\ UNCHANGED <<number, source_id, destin_id, size, m_currentMessageSize>>
  BY DEF SendHere, message, SenderInv
<1>2. destin_id[s] \in Receivers
  BY <1>1, HeldFacts
<1>3. \A r \in Senders \ {s} : /\ pc'[r] = pc[r] /\ destin_node'[r] = destin_node[r]
                              /\ m_currentBlock'[r] = m_currentBlock[r]
  BY DEF SendHere, RelayTypes
<1>4. m_currentBlock'[s] = <<>> /\ pc'[s] = "block"
  BY DEF SendHere, RelayTypes
<1>5. \/ /\ place[destin_id[s]] = "here" /\ conn[destin_id[s]] = destin_node[s]
         /\ got' = Given(destin_id[s], Held(s))
      \/ /\ place[destin_id[s]] # "here" \/ conn[destin_id[s]] # destin_node[s]
         /\ got' = got
  BY DEF SendHere
<1>6. QED
  BY <1>1, <1>2, <1>3, <1>4, <1>5 DEF Unmoved, SameMessage

\* What is held goes there, or does not, and is held on to, but for what is of a
\* bad source id.
LEMMA ThereFacts ==
  ASSUME RelayTypes, SenderInv, NEW s \in Senders, SendThere(s)
  PROVE  /\ UNCHANGED <<receiver, message, destin_node>>
         /\ \A r \in Senders \ {s} : Unmoved(r)
         /\ SameMessage(s)
         /\ \/ m_currentBlock'[s] = m_currentBlock[s]
            \/ source_id[s] = "bad" /\ m_currentBlock'[s] = <<>>
         /\ destin_node'[s] = destin_node[s] /\ pc'[s] = "block"
         /\ pc[s] = "absent" /\ Holding(s) /\ destin_id[s] \in Receivers
         /\ wire' = Append(wire, Held(s)) \/ wire' = wire
<1>1. /\ UNCHANGED <<receiver, message, destin_node>> /\ pc[s] = "absent"
      /\ Holding(s) /\ UNCHANGED <<number, source_id, destin_id, size, m_currentMessageSize>>
  BY DEF SendThere, message, SenderInv
<1>2. destin_id[s] \in Receivers
  BY <1>1, HeldFacts
<1>3. /\ \A r \in Senders \ {s} : pc'[r] = pc[r] /\ m_currentBlock'[r] = m_currentBlock[r]
      /\ pc'[s] = "block"
      /\ \/ m_currentBlock'[s] = m_currentBlock[s]
         \/ source_id[s] = "bad" /\ m_currentBlock'[s] = <<>>
  BY DEF SendThere, RelayTypes, Kept
<1>4. wire' = Append(wire, Held(s)) \/ wire' = wire
  BY DEF SendThere
<1>5. QED
  BY <1>1, <1>2, <1>3, <1>4 DEF Unmoved, SameMessage

\* A chunk more for one receiver.
LEMMA GivenFacts ==
  ASSUME RelayTypes, NEW d \in Receivers, NEW c \in Chunk, got' = Given(d, c)
  PROVE  /\ got' \in [Receivers -> Seq(Chunk)]
         /\ Len(got[d]) \in Nat /\ Len(got'[d]) = Len(got[d]) + 1
         /\ got'[d][Len(got[d]) + 1] = c
         /\ \A i \in 1..Len(got[d]) : got'[d][i] = got[d][i]
         /\ \A e \in Receivers \ {d} : got'[e] = got[e]
         /\ \A s : From(d, s)' = From(d, s) \cup (IF c.from = s THEN {Len(got[d]) + 1} ELSE {})
<1>1. got[d] \in Seq(Chunk)
  BY DEF RelayTypes
<1>2. /\ got'[d] = Append(got[d], c) /\ \A e \in Receivers \ {d} : got'[e] = got[e]
  BY DEF RelayTypes, Given
<1>3. /\ Append(got[d], c) \in Seq(Chunk) /\ Len(Append(got[d], c)) = Len(got[d]) + 1
      /\ \A i \in 1..Len(got[d]) : Append(got[d], c)[i] = got[d][i]
      /\ Append(got[d], c)[Len(got[d]) + 1] = c /\ Len(got[d]) \in Nat
  BY <1>1, AppendProperties
<1>4. got' \in [Receivers -> Seq(Chunk)]
  BY <1>3 DEF RelayTypes, Given
<1>5. 1..(Len(got[d]) + 1) = 1..Len(got[d]) \cup {Len(got[d]) + 1}
  BY <1>3
<1>6. ASSUME NEW s
      PROVE  From(d, s)' = From(d, s) \cup (IF c.from = s THEN {Len(got[d]) + 1} ELSE {})
  BY <1>2, <1>3, <1>5 DEF From
<1>7. QED
  BY <1>2, <1>3, <1>4, <1>6

\* A chunk more on the wire.
LEMMA WireFacts ==
  ASSUME RelayTypes, NEW c \in Chunk, wire' = Append(wire, c)
  PROVE  /\ wire' \in Seq(Chunk) /\ Len(wire) \in Nat /\ Len(wire') = Len(wire) + 1
         /\ wire'[Len(wire) + 1] = c
         /\ \A i \in 1..Len(wire) : wire'[i] = wire[i]
BY AppendProperties DEF RelayTypes

\* What deal_user_data takes from the wire, and what becomes of it.
LEMMA DealFacts ==
  ASSUME RelayTypes, deal_user_data
  PROVE  /\ UNCHANGED <<place, conn, sender, directory>>
         /\ Len(wire) \in Nat \ {0} /\ wire' \in Seq(Chunk)
         /\ Len(wire') = Len(wire) - 1 /\ \A i \in 1..Len(wire') : wire'[i] = wire[i + 1]
         /\ \E c \in Chunk :
              /\ c.from = wire[1].from /\ c.number = wire[1].number /\ c.size = wire[1].size
              /\ c.to = wire[1].to
              /\ \/ place[c.to] = "there" /\ got' = Given(c.to, c)
                 \/ place[c.to] # "there" /\ got' = got
<1>1. wire \in Seq(Chunk) /\ wire # <<>> /\ wire' = Tail(wire)
      /\ UNCHANGED <<place, conn, sender, directory>>
  BY DEF RelayTypes, deal_user_data
<1>2. /\ Head(wire) = wire[1] /\ Head(wire) \in Chunk /\ Tail(wire) \in Seq(Chunk)
      /\ Len(wire) \in Nat \ {0} /\ Len(wire') = Len(wire) - 1
      /\ \A i \in 1..Len(wire') : wire'[i] = wire[i + 1]
  BY <1>1, HeadTailProperties, EmptySeq
<1>3. PICK whole \in BOOLEAN :
        LET c == [Head(wire) EXCEPT !.whole = whole] IN
          got' = IF place[c.to] = "there" THEN Given(c.to, c) ELSE got
  BY DEF deal_user_data
<1> DEFINE c == [Head(wire) EXCEPT !.whole = whole]
<1>4. /\ c \in Chunk
      /\ c.from = wire[1].from /\ c.number = wire[1].number /\ c.size = wire[1].size
      /\ c.to = wire[1].to
  BY <1>2 DEF Chunk
<1>5. got' = IF place[c.to] = "there" THEN Given(c.to, c) ELSE got
  BY <1>3
<1> HIDE DEF c
<1>6. \/ place[c.to] = "there" /\ got' = Given(c.to, c)
      \/ place[c.to] # "there" /\ got' = got
  BY <1>5
<1>7. QED
  BY <1>1, <1>2, <1>4, <1>6

\* A receiver comes or goes, and a new connection has got nothing.
Moves(d) == LogIn(d) \/ Leave(d)

LEMMA MoveFacts ==
  ASSUME RelayTypes, NEW d \in Receivers, Moves(d)
  PROVE  /\ UNCHANGED <<sender, directory, wire>> /\ got'[d] = <<>>
         /\ got' \in [Receivers -> Seq(Chunk)] /\ conn' \in [Receivers -> Nat]
         /\ place' \in [Receivers -> {"nowhere", "here", "there"}]
         /\ \A e \in Receivers \ {d} :
              place'[e] = place[e] /\ conn'[e] = conn[e] /\ got'[e] = got[e]
         /\ \/ place[d] = "nowhere" /\ place'[d] # "nowhere" /\ conn'[d] = conn[d] + 1
            \/ place[d] # "nowhere" /\ place'[d] = "nowhere" /\ conn'[d] = conn[d]
<1>1. <<>> \in Seq(Chunk)
  OBVIOUS
<1>2. CASE LogIn(d)
  <2>1. PICK where \in {"here", "there"} : place' = [place EXCEPT ![d] = where]
    BY <1>2 DEF LogIn
  <2>2. /\ UNCHANGED <<sender, directory, wire>> /\ place[d] = "nowhere"
        /\ conn' = [conn EXCEPT ![d] = @ + 1] /\ got' = [got EXCEPT ![d] = <<>>]
    BY <1>2 DEF LogIn
  <2>3. QED
    BY <1>1, <2>1, <2>2 DEF RelayTypes
<1>3. CASE Leave(d)
  <2>1. /\ UNCHANGED <<conn, sender, directory, wire>> /\ place[d] # "nowhere"
        /\ place' = [place EXCEPT ![d] = "nowhere"] /\ got' = [got EXCEPT ![d] = <<>>]
    BY <1>3 DEF Leave
  <2>2. QED
    BY <1>1, <2>1 DEF RelayTypes
<1>4. QED
  BY <1>2, <1>3 DEF Moves

\* The steps of the specification.
LEMMA Steps ==
  ASSUME [Next]_vars
  PROVE  \/ \E s \in Senders :
              filter_message(s) \/ clientNodeFromUUID(s) \/ SendHere(s) \/ SendThere(s)
         \/ deal_user_data
         \/ \E d \in Receivers : Moves(d)
         \/ UNCHANGED <<receiver, sender, wire>>
BY DEF Next, vars, Moves, Directory

LEMMA InitRelayInv == Init => RelayInv
<1> SUFFICES ASSUME Init PROVE RelayInv
  OBVIOUS
<1> USE DEF Init
<1>1. RelayTypes
  BY DEF RelayTypes, Sources
<1>2. SenderInv /\ KnownInv /\ ShortInv
  BY DEF SenderInv, Holding, KnownInv, ShortInv
<1>3. \A d, s : d \in Receivers => From(d, s) = {}
  BY DEF From
<1>4. LastInv /\ Continuous /\ KeptForReceiver
  BY <1>3 DEF LastInv, Continuous, KeptForReceiver
<1>5. KeptInv
  BY RelayAssumption DEF KeptInv
<1>6. QED
  BY <1>1, <1>2, <1>4, <1>5 DEF RelayInv

-----------------------------------------------------------------------------
(* Types and senders.                                                      *)

LEMMA TypesStep ==
  ASSUME RelayTypes, SenderInv, [Next]_vars
  PROVE  RelayTypes'
<1>1. ASSUME NEW s \in Senders, filter_message(s) PROVE RelayTypes'
  <2>1. /\ UNCHANGED <<place, conn, got, destin_node, wire>> /\ pc' = [pc EXCEPT ![s] = "find"]
    BY <1>1, FilterFacts
  <2>2. /\ number' \in [Senders -> Nat] /\ size' \in [Senders -> Nat]
        /\ source_id' \in [Senders -> Sources]
        /\ destin_id' \in [Senders -> Receivers \cup {NoReceiver}]
        /\ m_currentMessageSize' \in [Senders -> Nat]
        /\ m_currentBlock' \in [Senders -> {<<>>} \cup (Nat \X Nat)]
    <3>1. CASE UNCHANGED <<number, source_id, destin_id, size>>
               /\ m_currentMessageSize[s] < size[s]
               /\ (LET next == m_currentMessageSize[s] + 1 IN
                     /\ m_currentMessageSize' = [m_currentMessageSize EXCEPT ![s] = next]
                     /\ m_currentBlock' = [m_currentBlock EXCEPT ![s] =
                           IF Holding(s) THEN <<@[1], next>> ELSE <<next, next>>])
      <4> DEFINE n == m_currentMessageSize[s] + 1
                 b == IF Holding(s) THEN <<m_currentBlock[s][1], n>> ELSE <<n, n>>
      <4>1. n \in Nat /\ b \in Nat \X Nat
        BY DEF RelayTypes, Holding
      <4>2. m_currentBlock' = [m_currentBlock EXCEPT ![s] = b]
            /\ m_currentMessageSize' = [m_currentMessageSize EXCEPT ![s] = n]
        BY <3>1
      <4> HIDE DEF n, b
      <4>3. QED
        BY <3>1, <4>1, <4>2 DEF RelayTypes
    <3>2. CASE /\ number' = [number EXCEPT ![s] = @ + 1]
               /\ \E id \in Sources : source_id' = [source_id EXCEPT ![s] = id]
               /\ \E d \in Receivers : destin_id' = [destin_id EXCEPT ![s] = d]
               /\ \E n \in 1..MaxPieces : size' = [size EXCEPT ![s] = n]
               /\ m_currentMessageSize' = [m_currentMessageSize EXCEPT ![s] = 1]
               /\ m_currentBlock' = [m_currentBlock EXCEPT ![s] = <<1, 1>>]
      <4>1. PICK d \in Receivers : destin_id' = [destin_id EXCEPT ![s] = d]
        BY <3>2
      <4>2. PICK n \in 1..MaxPieces : size' = [size EXCEPT ![s] = n]
        BY <3>2
      <4>3. n \in Nat /\ <<1, 1>> \in Nat \X Nat
        BY RelayAssumption
      <4>4. number' \in [Senders -> Nat] /\ m_currentMessageSize' \in [Senders -> Nat]
        BY <3>2 DEF RelayTypes
      <4>5. m_currentBlock' \in [Senders -> {<<>>} \cup (Nat \X Nat)]
        BY <3>2, <4>3 DEF RelayTypes
      <4>6. source_id' \in [Senders -> Sources]
        BY <3>2 DEF RelayTypes
      <4>7. QED
        BY <4>1, <4>2, <4>3, <4>4, <4>5, <4>6 DEF RelayTypes
    <3>3. QED
      BY <1>1, <3>1, <3>2 DEF filter_message, Sources
  <2>3. pc' \in [Senders -> {"block", "find", "found", "absent"}]
    BY <2>1 DEF RelayTypes
  <2>4. QED
    BY <2>1, <2>2, <2>3 DEF RelayTypes
<1>2. ASSUME NEW s \in Senders, clientNodeFromUUID(s) PROVE RelayTypes'
  <2>1. /\ UNCHANGED <<place, conn, got, number, source_id, destin_id, size,
                       m_currentMessageSize, m_currentBlock, wire>>
        /\ pc' \in [Senders -> {"block", "find", "found", "absent"}]
    BY <1>2 DEF clientNodeFromUUID, RelayTypes, receiver, message
  <2>2. destin_node' \in [Senders -> Nat]
    <3>1. CASE destin_node' = destin_node
      BY <3>1 DEF RelayTypes
    <3>2. CASE place[destin_id[s]] = "here"
               /\ destin_node' = [destin_node EXCEPT ![s] = conn[destin_id[s]]]
      <4>1. destin_id[s] \in Receivers
        BY <1>2, HeldFacts DEF clientNodeFromUUID
      <4>2. QED
        BY <3>2, <4>1 DEF RelayTypes
    <3>3. QED
      BY <1>2, <3>1, <3>2 DEF clientNodeFromUUID
  <2>3. QED
    BY <2>1, <2>2 DEF RelayTypes
<1>3. ASSUME NEW s \in Senders, SendHere(s) PROVE RelayTypes'
  <2>1. Held(s) \in Chunk /\ destin_id[s] \in Receivers
    BY <1>3, HeldFacts DEF SendHere
  <2>2. got' = Given(destin_id[s], Held(s)) \/ got' = got
    BY <1>3 DEF SendHere
  <2>3. got' \in [Receivers -> Seq(Chunk)]
    BY <2>1, <2>2, GivenFacts DEF RelayTypes
  <2>4. QED
    BY <1>3, <2>3 DEF SendHere, RelayTypes, message
<1>4. ASSUME NEW s \in Senders, SendThere(s) PROVE RelayTypes'
  <2>1. Held(s) \in Chunk
    BY <1>4, HeldFacts DEF SendThere
  <2>2. wire' = Append(wire, Held(s)) \/ wire' = wire
    BY <1>4 DEF SendThere
  <2>3. wire' \in Seq(Chunk)
    BY <2>1, <2>2, WireFacts DEF RelayTypes
  <2>4. m_currentBlock' \in [Senders -> {<<>>} \cup (Nat \X Nat)]
    BY <1>4 DEF SendThere, RelayTypes, Kept
  <2>5. QED
    BY <1>4, <2>3, <2>4 DEF SendThere, RelayTypes, message, receiver
<1>5. ASSUME deal_user_data PROVE RelayTypes'
  <2>1. PICK c \in Chunk : \/ place[c.to] = "there" /\ got' = Given(c.to, c)
                           \/ place[c.to] # "there" /\ got' = got
    BY <1>5, DealFacts
  <2>2. c.to \in Receivers
    BY DEF Chunk
  <2>3. got' \in [Receivers -> Seq(Chunk)]
    BY <2>1, <2>2, GivenFacts DEF RelayTypes
  <2>4. QED
    BY <1>5, <2>3, DealFacts DEF RelayTypes, sender, message
<1>6. ASSUME NEW d \in Receivers, Moves(d) PROVE RelayTypes'
  BY <1>6, MoveFacts DEF RelayTypes, sender, message
<1>7. CASE UNCHANGED <<receiver, sender, wire>>
  BY <1>7 DEF RelayTypes, receiver, sender, message
<1>8. QED
  BY <1>1, <1>2, <1>3, <1>4, <1>5, <1>6, <1>7, Steps


\* What nobody but a sender changes.
LEMMA OthersStep ==
  ASSUME NEW r, UNCHANGED sender
  PROVE  Unmoved(r)
BY DEF Unmoved, SameMessage, sender, message

LEMMA SenderStep ==
  ASSUME RelayTypes, SenderInv, KeptInv, [Next]_vars
  PROVE  SenderInv'
<1> DEFINE Good(s) ==
      /\ m_currentMessageSize[s] <= size[s]
      /\ size[s] > 0 => m_currentMessageSize[s] > 0 /\ destin_id[s] \in Receivers
      /\ pc[s] # "block" => Holding(s)
      /\ Holding(s) => /\ m_currentBlock[s][1] \in 1..m_currentBlock[s][2]
                       /\ m_currentBlock[s][2] = m_currentMessageSize[s]
      /\ pc[s] = "found" => destin_node[s] \in 1..conn[destin_id[s]]
<1>0. \A s \in Senders : Good(s)
  BY DEF SenderInv
<1> SUFFICES ASSUME NEW r \in Senders PROVE Good(r)'
  BY DEF SenderInv
<1>a. ASSUME Unmoved(r), conn' = conn PROVE Good(r)'
  BY <1>0, <1>a DEF Holding, Unmoved, SameMessage
<1>1. ASSUME NEW s \in Senders, filter_message(s) PROVE Good(r)'
  <2>1. CASE r # s
    BY <1>1, <1>a, <2>1, FilterFacts
  <2>2. CASE r = s
    <3>1. pc'[s] = "find" /\ Good(s) /\ m_currentMessageSize[s] \in Nat /\ size[s] \in Nat
      BY <1>0, <1>1, FilterFacts DEF RelayTypes
    <3> HIDE DEF Good
    <3>2. CASE /\ size'[s] \in Nat \ {0} /\ m_currentMessageSize'[s] = 1
               /\ m_currentBlock'[s] = <<1, 1>> /\ destin_id'[s] \in Receivers
      BY <2>2, <3>1, <3>2 DEF Good, Holding
    <3>3. CASE /\ m_currentMessageSize[s] < size[s] /\ Holding(s)
               /\ destin_id'[s] = destin_id[s] /\ size'[s] = size[s]
               /\ m_currentMessageSize'[s] = m_currentMessageSize[s] + 1
               /\ m_currentBlock'[s] = <<m_currentBlock[s][1], m_currentMessageSize[s] + 1>>
      <4>1. m_currentBlock[s][1] \in 1..m_currentMessageSize[s] /\ destin_id[s] \in Receivers
        BY <3>1, <3>3 DEF Good
      <4>2. QED
        BY <2>2, <3>1, <3>3, <4>1 DEF Good, Holding
    <3>4. CASE /\ m_currentMessageSize[s] < size[s] /\ ~Holding(s)
               /\ destin_id'[s] = destin_id[s] /\ size'[s] = size[s]
               /\ m_currentMessageSize'[s] = m_currentMessageSize[s] + 1
               /\ m_currentBlock'[s] = <<m_currentMessageSize[s] + 1, m_currentMessageSize[s] + 1>>
      <4>1. destin_id[s] \in Receivers
        BY <3>1, <3>4 DEF Good
      <4>2. QED
        BY <2>2, <3>1, <3>4, <4>1 DEF Good, Holding
    <3>5. QED
      BY <1>1, <3>2, <3>3, <3>4, FilterFacts
  <2>3. QED
    BY <2>1, <2>2
<1>2. ASSUME NEW s \in Senders, clientNodeFromUUID(s) PROVE Good(r)'
  <2>1. conn' = conn /\ SameMessage(s) /\ m_currentBlock'[s] = m_currentBlock[s] /\ Holding(s)
    BY <1>2, FindFacts DEF receiver
  <2>2. CASE r # s
    BY <1>2, <1>a, <2>1, <2>2, FindFacts
  <2>3. CASE r = s /\ pc'[s] = "absent"
    BY <1>0, <2>1, <2>3 DEF Holding, SameMessage
  <2>4. CASE r = s /\ destin_node'[s] = conn[destin_id[s]] /\ conn[destin_id[s]] \in Nat \ {0}
    <3>1. destin_node'[s] \in 1..conn[destin_id[s]]
      BY <2>4
    <3>2. QED
      BY <1>0, <2>1, <2>4, <3>1 DEF Holding, SameMessage
  <2>5. QED
    BY <1>2, <2>2, <2>3, <2>4, FindFacts
<1>3. ASSUME NEW s \in Senders, SendHere(s) PROVE Good(r)'
  <2>1. CASE r # s
    BY <1>3, <1>a, <2>1, HereFacts
  <2>2. CASE r = s
    BY <1>0, <1>3, <2>2, HereFacts DEF Holding, SameMessage
  <2>3. QED
    BY <2>1, <2>2
<1>4. ASSUME NEW s \in Senders, SendThere(s) PROVE Good(r)'
  <2>1. CASE r # s
    BY <1>4, <1>a, <2>1, ThereFacts DEF receiver
  <2>2. CASE r = s
    BY <1>0, <1>4, <2>2, ThereFacts DEF Holding, SameMessage
  <2>3. QED
    BY <2>1, <2>2
<1>5. ASSUME deal_user_data PROVE Good(r)'
  BY <1>5, <1>a, DealFacts, OthersStep
<1>6. ASSUME NEW d \in Receivers, Moves(d) PROVE Good(r)'
  <2>1. Unmoved(r) /\ pc[r] \in {"block", "find", "found", "absent"}
    BY <1>6, MoveFacts, OthersStep DEF RelayTypes
  <2>2. \A e \in Receivers : conn[e] \in Nat /\ (conn'[e] = conn[e] \/ conn'[e] = conn[e] + 1)
    BY <1>6, MoveFacts DEF RelayTypes
  <2>3. CASE pc[r] # "found"
    BY <1>0, <2>1, <2>3 DEF Holding, Unmoved, SameMessage
  <2>4. CASE pc[r] = "found"
    <3>1. destin_id[r] \in Receivers
      BY <2>4, HeldFacts
    <3>2. destin_node[r] \in 1..conn[destin_id[r]]
      BY <1>0, <2>4
    <3>3. destin_node[r] \in 1..conn'[destin_id[r]]
      BY <2>2, <3>1, <3>2
    <3>4. QED
      BY <1>0, <2>1, <3>3 DEF Holding, Unmoved, SameMessage
  <2>5. QED
    BY <2>3, <2>4
<1>7. CASE UNCHANGED <<receiver, sender, wire>>
  BY <1>7, <1>a, OthersStep DEF receiver
<1>8. QED
  BY <1>1, <1>2, <1>3, <1>4, <1>5, <1>6, <1>7, Steps

-----------------------------------------------------------------------------
(* What a step may do to what a receiver has got, and to the wire.         *)

\* A chunk more for a receiver.
Grown(d, c) ==
  /\ Len(got[d]) \in Nat
  /\ Len(got'[d]) = Len(got[d]) + 1 /\ got'[d][Len(got[d]) + 1] = c
  /\ \A i \in 1..Len(got[d]) : got'[d][i] = got[d][i]
  /\ \A s : From(d, s)' = From(d, s) \cup (IF c.from = s THEN {Len(got[d]) + 1} ELSE {})

\* The same pieces of the same message.
Like(c, e) == c.from = e.from /\ c.number = e.number /\ c.size = e.size /\ c.to = e.to

\* Where the chunk comes from.
HandedOn(d, c) ==
  \/ /\ place[d] = "here"
     /\ \E s \in Senders : /\ SendHere(s) /\ c = Held(s)
                           /\ destin_id[s] = d /\ conn[d] = destin_node[s]
  \/ place[d] = "there" /\ deal_user_data /\ Like(c, wire[1])

Stays(d) == place'[d] = place[d] /\ conn'[d] = conn[d]

LEMMA GotStep ==
  ASSUME RelayTypes, SenderInv, KeptInv, [Next]_vars, NEW d \in Receivers
  PROVE  \/ Moves(d) /\ got'[d] = <<>>
         \/ Stays(d) /\ got'[d] = got[d]
         \/ Stays(d) /\ \E c \in Chunk : c.to = d /\ Grown(d, c) /\ HandedOn(d, c)
<1>1. ASSUME NEW s \in Senders, filter_message(s) PROVE Stays(d) /\ got'[d] = got[d]
  BY <1>1, FilterFacts DEF Stays
<1>2. ASSUME NEW s \in Senders, clientNodeFromUUID(s) PROVE Stays(d) /\ got'[d] = got[d]
  BY <1>2, FindFacts DEF Stays, receiver
<1>3. ASSUME NEW s \in Senders, SendHere(s)
      PROVE  \/ Stays(d) /\ got'[d] = got[d]
             \/ Stays(d) /\ \E c \in Chunk : c.to = d /\ Grown(d, c) /\ HandedOn(d, c)
  <2>1. Stays(d) /\ pc[s] # "block" /\ destin_id[s] \in Receivers
    BY <1>3, HereFacts DEF Stays
  <2>2. Held(s) \in Chunk /\ Held(s).to = destin_id[s]
    BY <2>1, HeldFacts
  <2>3. CASE got' = got
    BY <2>1, <2>3
  <2>4. CASE place[destin_id[s]] = "here" /\ conn[destin_id[s]] = destin_node[s]
             /\ got' = Given(destin_id[s], Held(s))
    <3>1. CASE d # destin_id[s]
      BY <2>1, <2>2, <2>4, <3>1, GivenFacts
    <3>2. CASE d = destin_id[s]
      <4>1. Grown(d, Held(s))
        BY <2>2, <2>4, <3>2, GivenFacts DEF Grown
      <4>2. HandedOn(d, Held(s))
        BY <1>3, <2>4, <3>2 DEF HandedOn
      <4>3. QED
        BY <2>1, <2>2, <3>2, <4>1, <4>2
    <3>3. QED
      BY <3>1, <3>2
  <2>5. QED
    BY <1>3, <2>3, <2>4, HereFacts
<1>4. ASSUME NEW s \in Senders, SendThere(s) PROVE Stays(d) /\ got'[d] = got[d]
  BY <1>4, ThereFacts DEF Stays, receiver
<1>5. ASSUME deal_user_data
      PROVE  \/ Stays(d) /\ got'[d] = got[d]
             \/ Stays(d) /\ \E c \in Chunk : c.to = d /\ Grown(d, c) /\ HandedOn(d, c)
  <2>1. PICK c \in Chunk : /\ Like(c, wire[1])
                           /\ \/ place[c.to] = "there" /\ got' = Given(c.to, c)
                              \/ place[c.to] # "there" /\ got' = got
    BY <1>5, DealFacts DEF Like
  <2>2. c.to \in Receivers /\ Stays(d)
    BY <1>5, DealFacts DEF Chunk, Stays
  <2>3. CASE got' = got
    BY <2>2, <2>3
  <2>4. CASE place[c.to] = "there" /\ got' = Given(c.to, c) /\ d # c.to
    BY <2>2, <2>4, GivenFacts
  <2>5. CASE place[c.to] = "there" /\ got' = Given(c.to, c) /\ d = c.to
    <3>1. Grown(d, c)
      BY <2>2, <2>5, GivenFacts DEF Grown
    <3>2. HandedOn(d, c)
      BY <1>5, <2>1, <2>5 DEF HandedOn
    <3>3. QED
      BY <2>2, <2>5, <3>1, <3>2
  <2>6. QED
    BY <2>1, <2>3, <2>4, <2>5
<1>6. ASSUME NEW e \in Receivers, Moves(e)
      PROVE  (Moves(d) /\ got'[d] = <<>>) \/ (Stays(d) /\ got'[d] = got[d])
  BY <1>6, MoveFacts DEF Stays
<1>7. CASE UNCHANGED <<receiver, sender, wire>>
  BY <1>7 DEF receiver, Stays
<1>8. QED
  BY <1>1, <1>2, <1>3, <1>4, <1>5, <1>6, <1>7, Steps

LEMMA WireStep ==
  ASSUME RelayTypes, SenderInv, KeptInv, [Next]_vars
  PROVE  \/ wire' = wire /\ ~deal_user_data
         \/ /\ deal_user_data /\ Len(wire) \in Nat \ {0} /\ Len(wire') = Len(wire) - 1
            /\ \A i \in 1..Len(wire') : wire'[i] = wire[i + 1]
         \/ \E s \in Senders :
              /\ SendThere(s) /\ Len(wire) \in Nat /\ Len(wire') = Len(wire) + 1
              /\ \A i \in 1..Len(wire) : wire'[i] = wire[i]
              /\ wire'[Len(wire) + 1] = Held(s) /\ Held(s) \in Chunk /\ got' = got
<1>1. ASSUME NEW s \in Senders, SendThere(s), wire' = Append(wire, Held(s))
      PROVE  /\ Len(wire) \in Nat /\ Len(wire') = Len(wire) + 1
             /\ \A i \in 1..Len(wire) : wire'[i] = wire[i]
             /\ wire'[Len(wire) + 1] = Held(s) /\ Held(s) \in Chunk /\ got' = got
  <2>1. Held(s) \in Chunk /\ got' = got
    BY <1>1, ThereFacts, HeldFacts DEF receiver
  <2>2. QED
    BY <1>1, <2>1, WireFacts
<1>2. CASE deal_user_data
  BY <1>2, DealFacts
<1>3. CASE ~deal_user_data
  <2>1. ASSUME NEW s \in Senders, filter_message(s) PROVE wire' = wire
    BY <2>1, FilterFacts
  <2>2. ASSUME NEW s \in Senders, clientNodeFromUUID(s) PROVE wire' = wire
    BY <2>2, FindFacts
  <2>3. ASSUME NEW s \in Senders, SendHere(s) PROVE wire' = wire
    BY <2>3, HereFacts
  <2>4. ASSUME NEW s \in Senders, SendThere(s)
        PROVE  wire' = wire \/ wire' = Append(wire, Held(s))
    BY <2>4, ThereFacts
  <2>5. ASSUME NEW e \in Receivers, Moves(e) PROVE wire' = wire
    BY <2>5, MoveFacts
  <2>6. \/ wire' = wire
        \/ \E s \in Senders : SendThere(s) /\ wire' = Append(wire, Held(s))
    BY <1>3, <2>1, <2>2, <2>3, <2>4, <2>5, Steps
  <2>7. QED
    BY <1>1, <1>3, <2>6
<1>4. QED
  BY <1>2, <1>3

-----------------------------------------------------------------------------
(* What has been handed on, and what it says of its sender.                *)

\* What a chunk says of its sender after a step.
StillKnown(c) ==
  /\ c.number <= number'[c.from]
  /\ c.number = number'[c.from] =>
       /\ c.size = size'[c.from] /\ c.to = destin_id'[c.from]
       /\ c.size = 1 => pc'[c.from] = "block"

LEMMA KnownKept ==
  ASSUME RelayTypes, SenderInv, KeptInv, [Next]_vars, NEW c \in Chunk, Known(c)
  PROVE  StillKnown(c)
<1>0. /\ c.from \in Senders /\ c.number \in Nat /\ c.size \in Nat
      /\ number[c.from] \in Nat /\ size[c.from] \in Nat /\ m_currentMessageSize[c.from] \in Nat
  BY DEF Chunk, RelayTypes
<1>a. ASSUME Unmoved(c.from) PROVE StillKnown(c)
  BY <1>a DEF StillKnown, Known, Unmoved, SameMessage
<1>1. ASSUME NEW s \in Senders, filter_message(s) PROVE StillKnown(c)
  <2>1. CASE c.from # s
    BY <1>0, <1>1, <1>a, <2>1, FilterFacts
  <2>2. CASE c.from = s /\ number'[s] = number[s] + 1
    BY <1>0, <2>2 DEF StillKnown, Known
  <2>3. CASE c.from = s /\ m_currentMessageSize[s] < size[s] /\ number'[s] = number[s]
             /\ destin_id'[s] = destin_id[s] /\ size'[s] = size[s]
    <3>1. size[s] > 1
      BY <1>0, <2>3 DEF SenderInv
    <3>2. QED
      BY <1>0, <2>3, <3>1 DEF StillKnown, Known
  <2>4. QED
    BY <1>1, <2>1, <2>2, <2>3, FilterFacts
<1>2. ASSUME NEW s \in Senders, clientNodeFromUUID(s) PROVE StillKnown(c)
  <2>1. CASE c.from # s
    BY <1>0, <1>2, <1>a, <2>1, FindFacts
  <2>2. CASE c.from = s
    BY <1>2, <2>2, FindFacts DEF StillKnown, Known, SameMessage
  <2>3. QED
    BY <2>1, <2>2
<1>3. ASSUME NEW s \in Senders, SendHere(s) PROVE StillKnown(c)
  <2>1. CASE c.from # s
    BY <1>0, <1>3, <1>a, <2>1, HereFacts
  <2>2. CASE c.from = s
    BY <1>3, <2>2, HereFacts DEF StillKnown, Known, SameMessage
  <2>3. QED
    BY <2>1, <2>2
<1>4. ASSUME NEW s \in Senders, SendThere(s) PROVE StillKnown(c)
  <2>1. CASE c.from # s
    BY <1>0, <1>4, <1>a, <2>1, ThereFacts
  <2>2. CASE c.from = s
    BY <1>4, <2>2, ThereFacts DEF StillKnown, Known, SameMessage
  <2>3. QED
    BY <2>1, <2>2
<1>5. ASSUME deal_user_data PROVE StillKnown(c)
  BY <1>5, <1>a, DealFacts, OthersStep
<1>6. ASSUME NEW d \in Receivers, Moves(d) PROVE StillKnown(c)
  BY <1>6, <1>a, MoveFacts, OthersStep
<1>7. CASE UNCHANGED <<receiver, sender, wire>>
  BY <1>7, <1>a, OthersStep
<1>8. QED
  BY <1>1, <1>2, <1>3, <1>4, <1>5, <1>6, <1>7, Steps

\* What is handed on is of the message its sender is at.
LEMMA HeldKnown ==
  ASSUME RelayTypes, SenderInv, NEW s \in Senders, SendHere(s) \/ SendThere(s),
         NEW c, c = Held(s)
  PROVE  StillKnown(c)
<1>1. /\ SameMessage(s) /\ pc'[s] = "block" /\ pc[s] # "block"
  BY HereFacts, ThereFacts
<1>2. /\ c.from = s /\ c.number = number[s] /\ c.size = size[s]
      /\ c.to = destin_id[s] /\ number[s] \in Nat
  BY <1>1, HeldFacts DEF RelayTypes
<1>3. QED
  BY <1>1, <1>2 DEF StillKnown, Known, SameMessage

LEMMA ChunksTyped ==
  ASSUME RelayTypes
  PROVE  /\ \A d \in Receivers : \A i \in 1..Len(got[d]) : got[d][i] \in Chunk
         /\ \A i \in 1..Len(wire) : wire[i] \in Chunk
BY ElementOfSeq DEF RelayTypes

LEMMA KnownStep ==
  ASSUME RelayTypes, SenderInv, KeptInv, KnownInv, [Next]_vars
  PROVE  KnownInv'
<1>1. ASSUME NEW d \in Receivers, NEW i \in 1..Len(got'[d])
      PROVE  StillKnown(got'[d][i]) /\ got'[d][i].to = d
  <2>0. \A k \in 1..Len(got[d]) : StillKnown(got[d][k]) /\ got[d][k].to = d
    BY KnownKept, ChunksTyped DEF KnownInv
  <2>1. CASE got'[d] = <<>>
    BY <2>1
  <2>2. CASE got'[d] = got[d]
    BY <2>0, <2>2
  <2>3. ASSUME NEW c \in Chunk, c.to = d, Grown(d, c), HandedOn(d, c)
        PROVE  StillKnown(got'[d][i]) /\ got'[d][i].to = d
    <3>1. StillKnown(c)
      <4>1. ASSUME NEW s \in Senders, SendHere(s), c = Held(s) PROVE StillKnown(c)
        BY <4>1, HeldKnown
      <4>2. CASE deal_user_data /\ Like(c, wire[1])
        <5>1. wire[1] \in Chunk /\ Known(wire[1])
          BY <4>2, DealFacts, ChunksTyped DEF KnownInv
        <5>2. Known(c)
          BY <4>2, <5>1 DEF StillKnown, Known, Like
        <5>3. QED
          BY <5>2, KnownKept
      <4>3. QED
        BY <2>3, <4>1, <4>2 DEF HandedOn
    <3>2. i = Len(got[d]) + 1 \/ i \in 1..Len(got[d])
      BY <2>3 DEF Grown
    <3>3. QED
      BY <2>0, <2>3, <3>1, <3>2 DEF Grown
  <2>4. QED
    BY <2>1, <2>2, <2>3, GotStep
<1>2. ASSUME NEW i \in 1..Len(wire') PROVE StillKnown(wire'[i])
  <2>0. \A k \in 1..Len(wire) : StillKnown(wire[k])
    BY KnownKept, ChunksTyped DEF KnownInv
  <2>1. CASE wire' = wire
    BY <2>0, <2>1
  <2>2. CASE /\ Len(wire) \in Nat \ {0} /\ Len(wire') = Len(wire) - 1
             /\ \A k \in 1..Len(wire') : wire'[k] = wire[k + 1]
    <3>1. i + 1 \in 1..Len(wire) /\ wire'[i] = wire[i + 1]
      BY <2>2
    <3>2. QED
      BY <2>0, <3>1
  <2>3. ASSUME NEW s \in Senders, SendThere(s), Len(wire) \in Nat, Len(wire') = Len(wire) + 1,
               \A k \in 1..Len(wire) : wire'[k] = wire[k], wire'[Len(wire) + 1] = Held(s)
        PROVE  StillKnown(wire'[i])
    <3>1. i \in 1..Len(wire) \/ i = Len(wire) + 1
      BY <2>3
    <3>2. CASE i = Len(wire) + 1
      BY <2>3, <3>2, HeldKnown
    <3>3. CASE i \in 1..Len(wire)
      BY <2>0, <2>3, <3>3
    <3>4. QED
      BY <3>1, <3>2, <3>3
  <2>4. QED
    BY <2>1, <2>2, <2>3, WireStep
<1>3. QED
  BY <1>1, <1>2 DEF StillKnown, Known, KnownInv

\* What is handed on is later than what has been before.
LEMMA HeldLater ==
  ASSUME RelayTypes, SenderInv, NEW s \in Senders, pc[s] # "block",
         NEW c \in Chunk, Known(c)
  PROVE  Earlier(c, Held(s))
<1>1. /\ Held(s).from = s /\ Held(s).number = number[s] /\ number[s] \in Nat /\ c.number \in Nat
  BY HeldFacts DEF RelayTypes, Chunk
<1>2. QED
  BY <1>1 DEF StillKnown, Known, Earlier

LEMMA ShortStep ==
  ASSUME RelayTypes, SenderInv, KeptInv, KnownInv, ShortInv, [Next]_vars
  PROVE  ShortInv'
<1>1. ASSUME NEW d \in Receivers, NEW i \in 1..Len(got'[d]), NEW j \in 1..Len(got'[d]), i < j
      PROVE  Earlier(got'[d][i], got'[d][j])
  <2>1. CASE got'[d] = <<>>
    BY <2>1
  <2>2. CASE got'[d] = got[d]
    BY <1>1, <2>2 DEF ShortInv
  <2>3. ASSUME NEW c \in Chunk, Grown(d, c), HandedOn(d, c)
        PROVE  Earlier(got'[d][i], got'[d][j])
    <3>1. i \in 1..Len(got[d]) /\ (j \in 1..Len(got[d]) \/ j = Len(got[d]) + 1)
      BY <1>1, <2>3 DEF Grown
    <3>2. CASE j \in 1..Len(got[d])
      BY <1>1, <2>3, <3>1, <3>2 DEF ShortInv, Grown
    <3>3. CASE j = Len(got[d]) + 1
      <4>1. Earlier(got[d][i], c)
        <5>1. ASSUME NEW s \in Senders, SendHere(s), c = Held(s) PROVE Earlier(got[d][i], c)
          <6>1. pc[s] # "block" /\ got[d][i] \in Chunk /\ Known(got[d][i])
            BY <3>1, <5>1, HereFacts, ChunksTyped DEF KnownInv
          <6>2. QED
            BY <5>1, <6>1, HeldLater
        <5>2. CASE deal_user_data /\ Like(c, wire[1]) /\ place[d] = "there"
          <6>1. Earlier(got[d][i], wire[1])
            BY <3>1, <5>2, DealFacts DEF ShortInv
          <6>2. QED
            BY <5>2, <6>1 DEF Earlier, Like
        <5>3. QED
          BY <2>3, <5>1, <5>2 DEF HandedOn
      <4>2. QED
        BY <2>3, <3>1, <3>3, <4>1 DEF Grown
    <3>4. QED
      BY <3>1, <3>2, <3>3
  <2>4. QED
    BY <2>1, <2>2, <2>3, GotStep
<1>2. ASSUME NEW i \in 1..Len(wire'), NEW j \in 1..Len(wire'), i < j
      PROVE  Earlier(wire'[i], wire'[j])
  <2>1. CASE wire' = wire
    BY <1>2, <2>1 DEF ShortInv
  <2>2. CASE /\ Len(wire) \in Nat \ {0} /\ Len(wire') = Len(wire) - 1
             /\ \A k \in 1..Len(wire') : wire'[k] = wire[k + 1]
    <3>1. /\ i + 1 \in 1..Len(wire) /\ wire'[i] = wire[i + 1]
          /\ j + 1 \in 1..Len(wire) /\ wire'[j] = wire[j + 1] /\ i + 1 < j + 1
      BY <1>2, <2>2
    <3>2. QED
      BY <3>1 DEF ShortInv
  <2>3. ASSUME NEW s \in Senders, SendThere(s), Len(wire) \in Nat, Len(wire') = Len(wire) + 1,
               \A k \in 1..Len(wire) : wire'[k] = wire[k], wire'[Len(wire) + 1] = Held(s)
        PROVE  Earlier(wire'[i], wire'[j])
    <3>1. i \in 1..Len(wire) /\ (j \in 1..Len(wire) \/ j = Len(wire) + 1)
      BY <1>2, <2>3
    <3>2. CASE j \in 1..Len(wire)
      BY <1>2, <2>3, <3>1, <3>2 DEF ShortInv
    <3>3. CASE j = Len(wire) + 1
      <4>1. pc[s] # "block" /\ wire[i] \in Chunk /\ Known(wire[i])
        BY <2>3, <3>1, ThereFacts, ChunksTyped DEF KnownInv
      <4>2. Earlier(wire[i], Held(s))
        BY <4>1, HeldLater
      <4>3. QED
        BY <2>3, <3>1, <3>3, <4>2
    <3>4. QED
      BY <3>1, <3>2, <3>3
  <2>4. QED
    BY <2>1, <2>2, <2>3, WireStep
<1>3. ASSUME NEW d \in Receivers, place'[d] = "there",
             NEW i \in 1..Len(got'[d]), NEW j \in 1..Len(wire')
      PROVE  Earlier(got'[d][i], wire'[j])
  <2>1. CASE got'[d] = <<>>
    BY <2>1
  <2>2. CASE Stays(d) /\ got'[d] = got[d]
    <3>0. i \in 1..Len(got[d]) /\ got'[d][i] = got[d][i] /\ place[d] = "there"
      BY <1>3, <2>2 DEF Stays
    <3>1. CASE wire' = wire
      BY <3>0, <3>1 DEF ShortInv
    <3>2. CASE /\ Len(wire) \in Nat \ {0} /\ Len(wire') = Len(wire) - 1
               /\ \A k \in 1..Len(wire') : wire'[k] = wire[k + 1]
      <4>1. j + 1 \in 1..Len(wire) /\ wire'[j] = wire[j + 1]
        BY <3>2
      <4>2. QED
        BY <3>0, <4>1 DEF ShortInv
    <3>3. ASSUME NEW s \in Senders, SendThere(s), Len(wire) \in Nat, Len(wire') = Len(wire) + 1,
                 \A k \in 1..Len(wire) : wire'[k] = wire[k], wire'[Len(wire) + 1] = Held(s)
          PROVE  Earlier(got'[d][i], wire'[j])
      <4>1. j \in 1..Len(wire) \/ j = Len(wire) + 1
        BY <3>3
      <4>2. CASE j \in 1..Len(wire)
        BY <3>0, <3>3, <4>2 DEF ShortInv
      <4>3. CASE j = Len(wire) + 1
        <5>1. pc[s] # "block" /\ got[d][i] \in Chunk /\ Known(got[d][i])
          BY <3>0, <3>3, ThereFacts, ChunksTyped DEF KnownInv
        <5>2. Earlier(got[d][i], Held(s))
          BY <5>1, HeldLater
        <5>3. QED
          BY <3>0, <3>3, <4>3, <5>2
      <4>4. QED
        BY <4>1, <4>2, <4>3
    <3>4. QED
      BY <3>1, <3>2, <3>3, WireStep
  <2>3. ASSUME NEW c \in Chunk, Stays(d), Grown(d, c), HandedOn(d, c)
        PROVE  Earlier(got'[d][i], wire'[j])
    <3>1. place[d] = "there" /\ deal_user_data /\ Like(c, wire[1])
      BY <1>3, <2>3 DEF HandedOn, Stays
    <3>2. /\ Len(wire) \in Nat \ {0} /\ Len(wire') = Len(wire) - 1
          /\ \A k \in 1..Len(wire') : wire'[k] = wire[k + 1]
      BY <3>1, DealFacts
    <3>3. /\ j + 1 \in 1..Len(wire) /\ wire'[j] = wire[j + 1] /\ 1 \in 1..Len(wire)
          /\ 1 < j + 1
      BY <3>2
    <3>4. Earlier(c, wire'[j])
      <4>1. Earlier(wire[1], wire[j + 1])
        BY <3>3 DEF ShortInv
      <4>2. QED
        BY <3>1, <3>3, <4>1 DEF Earlier, Like
    <3>5. i \in 1..Len(got[d]) \/ i = Len(got[d]) + 1
      BY <2>3 DEF Grown
    <3>6. CASE i \in 1..Len(got[d])
      BY <2>3, <3>1, <3>3, <3>6 DEF ShortInv, Grown
    <3>7. QED
      BY <2>3, <3>4, <3>5, <3>6 DEF Grown
  <2>4. QED
    BY <2>1, <2>2, <2>3, GotStep
<1>4. QED
  BY <1>1, <1>2, <1>3 DEF ShortInv

-----------------------------------------------------------------------------
(* A receiver who has got nothing yet.                                     *)

\* Whoever awaits his first message has awaited it before.
LEMMA AwaitedBefore ==
  ASSUME RelayTypes, SenderInv, KeptInv, [Next]_vars, NEW d \in Receivers, NEW s \in Senders,
         Awaited(d, s)'
  PROVE  Awaited(d, s)
<1>0. conn[d] \in Nat
  BY DEF RelayTypes
<1>1. CASE Moves(d)
  BY <1>0, <1>1, MoveFacts DEF Awaited
<1>2. CASE Stays(d) /\ got'[d] = got[d]
  BY <1>2 DEF Awaited, Stays, From
<1>3. ASSUME NEW c \in Chunk, Stays(d), Grown(d, c) PROVE Awaited(d, s)
  BY <1>3 DEF Awaited, Stays, Grown
<1>4. QED
  BY <1>1, <1>2, <1>3, GotStep

LEMMA KeptStep ==
  ASSUME RelayTypes, SenderInv, KeptInv, [Next]_vars
  PROVE  KeptInv'
<1> DEFINE Ready(r) == source_id'[r] = "bad" \/ (Holding(r)' /\ m_currentBlock'[r][1] = 1)
<1>1. ASSUME NEW d \in Receivers
      PROVE  /\ conn'[d] = 0 => place'[d] = "nowhere"
             /\ place'[d] = "nowhere" => got'[d] = <<>>
  <2>0. conn[d] \in Nat
    BY DEF RelayTypes
  <2>1. CASE Moves(d) /\ got'[d] = <<>>
    BY <2>0, <2>1, MoveFacts DEF KeptInv
  <2>2. CASE Stays(d) /\ got'[d] = got[d]
    BY <2>2 DEF KeptInv, Stays
  <2>3. ASSUME NEW c \in Chunk, Stays(d), HandedOn(d, c)
        PROVE  /\ conn'[d] = 0 => place'[d] = "nowhere"
               /\ place'[d] = "nowhere" => got'[d] = <<>>
    BY <2>3 DEF KeptInv, Stays, HandedOn
  <2>4. QED
    BY <2>1, <2>2, <2>3, GotStep
<1>2. ASSUME NEW d \in Receivers, NEW r \in Senders, Awaited(d, r)', destin_id'[r] = d
      PROVE  Ready(r)
  <2>0. Awaited(d, r)
    BY <1>2, AwaitedBefore
  <2>a. ASSUME destin_id'[r] = destin_id[r], source_id'[r] = source_id[r],
               m_currentBlock'[r] = m_currentBlock[r]
        PROVE  Ready(r)
    BY <1>2, <2>0, <2>a DEF KeptInv, Holding
  <2>b. ASSUME Unmoved(r) PROVE Ready(r)
    BY <2>a, <2>b DEF Unmoved, SameMessage
  <2>1. ASSUME NEW s \in Senders, filter_message(s)
        PROVE  Ready(r)
    <3>1. CASE r # s
      BY <2>1, <2>b, <3>1, FilterFacts
    <3>2. CASE r = s /\ m_currentBlock'[s] = <<1, 1>>
      BY <3>2 DEF Holding
    <3>3. CASE /\ r = s /\ destin_id'[s] = destin_id[s] /\ source_id'[s] = source_id[s]
               /\ m_currentBlock'[s] =
                    IF Holding(s) THEN <<m_currentBlock[s][1], m_currentMessageSize[s] + 1>>
                    ELSE <<m_currentMessageSize[s] + 1, m_currentMessageSize[s] + 1>>
      <4>0. CASE source_id[s] = "bad"
        BY <3>3, <4>0
      <4>1. source_id[s] = "bad" \/ (Holding(s) /\ m_currentBlock[s][1] = 1)
        BY <1>2, <2>0, <3>3 DEF KeptInv
      <4>2. CASE Holding(s) /\ m_currentBlock[s][1] = 1
        <5>1. m_currentBlock'[s] = <<1, m_currentMessageSize[s] + 1>>
          BY <3>3, <4>2
        <5>2. QED
          BY <3>3, <5>1 DEF Holding
      <4>3. QED
        BY <4>0, <4>1, <4>2
    <3>4. QED
      BY <2>1, <3>1, <3>2, <3>3, FilterFacts
  <2>2. ASSUME NEW s \in Senders, clientNodeFromUUID(s)
        PROVE  Ready(r)
    BY <2>2, <2>a, <2>b, FindFacts DEF SameMessage
  <2>3. ASSUME NEW s \in Senders, SendHere(s)
        PROVE  Ready(r)
    <3>1. CASE r # s
      BY <2>3, <2>b, <3>1, HereFacts
    <3>2. CASE r = s
      <4>1. destin_id[s] = d /\ pc[s] = "found" /\ conn'[d] = conn[d] /\ place'[d] = place[d]
        BY <1>2, <2>3, <3>2, HereFacts DEF SameMessage
      <4>2. destin_node[s] \in 1..conn[d] /\ conn[d] \in Nat
        BY <4>1 DEF SenderInv, RelayTypes
      <4>3. conn[d] = 1 /\ place[d] = "here" /\ From(d, s)' = {}
        BY <1>2, <2>0, <3>2, <4>1, <4>2 DEF Awaited
      <4>4. got' = Given(d, Held(s))
        BY <2>3, <4>1, <4>2, <4>3, HereFacts
      <4>5. Held(s) \in Chunk /\ Held(s).from = s
        BY <4>1, HeldFacts
      <4>6. Len(got[d]) + 1 \in From(d, s)'
        BY <4>4, <4>5, GivenFacts
      <4>7. QED
        BY <4>3, <4>6
    <3>3. QED
      BY <3>1, <3>2
  <2>4. ASSUME NEW s \in Senders, SendThere(s)
        PROVE  Ready(r)
    <3>1. CASE r # s
      BY <2>4, <2>b, <3>1, ThereFacts
    <3>2. CASE r = s /\ m_currentBlock'[s] = m_currentBlock[s]
      BY <2>4, <2>a, <3>2, ThereFacts DEF SameMessage
    <3>3. CASE r = s /\ source_id[s] = "bad"
      BY <2>4, <3>3, ThereFacts DEF SameMessage
    <3>4. QED
      BY <2>4, <3>1, <3>2, <3>3, ThereFacts
  <2>5. ASSUME deal_user_data PROVE Ready(r)
    BY <2>5, <2>b, DealFacts, OthersStep
  <2>6. ASSUME NEW e \in Receivers, Moves(e) PROVE Ready(r)
    BY <2>6, <2>b, MoveFacts, OthersStep
  <2>7. CASE UNCHANGED <<receiver, sender, wire>>
    BY <2>7, <2>b, OthersStep
  <2>8. QED
    BY <2>1, <2>2, <2>3, <2>4, <2>5, <2>6, <2>7, Steps
<1>3. QED
  BY <1>1, <1>2 DEF KeptInv

GrownFrom(d, s) ==
  /\ From(d, s)' = From(d, s) \cup {Len(got[d]) + 1}
  /\ \A r \in Senders \ {s} : From(d, r)' = From(d, r)

\* What a receiver who is on this server gets comes from a sender that has found
\* him, and is the whole of what that sender holds.
LEMMA HereGrown ==
  ASSUME RelayTypes, SenderInv, NEW d \in Receivers, NEW c \in Chunk,
         Stays(d), Grown(d, c), HandedOn(d, c), place'[d] = "here"
  PROVE  \E s \in Senders :
           /\ SendHere(s) /\ pc[s] = "found" /\ destin_id[s] = d
           /\ c.from = s /\ c.number = number[s] /\ c.size = size[s]
           /\ c.first = m_currentBlock[s][1] /\ c.last = m_currentMessageSize[s]
           /\ c.first \in 1..c.last /\ c.source = source_id[s]
           /\ GrownFrom(d, s)
<1>1. PICK s \in Senders : SendHere(s) /\ c = Held(s) /\ destin_id[s] = d
  BY DEF HandedOn, Stays
<1>2. pc[s] = "found"
  BY <1>1, HereFacts
<1>3. /\ c.from = s /\ c.number = number[s] /\ c.size = size[s]
      /\ c.first = m_currentBlock[s][1] /\ c.last = m_currentMessageSize[s]
      /\ c.first \in 1..c.last /\ c.source = source_id[s]
  BY <1>1, <1>2, HeldFacts
<1>4. From(d, s)' = From(d, s) \cup {Len(got[d]) + 1}
  BY <1>3 DEF Grown
<1>5. ASSUME NEW r \in Senders \ {s} PROVE From(d, r)' = From(d, r)
  <2>1. From(d, r)' = From(d, r) \cup (IF c.from = r THEN {Len(got[d]) + 1} ELSE {})
    BY DEF Grown
  <2>2. c.from # r
    BY <1>3
  <2>3. QED
    BY <2>1, <2>2
<1>6. GrownFrom(d, s)
  BY <1>4, <1>5 DEF GrownFrom
<1>7. QED
  BY <1>1, <1>2, <1>3, <1>6

LEMMA KeptForReceiverStep ==
  ASSUME RelayTypes, SenderInv, KeptInv, KeptForReceiver, [Next]_vars
  PROVE  KeptForReceiver'
<1> DEFINE Whole(c) == c.first = 1 \/ c.source = "bad"
<1> SUFFICES ASSUME NEW d \in Receivers, NEW r \in Senders, place'[d] = "here", conn'[d] = 1,
                    NEW i \in From(d, r)', \A k \in From(d, r)' : i <= k
             PROVE  Whole(got'[d][i])
  BY DEF KeptForReceiver
<1>1. CASE got'[d] = <<>>
  BY <1>1 DEF From
<1>2. CASE Stays(d) /\ got'[d] = got[d]
  BY <1>2 DEF KeptForReceiver, Stays, From
<1>3. ASSUME NEW c \in Chunk, Stays(d), Grown(d, c), HandedOn(d, c)
      PROVE  Whole(got'[d][i])
  <2>1. PICK s \in Senders :
          /\ SendHere(s) /\ pc[s] = "found" /\ destin_id[s] = d
          /\ c.first = m_currentBlock[s][1] /\ c.source = source_id[s]
          /\ GrownFrom(d, s)
    BY <1>3, HereGrown
  <2>2. /\ From(d, r) \subseteq 1..Len(got[d]) /\ Len(got[d]) \in Nat
        /\ place[d] = "here" /\ conn[d] = 1
    BY <1>3 DEF From, Grown, Stays
  <2>3. CASE i \in From(d, r)
    <3>1. Whole(got[d][i])
      BY <2>1, <2>2, <2>3 DEF KeptForReceiver, GrownFrom
    <3>2. QED
      BY <1>3, <2>2, <2>3, <3>1 DEF Grown
  <2>4. CASE i \notin From(d, r)
    <3>1. r = s /\ i = Len(got[d]) + 1
      BY <2>1, <2>4 DEF GrownFrom
    <3>2. From(d, r) = {}
      <4>1. ASSUME NEW k \in From(d, r) PROVE FALSE
        <5>1. i <= k /\ k \in 1..Len(got[d])
          BY <2>1, <2>2, <3>1 DEF GrownFrom
        <5>2. QED
          BY <2>2, <3>1, <5>1
      <4>2. QED
        BY <4>1
    <3>3. source_id[s] = "bad" \/ m_currentBlock[s][1] = 1
      BY <2>1, <2>2, <3>1, <3>2 DEF KeptInv, Awaited
    <3>4. QED
      BY <1>3, <2>1, <3>1, <3>3 DEF Grown
  <2>5. QED
    BY <2>3, <2>4
<1>4. QED
  BY <1>1, <1>2, <1>3, GotStep

-----------------------------------------------------------------------------
(* The last thing that a receiver has got.                                 *)

NowAtLast(d, s, c) ==
  /\ c.number = number'[s] =>
       \/ /\ pc'[s] = "block" /\ m_currentBlock'[s] = <<>>
          /\ c.last = m_currentMessageSize'[s]
       \/ /\ pc'[s] \in {"find", "found"} /\ c.last + 1 = m_currentMessageSize'[s]
          /\ m_currentBlock'[s][1] = m_currentMessageSize'[s]
  /\ c.number < number'[s] =>
       /\ c.last = c.size
       /\ destin_id'[s] = d => pc'[s] \in {"find", "found"} /\ m_currentMessageSize'[s] = 1
  /\ pc'[s] = "found" /\ destin_id'[s] = d => destin_node'[s] = conn'[d]

LEMMA AtLastKept ==
  ASSUME RelayTypes, SenderInv, KeptInv, [Next]_vars, NEW d \in Receivers, NEW r \in Senders,
         place[d] = "here", Stays(d), NEW c \in Chunk, c.from = r, c.to = d, Known(c),
         AtLast(d, r, c), ~(SendHere(r) /\ destin_id[r] = d)
  PROVE  NowAtLast(d, r, c)
<1>0. /\ c.number \in Nat /\ number[r] \in Nat /\ c.number <= number[r] /\ c.last \in Nat
      /\ m_currentMessageSize[r] \in Nat
      /\ c.number = number[r] => c.size = size[r] /\ destin_id[r] = d
  BY DEF Chunk, RelayTypes, Known
<1>a. ASSUME Unmoved(r) PROVE NowAtLast(d, r, c)
  BY <1>a DEF NowAtLast, AtLast, Unmoved, SameMessage, Stays, Holding
<1>1. ASSUME NEW s \in Senders, filter_message(s) PROVE NowAtLast(d, r, c)
  <2>1. CASE r # s
    BY <1>1, <1>a, <2>1, FilterFacts
  <2>2. CASE r = s
    <3>0. pc[r] = "block" /\ pc'[r] = "find"
      BY <1>1, <2>2, FilterFacts
    <3>1. CASE /\ m_currentMessageSize[r] = size[r] /\ number'[r] = number[r] + 1
               /\ m_currentMessageSize'[r] = 1
      <4>1. c.last = c.size
        BY <1>0, <3>0, <3>1 DEF AtLast
      <4>2. c.number < number'[r]
        BY <1>0, <3>1
      <4>3. QED
        BY <3>0, <3>1, <4>1, <4>2, <1>0 DEF NowAtLast
    <3>2. CASE /\ number'[r] = number[r] /\ destin_id'[r] = destin_id[r]
               /\ m_currentMessageSize'[r] = m_currentMessageSize[r] + 1
               /\ m_currentBlock'[r] =
                    IF Holding(r) THEN <<m_currentBlock[r][1], m_currentMessageSize[r] + 1>>
                    ELSE <<m_currentMessageSize[r] + 1, m_currentMessageSize[r] + 1>>
      <4>1. CASE c.number = number[r]
        <5>1. ~Holding(r) /\ c.last = m_currentMessageSize[r]
          BY <3>0, <4>1 DEF AtLast
        <5>2. QED
          BY <1>0, <3>0, <3>2, <4>1, <5>1 DEF NowAtLast
      <4>2. CASE c.number < number[r]
        BY <1>0, <3>0, <3>2, <4>2 DEF NowAtLast, AtLast
      <4>3. QED
        BY <1>0, <4>1, <4>2
    <3>3. QED
      BY <1>1, <2>2, <3>1, <3>2, FilterFacts
  <2>3. QED
    BY <2>1, <2>2
<1>2. ASSUME NEW s \in Senders, clientNodeFromUUID(s) PROVE NowAtLast(d, r, c)
  <2>1. CASE r # s
    BY <1>2, <1>a, <2>1, FindFacts
  <2>2. CASE r = s
    <3>1. /\ SameMessage(r) /\ m_currentBlock'[r] = m_currentBlock[r] /\ pc[r] = "find"
          /\ Holding(r)
          /\ destin_id[r] = d => pc'[r] = "found" /\ destin_node'[r] = conn[d]
      BY <1>2, <2>2, FindFacts
    <3>2. CASE destin_id[r] = d
      BY <3>1, <3>2 DEF AtLast, NowAtLast, SameMessage, Stays
    <3>3. CASE destin_id[r] # d
      BY <1>0, <3>1, <3>3 DEF AtLast, NowAtLast, SameMessage
    <3>4. QED
      BY <3>2, <3>3
  <2>3. QED
    BY <2>1, <2>2
<1>3. ASSUME NEW s \in Senders, SendHere(s) PROVE NowAtLast(d, r, c)
  <2>1. CASE r # s
    BY <1>3, <1>a, <2>1, HereFacts
  <2>2. CASE r = s
    <3>1. destin_id[r] # d /\ SameMessage(r)
      BY <1>3, <2>2, HereFacts
    <3>2. QED
      BY <1>0, <3>1 DEF AtLast, NowAtLast, SameMessage
  <2>3. QED
    BY <2>1, <2>2
<1>4. ASSUME NEW s \in Senders, SendThere(s) PROVE NowAtLast(d, r, c)
  <2>1. CASE r # s
    BY <1>4, <1>a, <2>1, ThereFacts
  <2>2. CASE r = s
    <3>1. pc[r] = "absent" /\ SameMessage(r)
      BY <1>4, <2>2, ThereFacts
    <3>2. destin_id[r] # d
      BY <1>0, <3>1 DEF AtLast
    <3>3. QED
      BY <1>0, <3>1, <3>2 DEF AtLast, NowAtLast, SameMessage
  <2>3. QED
    BY <2>1, <2>2
<1>5. ASSUME deal_user_data PROVE NowAtLast(d, r, c)
  BY <1>5, <1>a, DealFacts, OthersStep
<1>6. ASSUME NEW e \in Receivers, Moves(e) PROVE NowAtLast(d, r, c)
  BY <1>6, <1>a, MoveFacts, OthersStep
<1>7. CASE UNCHANGED <<receiver, sender, wire>>
  BY <1>7, <1>a, OthersStep
<1>8. QED
  BY <1>1, <1>2, <1>3, <1>4, <1>5, <1>6, <1>7, Steps

LEMMA LastStep ==
  ASSUME RelayTypes, SenderInv, KeptInv, KnownInv, LastInv, [Next]_vars
  PROVE  LastInv'
<1>1. ASSUME NEW d \in Receivers, NEW r \in Senders, place'[d] = "here",
             NEW i \in From(d, r)', \A k \in From(d, r)' : k <= i
      PROVE  NowAtLast(d, r, got'[d][i])
  <2>0. ASSUME Stays(d), i \in From(d, r), \A k \in From(d, r) : k <= i,
               ~(SendHere(r) /\ destin_id[r] = d)
        PROVE  NowAtLast(d, r, got[d][i])
    <3>1. i \in 1..Len(got[d]) /\ got[d][i].from = r /\ place[d] = "here"
      BY <1>1, <2>0 DEF From, Stays
    <3>2. got[d][i] \in Chunk /\ Known(got[d][i]) /\ got[d][i].to = d
      BY <3>1, ChunksTyped DEF KnownInv
    <3>3. AtLast(d, r, got[d][i])
      BY <2>0, <3>1 DEF LastInv, Last
    <3>4. QED
      BY <2>0, <3>1, <3>2, <3>3, AtLastKept
  <2>1. CASE got'[d] = <<>>
    BY <2>1 DEF From
  <2>2. CASE Stays(d) /\ got'[d] = got[d]
    <3>1. From(d, r)' = From(d, r)
      BY <2>2 DEF From
    <3>2. i \in From(d, r) /\ (\A k \in From(d, r) : k <= i) /\ place[d] = "here"
      BY <1>1, <2>2, <3>1 DEF Stays
    <3>3. ~(SendHere(r) /\ destin_id[r] = d)
      <4>1. ASSUME SendHere(r), destin_id[r] = d PROVE FALSE
        <5>1. i \in 1..Len(got[d]) /\ got[d][i].from = r
          BY <3>2 DEF From
        <5>2. got[d][i] \in Chunk /\ Known(got[d][i]) /\ pc[r] = "found"
          BY <4>1, <5>1, ChunksTyped, HereFacts DEF KnownInv
        <5>3. destin_node[r] = conn[d]
          BY <3>2, <4>1, <5>2 DEF LastInv, Last, AtLast
        <5>4. got' = Given(d, Held(r)) /\ Held(r) \in Chunk
          BY <3>2, <4>1, <5>2, <5>3, HereFacts, HeldFacts
        <5>5. Len(got'[d]) = Len(got[d]) + 1 /\ Len(got[d]) \in Nat
          BY <5>4, GivenFacts
        <5>6. QED
          BY <2>2, <5>5
      <4>2. QED
        BY <4>1
    <3>4. QED
      BY <2>0, <2>2, <3>2, <3>3
  <2>3. ASSUME NEW c \in Chunk, Stays(d), Grown(d, c), HandedOn(d, c)
        PROVE  NowAtLast(d, r, got'[d][i])
    <3>1. PICK s \in Senders :
            /\ SendHere(s) /\ pc[s] = "found" /\ destin_id[s] = d
            /\ c.number = number[s] /\ c.last = m_currentMessageSize[s]
            /\ GrownFrom(d, s)
      BY <1>1, <2>3, HereGrown
    <3>2. From(d, r) \subseteq 1..Len(got[d]) /\ Len(got[d]) \in Nat
      BY <2>3 DEF From, Grown
    <3>3. CASE r = s
      <4>1. i \in From(d, r) \cup {Len(got[d]) + 1} /\ Len(got[d]) + 1 <= i
        BY <1>1, <3>1, <3>3 DEF GrownFrom
      <4>2. i = Len(got[d]) + 1
        BY <3>2, <4>1
      <4>3. got'[d][i] = c
        BY <2>3, <4>2 DEF Grown
      <4>4. /\ SameMessage(s) /\ m_currentBlock'[s] = <<>> /\ pc'[s] = "block"
            /\ number[s] \in Nat
        BY <3>1, HereFacts DEF RelayTypes
      <4>5. QED
        BY <3>1, <3>3, <4>3, <4>4 DEF NowAtLast, SameMessage
    <3>4. CASE r # s
      <4>1. i \in From(d, r) /\ \A k \in From(d, r) : k <= i
        BY <1>1, <3>1, <3>4 DEF GrownFrom
      <4>2. pc'[r] = pc[r]
        BY <3>1, <3>4, HereFacts DEF Unmoved
      <4>3. ~SendHere(r)
        BY <4>2, HereFacts
      <4>4. NowAtLast(d, r, got[d][i])
        BY <2>0, <2>3, <4>1, <4>3
      <4>5. QED
        BY <2>3, <3>2, <4>1, <4>4 DEF Grown
    <3>5. QED
      BY <3>3, <3>4
  <2>4. QED
    BY <2>1, <2>2, <2>3, GotStep
<1>2. SUFFICES ASSUME NEW d \in Receivers, NEW r \in Senders, place'[d] = "here",
                      NEW i \in From(d, r)', Last(d, r, i)'
               PROVE  AtLast(d, r, got[d][i])'
  BY DEF LastInv
<1>3. \A k \in From(d, r)' : k <= i
  BY <1>2 DEF Last
<1>4. NowAtLast(d, r, got'[d][i])
  BY <1>1, <1>2, <1>3
<1>5. QED
  BY <1>4 DEF AtLast, NowAtLast, Holding

LEMMA ContinuousStep ==
  ASSUME RelayTypes, SenderInv, KeptInv, KnownInv, LastInv, Continuous, [Next]_vars
  PROVE  Continuous'
<1> DEFINE Joined(c, e) == \/ e.number = c.number /\ e.first = c.last + 1
                           \/ e.number > c.number /\ e.first = 1 /\ c.last = c.size
<1> SUFFICES ASSUME NEW d \in Receivers, NEW r \in Senders, place'[d] = "here",
                    NEW i \in From(d, r)', NEW j \in From(d, r)', i < j,
                    \A k \in From(d, r)' : k <= i \/ k >= j
             PROVE  Joined(got'[d][i], got'[d][j])
  BY DEF Continuous, Neighbours
<1>0. ASSUME Stays(d), i \in From(d, r), j \in From(d, r),
             \A k \in From(d, r) : k <= i \/ k >= j
      PROVE  Joined(got[d][i], got[d][j])
  BY <1>0 DEF Continuous, Neighbours, Stays
<1> HIDE DEF Joined
<1>1. CASE got'[d] = <<>>
  BY <1>1 DEF From
<1>2. CASE Stays(d) /\ got'[d] = got[d]
  <2>1. From(d, r)' = From(d, r)
    BY <1>2 DEF From
  <2>2. QED
    BY <1>0, <1>2, <2>1
<1>3. ASSUME NEW c \in Chunk, Stays(d), Grown(d, c), HandedOn(d, c)
      PROVE  Joined(got'[d][i], got'[d][j])
  <2>1. PICK s \in Senders :
          /\ SendHere(s) /\ pc[s] = "found" /\ destin_id[s] = d
          /\ c.number = number[s] /\ c.first = m_currentBlock[s][1]
          /\ c.last = m_currentMessageSize[s] /\ c.first \in 1..c.last
          /\ GrownFrom(d, s)
    BY <1>3, HereGrown
  <2>2. From(d, r) \subseteq 1..Len(got[d]) /\ Len(got[d]) \in Nat
    BY <1>3 DEF From, Grown
  <2>3. CASE i \in From(d, r) /\ j \in From(d, r)
    <3>1. \A k \in From(d, r) : k <= i \/ k >= j
      BY <2>1 DEF GrownFrom
    <3>2. Joined(got[d][i], got[d][j])
      BY <1>0, <1>3, <2>3, <3>1
    <3>3. got'[d][i] = got[d][i] /\ got'[d][j] = got[d][j]
      BY <1>3, <2>2, <2>3 DEF Grown
    <3>4. QED
      BY <3>2, <3>3
  <2>4. CASE ~(i \in From(d, r) /\ j \in From(d, r))
    <3>1. r = s
      BY <2>1, <2>4 DEF GrownFrom
    <3>2. /\ i \in From(d, r) \cup {Len(got[d]) + 1} /\ j \in From(d, r) \cup {Len(got[d]) + 1}
          /\ \A k \in From(d, r) : k <= i \/ k >= j
      BY <2>1, <3>1 DEF GrownFrom
    <3>3. j = Len(got[d]) + 1 /\ i \in From(d, r)
      BY <2>2, <2>4, <3>2
    <3>4. \A k \in From(d, r) : k <= i
      <4>1. ASSUME NEW k \in From(d, r) PROVE k <= i
        <5>1. k \in 1..Len(got[d])
          BY <2>2
        <5>2. QED
          BY <2>2, <3>2, <3>3, <5>1
      <4>2. QED
        BY <4>1
    <3>5. i \in 1..Len(got[d]) /\ got[d][i].from = r
      BY <3>3 DEF From
    <3>6. got[d][i] \in Chunk /\ Known(got[d][i]) /\ place[d] = "here"
      BY <1>3, <3>5, ChunksTyped DEF KnownInv, Stays
    <3>7. AtLast(d, r, got[d][i])
      BY <3>3, <3>4, <3>6 DEF LastInv, Last
    <3>8. /\ got[d][i].number \in Nat /\ number[r] \in Nat /\ got[d][i].number <= number[r]
          /\ got[d][i].last \in Nat /\ m_currentMessageSize[r] \in Nat
      BY <3>5, <3>6 DEF Chunk, RelayTypes, Known
    <3>9. CASE got[d][i].number = number[r]
      <4>1. c.first = got[d][i].last + 1
        BY <2>1, <3>1, <3>7, <3>9 DEF AtLast
      <4>2. QED
        BY <1>3, <2>1, <3>1, <3>3, <3>5, <3>9, <4>1 DEF Joined, Grown
    <3>10. CASE got[d][i].number < number[r]
      <4>1. got[d][i].last = got[d][i].size /\ m_currentMessageSize[r] = 1
        BY <2>1, <3>1, <3>7, <3>10 DEF AtLast
      <4>2. c.first = 1
        BY <2>1, <3>1, <4>1
      <4>3. got'[d][i] = got[d][i] /\ got'[d][j] = c
        BY <1>3, <3>3, <3>5 DEF Grown
      <4>4. QED
        BY <2>1, <3>1, <3>8, <3>10, <4>1, <4>2, <4>3 DEF Joined
    <3>11. QED
      BY <3>8, <3>9, <3>10
  <2>5. QED
    BY <2>3, <2>4
<1>4. QED
  BY <1>1, <1>2, <1>3, GotStep

-----------------------------------------------------------------------------
(* The theorems.                                                           *)

LEMMA NextRelayInv ==
  ASSUME RelayInv, [Next]_vars
  PROVE  RelayInv'
<1>1. /\ RelayTypes /\ SenderInv /\ KnownInv /\ ShortInv /\ LastInv /\ KeptInv
      /\ Continuous /\ KeptForReceiver
  BY DEF RelayInv
<1>2. RelayTypes' /\ SenderInv' /\ KeptInv'
  BY <1>1, TypesStep, SenderStep, KeptStep
<1>3. KnownInv' /\ ShortInv' /\ LastInv'
  BY <1>1, KnownStep, ShortStep, LastStep
<1>4. Continuous' /\ KeptForReceiver'
  BY <1>1, ContinuousStep, KeptForReceiverStep
<1>5. QED
  BY <1>2, <1>3, <1>4 DEF RelayInv

\* In every state a sender holds the last piece that has arrived and those before
\* it that could not be handed on, and what a receiver has got last from a sender
\* and what that sender holds fit together (st_clientNodeAppLayer's
\* m_currentMessageSize, m_currentBlock and m_currentHeader).
THEOREM RelayInvCorrect == Spec => []RelayInv
<1>1. Init => RelayInv
  BY InitRelayInv
<1>2. RelayInv /\ [Next]_vars => RelayInv'
  BY NextRelayInv
<1>3. QED
  BY <1>1, <1>2, PTL DEF Spec

\* What a receiver on this server gets from one sender is his messages, piece by
\* piece and without a gap (bytesLeft, deal_current_message_block, SendToNode).
THEOREM ContinuousCorrect == Spec => []Continuous
<1>1. RelayInv => Continuous
  BY DEF RelayInv
<1>2. QED
  BY <1>1, RelayInvCorrect, PTL

\* Messages of one block come in order and once, here and through the other
\* server (st_cross_svr_node::deal_user_data).
THEOREM ShortIntactCorrect == Spec => []ShortIntact
<1>1. ASSUME RelayInv PROVE ShortIntact
  <2>1. SUFFICES ASSUME NEW d \in Receivers, NEW s \in Senders,
                        NEW i \in From(d, s), NEW j \in From(d, s),
                        i < j, got[d][i].size = 1, got[d][j].size = 1
                 PROVE  got[d][i].number < got[d][j].number
    BY DEF ShortIntact
  <2>2. /\ i \in 1..Len(got[d]) /\ j \in 1..Len(got[d])
        /\ got[d][i].from = s /\ got[d][j].from = s
    BY DEF From
  <2>3. got[d][i].to = d /\ got[d][j].to = d
    BY <1>1, <2>2 DEF RelayInv, KnownInv
  <2>4. Earlier(got[d][i], got[d][j])
    BY <1>1, <2>1, <2>2 DEF RelayInv, ShortInv
  <2>5. QED
    BY <2>1, <2>2, <2>3, <2>4 DEF Earlier
<1>2. QED
  BY <1>1, RelayInvCorrect, PTL

\* Whoever logs in for the first time while a message to him arrives gets it from
\* its first piece on (clientNodeFromUUID finds him, m_currentBlock is whole), unless
\* its source id is bad and deal_current_message_block has dropped what was held.
THEOREM KeptForReceiverCorrect == Spec => []KeptForReceiver
<1>1. RelayInv => KeptForReceiver
  BY DEF RelayInv
<1>2. QED
  BY <1>1, RelayInvCorrect, PTL
=============================================================================
