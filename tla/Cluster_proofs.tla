--------------------------- MODULE Cluster_proofs ---------------------------
(* Theorems about Cluster for every set of servers, every configuration of *)
(* who joins whom, and any number of connections and faults.               *)
EXTENDS Cluster, SequenceTheorems, TLAPS

\* TypeOK but for what the client table is told.
NodeTypes ==
  /\ owner \in [Ends -> Servers \cup {Nobody}]
  /\ node \in [Ends -> Nodes]
  /\ link \in [Conns -> {"none", "up", "down"}]
  /\ greeting \subseteq Ends
  /\ wire \in [Ends -> Seq(Messages)]
  /\ m_strTermName \in [Ends -> Servers \cup {Nobody}]
  /\ m_hash_Name2node \in [Servers -> [Servers -> Ends \cup {NoEnd}]]
  /\ pc \in [Ends -> Labels]
  /\ names \in [Ends -> SUBSET Servers]
  /\ faults \in 0..MaxFaults

\* Where the hellos are in what arrives at an end.
Hellos(q) == {i \in 1..Len(q) : q[i].kind = "hello"}
HasHello(q) == Hellos(q) # {}

\* At most one hello is in flight, and it carries the name n.
OneHello(q, n) ==
  \A i \in Hellos(q) : q[i].names = {n} /\ \A j \in Hellos(q) : j = i

\* Node e has not said hello yet.
ToGreet(e) == node[e] \in {"none", "arriving"} \/ e \in greeting

\* An end is in use exactly when its connection has been dialled.
UseOf(e) ==
  /\ link[e[1]] = "none" <=> owner[e] = Nobody
  /\ link[e[1]] = "none" <=> node[e] = "none"
  /\ link[e[1]] = "none" => wire[e] = <<>> /\ pc[e] = "idle"

\* A node leaves the table of sockets with its connection only, and neither a
\* worker nor a queued hello knows it before it has entered.
StageOf(e) ==
  /\ node[e] = "gone" => link[e[1]] = "down"
  /\ pc[e] # "idle" \/ e \in greeting => node[e] \in {"open", "gone"}

\* The name of a node is the name of the server at the other side, which is
\* not its own server; a worker that registers the node has found it named.
NameOf(e) ==
  /\ m_strTermName[e] # Nobody => m_strTermName[e] = owner[Peer(e)]
                                  /\ owner[Peer(e)] # owner[e]
  /\ pc[e] \in {"regist", "reject", "announce"} => m_strTermName[e] # Nobody

\* The other side says hello once: before that, and while the hello is in
\* flight, the node has no name.
HelloOf(e) ==
  /\ OneHello(wire[e], owner[Peer(e)])
  /\ HasHello(wire[e]) => m_strTermName[e] = Nobody /\ ~ToGreet(Peer(e))
  /\ ToGreet(Peer(e)) => m_strTermName[e] = Nobody

\* What is to be announced of a connected node is registered.
AnnounceOf(e) ==
  pc[e] = "announce" /\ node[e] = "open"
    => m_hash_Name2node[owner[e]][m_strTermName[e]] = e

\* A connection that is up is on its way to be registered or registered.
ServedOf(e) ==
  link[e[1]] = "up" =>
    \/ ToGreet(Peer(e)) \/ HasHello(wire[e])
    \/ pc[e] \in {"regist", "reject"}
    \/ m_hash_Name2node[owner[e]][owner[Peer(e)]] = e

EndInv == \A e \in Ends : /\ UseOf(e) /\ StageOf(e) /\ NameOf(e) /\ HelloOf(e)
                          /\ AnnounceOf(e) /\ ServedOf(e)

\* A node that is registered is not being registered again.
EntryInv ==
  \A s, n \in Servers :
    m_hash_Name2node[s][n] # NoEnd
      => pc[m_hash_Name2node[s][n]] \notin {"regist", "reject"}

IInv == NodeTypes /\ EndInv /\ EntryInv /\ RegisteredPeer

-----------------------------------------------------------------------------
(* Ends, and hellos on the wire.                                           *)

LEMMA PeerFacts ==
  ASSUME NEW e \in Ends
  PROVE  /\ e[1] \in Conns /\ Peer(e) \in Ends /\ Peer(e) # e
         /\ Peer(Peer(e)) = e /\ Peer(e)[1] = e[1]
         /\ \A f \in Ends : f[1] = e[1] => f \in {e, Peer(e)}
BY DEF Ends, Peer

LEMMA EmptyWire ==
  ASSUME NEW n
  PROVE  <<>> \in Seq(Messages) /\ OneHello(<<>>, n) /\ ~HasHello(<<>>)
BY DEF OneHello, HasHello, Hellos

LEMMA TailWire ==
  ASSUME NEW q \in Seq(Messages), q # <<>>, NEW n, OneHello(q, n)
  PROVE  /\ Head(q) \in Messages /\ Tail(q) \in Seq(Messages)
         /\ OneHello(Tail(q), n)
         /\ Head(q).kind = "hello" => Head(q).names = {n} /\ ~HasHello(Tail(q))
         /\ Head(q).kind = "hello" => HasHello(q)
         /\ HasHello(Tail(q)) => HasHello(q)
         /\ Head(q).kind # "hello" /\ HasHello(q) => HasHello(Tail(q))
<1>1. /\ Head(q) = q[1] /\ Head(q) \in Messages /\ Tail(q) \in Seq(Messages)
      /\ Len(q) \in Nat \ {0} /\ Len(Tail(q)) = Len(q) - 1
      /\ \A i \in 1..Len(Tail(q)) : Tail(q)[i] = q[i + 1]
  BY HeadTailProperties, EmptySeq
<1>2. \A i \in Hellos(Tail(q)) : i + 1 \in Hellos(q) /\ Tail(q)[i] = q[i + 1]
  BY <1>1 DEF Hellos
<1>3. \A i \in Hellos(q) : i # 1 => i - 1 \in Hellos(Tail(q))
  BY <1>1 DEF Hellos
<1>4. Head(q).kind = "hello" <=> 1 \in Hellos(q)
  BY <1>1 DEF Hellos
<1>5. \A i \in Hellos(q) : i \in Nat
  BY DEF Hellos
<1>6. \A i \in Hellos(Tail(q)) : i \in Nat \ {0}
  BY DEF Hellos
<1>7. OneHello(Tail(q), n)
  <2>1. ASSUME NEW i \in Hellos(Tail(q)), NEW j \in Hellos(Tail(q)) PROVE j = i
    <3>1. j + 1 = i + 1
      BY <1>2, <2>1 DEF OneHello
    <3>2. QED
      BY <1>6, <3>1
  <2>2. QED
    BY <1>2, <2>1 DEF OneHello
<1>8. Head(q).kind = "hello" => Head(q).names = {n} /\ ~HasHello(Tail(q))
  <2>1. SUFFICES ASSUME 1 \in Hellos(q) PROVE Head(q).names = {n} /\ ~HasHello(Tail(q))
    BY <1>4
  <2>2. \A i \in Hellos(Tail(q)) : i + 1 = 1
    BY <1>2, <2>1 DEF OneHello
  <2>3. QED
    BY <1>1, <1>6, <2>1, <2>2 DEF OneHello, HasHello
<1>9. Head(q).kind # "hello" /\ HasHello(q) => HasHello(Tail(q))
  BY <1>3, <1>4 DEF HasHello
<1>10. QED
  BY <1>1, <1>2, <1>4, <1>7, <1>8, <1>9 DEF HasHello

LEMMA AppendList ==
  ASSUME NEW q \in Seq(Messages), NEW n, NEW S \in SUBSET Servers
  PROVE  /\ Append(q, ServerList(S)) \in Seq(Messages)
         /\ HasHello(Append(q, ServerList(S))) <=> HasHello(q)
         /\ OneHello(q, n) => OneHello(Append(q, ServerList(S)), n)
<1> DEFINE a == Append(q, ServerList(S))
<1>1. ServerList(S) \in Messages /\ ServerList(S).kind # "hello"
  BY DEF ServerList, Messages
<1>2. /\ a \in Seq(Messages) /\ Len(q) \in Nat /\ Len(a) = Len(q) + 1
      /\ a[Len(q) + 1] = ServerList(S)
      /\ \A i \in 1..Len(q) : a[i] = q[i]
  BY <1>1, AppendProperties
<1> HIDE DEF a
<1>3. \A i \in Hellos(a) : i \in Hellos(q) /\ a[i] = q[i]
  BY <1>1, <1>2 DEF Hellos
<1>4. \A i \in Hellos(q) : i \in Hellos(a)
  BY <1>2 DEF Hellos
<1>5. QED
  BY <1>2, <1>3, <1>4 DEF a, HasHello, OneHello

LEMMA AppendHello ==
  ASSUME NEW q \in Seq(Messages), NEW s \in Servers, ~HasHello(q)
  PROVE  /\ Append(q, Hello(s)) \in Seq(Messages)
         /\ HasHello(Append(q, Hello(s)))
         /\ OneHello(Append(q, Hello(s)), s)
<1> DEFINE a == Append(q, Hello(s))
<1>1. Hello(s) \in Messages /\ Hello(s).kind = "hello" /\ Hello(s).names = {s}
  BY DEF Hello, Messages
<1>2. /\ a \in Seq(Messages) /\ Len(q) \in Nat /\ Len(a) = Len(q) + 1
      /\ a[Len(q) + 1] = Hello(s)
      /\ \A i \in 1..Len(q) : a[i] = q[i]
  BY <1>1, AppendProperties
<1> HIDE DEF a
<1>3. Hellos(a) = {Len(q) + 1}
  BY <1>1, <1>2 DEF Hellos, HasHello
<1>4. QED
  BY <1>1, <1>2, <1>3 DEF a, HasHello, OneHello

-----------------------------------------------------------------------------
(* Every step keeps the invariant.                                         *)

LEMMA InitIInv == Init => IInv
<1> SUFFICES ASSUME Init PROVE IInv
  OBVIOUS
<1>1. NodeTypes
  BY ClusterAssumption, EmptyWire DEF Init, NodeTypes, Nodes, Labels
<1>2. ASSUME NEW e \in Ends
      PROVE  UseOf(e) /\ StageOf(e) /\ NameOf(e) /\ HelloOf(e) /\ AnnounceOf(e) /\ ServedOf(e)
  BY <1>2, PeerFacts, EmptyWire
     DEF Init, UseOf, StageOf, NameOf, HelloOf, AnnounceOf, ServedOf, ToGreet
<1>3. EntryInv /\ RegisteredPeer
  BY DEF Init, EntryInv, RegisteredPeer
<1>4. QED
  BY <1>1, <1>2, <1>3 DEF IInv, EndInv

\* Two ends that were not in use become the two nodes of a new connection;
\* connections may go down at the same time.
LEMMA EstablishKeeps ==
  ASSUME IInv, NEW s \in Servers, NEW t \in Servers, NEW c \in Conns, link[c] = "none",
         Establish(s, t, c), link' \in [Conns -> {"none", "up", "down"}], link'[c] = "up",
         \A d \in Conns : d # c => link'[d] = link[d] \/ (link[d] = "up" /\ link'[d] = "down"),
         UNCHANGED <<greeting, wire, m_strTermName, m_hash_Name2node>>,
         pc' \in [Ends -> Labels],
         \A e \in Ends : pc'[e] = pc[e], 
         names' \in [Ends -> SUBSET Servers], faults' \in 0..MaxFaults
  PROVE  IInv'
<1> DEFINE d == <<c, "dial">>
           a == <<c, "accept">>
<1>0. d \in Ends /\ a \in Ends /\ d[1] = c /\ a[1] = c /\ Peer(d) = a /\ Peer(a) = d /\ a # d
  BY DEF Ends, Peer
<1>1. /\ owner' = [owner EXCEPT ![d] = s, ![a] = t]
      /\ node' = [node EXCEPT ![d] = "arriving", ![a] = "arriving"]
  BY DEF Establish
<1>2. \A e \in Ends : e[1] = c => e \in {d, a}
  BY <1>0, PeerFacts
<1> HIDE DEF d, a
<1>3. NodeTypes'
  BY <1>0, <1>1 DEF IInv, NodeTypes, Nodes
<1>4. s # Nobody /\ t # Nobody
  BY ClusterAssumption DEF Nobody
<1>5. ASSUME NEW e \in Ends
      PROVE  (UseOf(e) /\ StageOf(e) /\ NameOf(e) /\ HelloOf(e) /\ AnnounceOf(e) /\ ServedOf(e))'
  <2>1. CASE e \in {d, a}
    <3>1. /\ e[1] = c /\ Peer(e) \in {d, a} /\ owner'[e] \in Servers
          /\ owner'[Peer(e)] \in Servers /\ node'[e] = "arriving" /\ node'[Peer(e)] = "arriving"
      BY <2>1, <1>0, <1>1 DEF IInv, NodeTypes
    <3>2. /\ pc'[e] = "idle" /\ wire'[e] = <<>> /\ m_strTermName'[e] = Nobody
          /\ e \notin greeting'
      BY <3>1, PeerFacts DEF IInv, EndInv, UseOf, StageOf, NameOf, HelloOf, ToGreet
    <3>3. QED
      BY <3>1, <3>2, <1>4, EmptyWire, ClusterAssumption
         DEF UseOf, StageOf, NameOf, HelloOf, AnnounceOf, ServedOf, ToGreet
  <2>2. CASE e \notin {d, a}
    <3>1. e[1] # c /\ Peer(e) \notin {d, a} /\ Peer(e) \in Ends /\ e[1] \in Conns
      BY <2>2, <1>0, <1>2, PeerFacts
    <3>2. /\ owner'[e] = owner[e] /\ owner'[Peer(e)] = owner[Peer(e)] /\ node'[e] = node[e]
          /\ node'[Peer(e)] = node[Peer(e)] /\ pc'[e] = pc[e]
          /\ link'[e[1]] = link[e[1]] \/ (link[e[1]] = "up" /\ link'[e[1]] = "down")
      BY <3>1, <2>2, <1>1 DEF IInv, NodeTypes
    <3>3. QED
      BY <3>1, <3>2 DEF IInv, EndInv, UseOf, StageOf, NameOf, HelloOf, AnnounceOf, ServedOf, ToGreet
  <2>3. QED
    BY <2>1, <2>2
<1>6. EntryInv' /\ RegisteredPeer'
  <2>1. ASSUME NEW r \in Servers, NEW n \in Servers, m_hash_Name2node[r][n] # NoEnd
        PROVE  LET e == m_hash_Name2node[r][n]
               IN  e \in Ends /\ e \notin {d, a} /\ Peer(e) \notin {d, a} /\ Peer(e) \in Ends
    BY <2>1, <1>0, <1>4, PeerFacts, ClusterAssumption DEF IInv, NodeTypes, RegisteredPeer, EndInv, UseOf
  <2>2. QED
    BY <1>1, <2>1 DEF IInv, NodeTypes, EntryInv, RegisteredPeer
<1>7. QED
  BY <1>3, <1>5, <1>6 DEF IInv, EndInv

LEMMA DialKeeps ==
  ASSUME IInv, NEW s \in Servers, NEW t \in Servers, Dial(s, t),
         UNCHANGED <<greeting, wire, m_strTermName, m_hash_Name2node, pc, faults>>,
         names' \in [Ends -> SUBSET Servers]
  PROVE  IInv'
<1>1. PICK c \in Conns : NextUnused(c) /\ Establish(s, t, c) /\ link' = [link EXCEPT ![c] = "up"]
  BY DEF Dial
<1>2. link[c] = "none"
  BY <1>1 DEF NextUnused, Unused
<1>3. QED
  BY <1>1, <1>2, EstablishKeeps DEF IInv, NodeTypes

LEMMA RejoinKeeps ==
  ASSUME IInv, NEW s \in Servers, NEW t \in Servers, Rejoin(s, t)
  PROVE  IInv'
<1>1. PICK c \in Conns :
         /\ NextUnused(c) /\ Establish(s, t, c)
         /\ link' = [d \in Conns |-> IF d \in Own(s) THEN "down"
                                     ELSE IF d = c THEN "up" ELSE link[d]]
  BY DEF Rejoin
<1>2. link[c] = "none" /\ c \notin Own(s)
  BY <1>1 DEF NextUnused, Unused, Own
<1>3. \A d \in Own(s) : link[d] = "up"
  BY DEF Own
<1>4. QED
  BY <1>1, <1>2, <1>3, EstablishKeeps DEF Rejoin, IInv, NodeTypes

\* Both ends of a connection that has been dialled belong to servers.
LEMMA OwnersKnown ==
  ASSUME IInv, NEW e \in Ends, link[e[1]] # "none"
  PROVE  owner[e] \in Servers /\ owner[Peer(e)] \in Servers
<1>1. Peer(e) \in Ends /\ Peer(e)[1] = e[1]
  BY PeerFacts
<1>2. UseOf(e) /\ UseOf(Peer(e))
  BY <1>1 DEF IInv, EndInv
<1>3. QED
  BY <1>1, <1>2 DEF UseOf, IInv, NodeTypes

\* A step at end f that changes the owner of no end, brings no node back into
\* the table of sockets and says no hello disturbs no other end, whatever is
\* broadcast on the other wires.
LEMMA ElsewhereKeeps ==
  ASSUME IInv, NEW e \in Ends,
         owner'[e] = owner[e], owner'[Peer(e)] = owner[Peer(e)],
         node'[e] = node[e],
         ToGreet(Peer(e))' <=> ToGreet(Peer(e)), e \in greeting' <=> e \in greeting,
         link'[e[1]] = link[e[1]] \/ (link[e[1]] = "up" /\ link'[e[1]] = "down"),
         m_strTermName'[e] = m_strTermName[e], pc'[e] = pc[e],
         \/ wire'[e] = wire[e]
         \/ /\ link[e[1]] # "none"
            /\ \E S \in SUBSET Servers : wire'[e] = Append(wire[e], ServerList(S)),
         \A s, n \in Servers : m_hash_Name2node[s][n] = e
                                 => m_hash_Name2node'[s][n] = e
  PROVE  (UseOf(e) /\ StageOf(e) /\ NameOf(e) /\ HelloOf(e) /\ AnnounceOf(e) /\ ServedOf(e))'
<1>1. e[1] \in Conns /\ Peer(e) \in Ends /\ Peer(e)[1] = e[1]
  BY PeerFacts
<1>2. wire[e] \in Seq(Messages)
  BY DEF IInv, NodeTypes
<1>3. /\ HasHello(wire'[e]) <=> HasHello(wire[e])
      /\ OneHello(wire[e], owner[Peer(e)]) => OneHello(wire'[e], owner[Peer(e)])
  <2>1. CASE wire'[e] = wire[e]
    BY <2>1
  <2>2. ASSUME NEW S \in SUBSET Servers, wire'[e] = Append(wire[e], ServerList(S))
        PROVE  /\ HasHello(wire'[e]) <=> HasHello(wire[e])
               /\ OneHello(wire[e], owner[Peer(e)]) => OneHello(wire'[e], owner[Peer(e)])
    BY <1>2, <2>2, AppendList
  <2>3. QED
    BY <2>1, <2>2
<1>4. UseOf(e) /\ StageOf(e) /\ NameOf(e) /\ HelloOf(e) /\ AnnounceOf(e) /\ ServedOf(e)
  BY DEF IInv, EndInv
<1>5. UseOf(e)' /\ StageOf(e)' /\ NameOf(e)'
  <2>1. UseOf(e)'
    BY <1>4 DEF UseOf
  <2>2. StageOf(e)'
    BY <1>4 DEF StageOf
  <2>3. NameOf(e)'
    BY <1>4 DEF NameOf
  <2>4. QED
    BY <2>1, <2>2, <2>3
<1>6. HelloOf(e)'
  BY <1>1, <1>3, <1>4 DEF HelloOf
<1>7. AnnounceOf(e)'
  <2>1. SUFFICES ASSUME pc[e] = "announce", node[e] = "open"
                 PROVE  m_hash_Name2node'[owner[e]][m_strTermName[e]] = e
    BY DEF AnnounceOf
  <2>2. m_strTermName[e] \in Servers /\ owner[e] \in Servers
    BY <1>4, <2>1 DEF NameOf, UseOf, IInv, NodeTypes
  <2>3. QED
    BY <1>4, <2>1, <2>2 DEF AnnounceOf
<1>8. ServedOf(e)'
  <2>1. SUFFICES ASSUME link[e[1]] = "up", ServedOf(e)
                 PROVE  \/ ToGreet(Peer(e))' \/ HasHello(wire'[e])
                        \/ pc'[e] \in {"regist", "reject"}
                        \/ m_hash_Name2node'[owner[e]][owner[Peer(e)]] = e
    BY <1>4 DEF ServedOf
  <2>2. owner[e] \in Servers /\ owner[Peer(e)] \in Servers
    BY <2>1, OwnersKnown
  <2>3. QED
    BY <1>3, <2>1, <2>2 DEF ServedOf
<1>9. QED
  BY <1>5, <1>6, <1>7, <1>8

\* The main thread.

LEMMA NewClientKeeps ==
  ASSUME IInv, NEW f \in Ends, NewClientConnected(f)
  PROVE  IInv'
<1> USE DEF NewClientConnected
<1>1. NodeTypes'
  BY DEF IInv, NodeTypes, Nodes
<1>2. node'[f] = "open" /\ f \in greeting' /\ \A e \in Ends \ {f} : node'[e] = node[e]
  BY DEF IInv, NodeTypes
<1>3. ToGreet(f)' /\ ToGreet(f)
  BY <1>2 DEF ToGreet
<1>4. ASSUME NEW e \in Ends, e # f
      PROVE  (UseOf(e) /\ StageOf(e) /\ NameOf(e) /\ HelloOf(e) /\ AnnounceOf(e) /\ ServedOf(e))'
  <2>1. Peer(e) \in Ends /\ (ToGreet(Peer(e))' <=> ToGreet(Peer(e)))
    BY <1>2, <1>3, PeerFacts DEF ToGreet
  <2>2. QED
    BY <1>2, <1>4, <2>1, ElsewhereKeeps
<1>5. (UseOf(f) /\ StageOf(f) /\ NameOf(f) /\ HelloOf(f) /\ AnnounceOf(f) /\ ServedOf(f))'
  <2>1. Peer(f) \in Ends /\ Peer(f) # f /\ (ToGreet(Peer(f))' <=> ToGreet(Peer(f)))
    BY <1>2, PeerFacts DEF ToGreet
  <2>2. pc[f] = "idle"
    BY DEF IInv, EndInv, StageOf
  <2>3. QED
    BY <1>2, <2>1, <2>2 DEF IInv, EndInv, UseOf, StageOf, NameOf, HelloOf, AnnounceOf, ServedOf
<1>6. EntryInv' /\ RegisteredPeer'
  BY DEF IInv, EntryInv, RegisteredPeer
<1>7. QED
  BY <1>1, <1>4, <1>5, <1>6 DEF IInv, EndInv

LEMMA SendHelloKeeps ==
  ASSUME IInv, NEW f \in Ends, SendHelloPackage(f)
  PROVE  IInv'
<1> DEFINE p == Peer(f)
<1> USE DEF SendHelloPackage
<1>0. p \in Ends /\ p # f /\ Peer(p) = f /\ f[1] \in Conns /\ p[1] = f[1]
  BY PeerFacts
<1>1. node[f] \in {"open", "gone"} /\ link[f[1]] # "none" /\ owner[f] \in Servers
  BY DEF IInv, NodeTypes, EndInv, StageOf, UseOf
<1>2. ToGreet(f) /\ ~ToGreet(f)' /\ m_strTermName[p] = Nobody /\ ~HasHello(wire[p])
  BY <1>0, <1>1 DEF ToGreet, IInv, EndInv, HelloOf
<1>3. wire[p] \in Seq(Messages)
  BY <1>0 DEF IInv, NodeTypes
<1>4. /\ wire'[p] \in Seq(Messages) /\ OneHello(wire'[p], owner[f])
      /\ link[f[1]] = "up" => HasHello(wire'[p])
      /\ \A e \in Ends \ {p} : wire'[e] = wire[e]
  <2>1. wire' = [wire EXCEPT ![p] = IF link[f[1]] = "up" THEN Append(wire[p], Hello(owner[f]))
                                    ELSE wire[p]]
    BY DEF Sent
  <2>2. CASE link[f[1]] = "up"
    <3>1. wire'[p] = Append(wire[p], Hello(owner[f]))
      BY <2>1, <2>2, <1>0 DEF IInv, NodeTypes
    <3>2. \A e \in Ends \ {p} : wire'[e] = wire[e]
      BY <2>1 DEF IInv, NodeTypes
    <3>3. /\ Append(wire[p], Hello(owner[f])) \in Seq(Messages)
          /\ HasHello(Append(wire[p], Hello(owner[f])))
          /\ OneHello(Append(wire[p], Hello(owner[f])), owner[f])
      BY <1>1, <1>2, <1>3, AppendHello
    <3>4. QED
      BY <3>1, <3>2, <3>3
  <2>3. CASE link[f[1]] # "up"
    BY <2>1, <2>3, <1>0, <1>3 DEF IInv, NodeTypes, EndInv, HelloOf
  <2>4. QED
    BY <2>2, <2>3
<1>5. NodeTypes'
  <2>1. wire' \in [Ends -> Seq(Messages)]
    BY <1>0, <1>4 DEF IInv, NodeTypes
  <2>2. QED
    BY <2>1 DEF IInv, NodeTypes
<1>6. ASSUME NEW e \in Ends, e # f, e # p
      PROVE  (UseOf(e) /\ StageOf(e) /\ NameOf(e) /\ HelloOf(e) /\ AnnounceOf(e) /\ ServedOf(e))'
  <2>1. Peer(e) \in Ends /\ Peer(e) # f
    BY <1>0, <1>6, PeerFacts
  <2>2. ToGreet(Peer(e))' <=> ToGreet(Peer(e))
    BY <2>1 DEF ToGreet
  <2>3. QED
    BY <1>4, <1>6, <2>1, <2>2, ElsewhereKeeps
<1>7. (UseOf(f) /\ StageOf(f) /\ NameOf(f) /\ HelloOf(f) /\ AnnounceOf(f) /\ ServedOf(f))'
  <2>1. ToGreet(p)' <=> ToGreet(p)
    BY <1>0 DEF ToGreet
  <2>2. QED
    BY <1>0, <1>4, <2>1 DEF IInv, EndInv, UseOf, StageOf, NameOf, HelloOf, AnnounceOf, ServedOf
<1>8. (UseOf(p) /\ StageOf(p) /\ NameOf(p) /\ HelloOf(p) /\ AnnounceOf(p) /\ ServedOf(p))'
  BY <1>0, <1>1, <1>2, <1>4
     DEF IInv, EndInv, UseOf, StageOf, NameOf, HelloOf, AnnounceOf, ServedOf
<1>9. EntryInv' /\ RegisteredPeer'
  BY DEF IInv, EntryInv, RegisteredPeer
<1>10. QED
  BY <1>5, <1>6, <1>7, <1>8, <1>9 DEF IInv, EndInv

LEMMA ClientDisconnectedKeeps ==
  ASSUME IInv, NEW f \in Ends, ClientDisconnected(f)
  PROVE  IInv'
<1> DEFINE s == owner[f]
<1> USE DEF ClientDisconnected
<1>0. s \in Servers /\ f[1] \in Conns /\ link[f[1]] = "down" /\ node[f] = "open"
  BY PeerFacts DEF IInv, NodeTypes, EndInv, UseOf
<1>1. /\ \A e \in Ends : node'[e] = IF e = f THEN "gone" ELSE node[e]
      /\ \A e \in Ends : wire'[e] = IF e = f /\ pc[f] = "idle" THEN <<>> ELSE wire[e]
  BY DEF IInv, NodeTypes
<1>2. /\ m_hash_Name2node' \in [Servers -> [Servers -> Ends \cup {NoEnd}]]
      /\ \A r, n \in Servers :
           m_hash_Name2node'[r][n] = IF r = s /\ n = m_strTermName[f] /\ m_hash_Name2node[s][n] = f
                                     THEN NoEnd ELSE m_hash_Name2node[r][n]
  BY <1>0 DEF IInv, NodeTypes, OwnName
<1>3. NodeTypes'
  <2>1. wire' \in [Ends -> Seq(Messages)]
    BY <1>1, EmptyWire DEF IInv, NodeTypes
  <2>2. node' \in [Ends -> Nodes]
    BY DEF IInv, NodeTypes, Nodes
  <2>4. QED
    BY <1>2, <2>1, <2>2 DEF IInv, NodeTypes
<1>4. \A e \in Ends : ToGreet(e)' <=> ToGreet(e)
  BY <1>0, <1>1 DEF ToGreet
<1>5. ASSUME NEW e \in Ends, e # f
      PROVE  (UseOf(e) /\ StageOf(e) /\ NameOf(e) /\ HelloOf(e) /\ AnnounceOf(e) /\ ServedOf(e))'
  <2>1. \A r, n \in Servers : m_hash_Name2node[r][n] = e => m_hash_Name2node'[r][n] = e
    BY <1>2, <1>5
  <2>2. QED
    BY <1>1, <1>4, <1>5, <2>1, PeerFacts, ElsewhereKeeps
<1>6. (UseOf(f) /\ StageOf(f) /\ NameOf(f) /\ HelloOf(f) /\ AnnounceOf(f) /\ ServedOf(f))'
  <2>1. ToGreet(Peer(f))' <=> ToGreet(Peer(f))
    BY <1>4, PeerFacts
  <2>2. QED
    BY <1>0, <1>1, <2>1, EmptyWire
       DEF IInv, EndInv, UseOf, StageOf, NameOf, HelloOf, AnnounceOf, ServedOf
<1>7. EntryInv' /\ RegisteredPeer'
  BY <1>2 DEF IInv, NodeTypes, EntryInv, RegisteredPeer
<1>9. QED
  BY <1>3, <1>5, <1>6, <1>7 DEF IInv, EndInv

\* The working threads.  Only the node that is run changes, except for what a
\* broadcast puts on the wires.
LEMMA OthersKeep ==
  ASSUME IInv, NEW f \in Ends,
         UNCHANGED <<owner, node, greeting>>, UNCHANGED link \/ Kick(f),
         \A e \in Ends \ {f} :
           /\ m_strTermName'[e] = m_strTermName[e] /\ pc'[e] = pc[e]
           /\ \/ wire'[e] = wire[e]
              \/ /\ link[e[1]] # "none"
                 /\ \E S \in SUBSET Servers : wire'[e] = Append(wire[e], ServerList(S))
           /\ \A s, n \in Servers : m_hash_Name2node[s][n] = e
                                      => m_hash_Name2node'[s][n] = e
  PROVE  \A e \in Ends \ {f} :
           (UseOf(e) /\ StageOf(e) /\ NameOf(e) /\ HelloOf(e) /\ AnnounceOf(e) /\ ServedOf(e))'
<1> TAKE e \in Ends \ {f}
<1>1. ToGreet(Peer(e))' <=> ToGreet(Peer(e))
  BY DEF ToGreet
<1>2. link'[e[1]] = link[e[1]] \/ (link[e[1]] = "up" /\ link'[e[1]] = "down")
  BY PeerFacts DEF Kick, IInv, NodeTypes
<1>3. QED
  BY <1>1, <1>2, ElsewhereKeeps

LEMMA DoneFacts ==
  ASSUME IInv, NEW f \in Ends, NEW w \in [Ends -> Seq(Messages)], Done(f, w)
  PROVE  /\ pc' \in [Ends -> Labels] /\ wire' \in [Ends -> Seq(Messages)]
         /\ pc'[f] \in {"run", "idle"}
         /\ wire'[f] = w[f] \/ (wire'[f] = <<>> /\ node[f] # "open")
         /\ \A e \in Ends \ {f} : pc'[e] = pc[e] /\ wire'[e] = w[e]
<1>1. <<>> \in Seq(Messages) /\ pc \in [Ends -> Labels]
  BY EmptyWire DEF IInv, NodeTypes
<1>2. CASE Goto(f, "run") /\ wire' = w
  BY <1>1, <1>2 DEF Goto, Labels
<1>3. CASE Goto(f, "idle") /\ wire' = [w EXCEPT ![f] = IF node[f] = "open" THEN @ ELSE <<>>]
  BY <1>1, <1>3 DEF Goto, Labels
<1>4. QED
  BY <1>2, <1>3 DEF Done

\* Rest takes the first message off the wire of f.
LEMMA RestFacts ==
  ASSUME IInv, NEW f \in Ends, wire[f] # <<>>
  PROVE  /\ Rest(f) \in [Ends -> Seq(Messages)] /\ Rest(f)[f] = Tail(wire[f])
         /\ \A e \in Ends \ {f} : Rest(f)[e] = wire[e]
         /\ link[f[1]] # "none"
<1>1. Tail(wire[f]) \in Seq(Messages)
  BY HeadTailProperties, EmptySeq DEF IInv, NodeTypes
<1>2. QED
  BY <1>1 DEF Rest, IInv, NodeTypes, EndInv, UseOf

LEMMA TakeHelloKeeps ==
  ASSUME IInv, NEW f \in Ends, TakeHello(f)
  PROVE  IInv'
<1> DEFINE q == wire[f]
           far == owner[Peer(f)]
<1>0. /\ q # <<>> /\ Head(q).kind = "hello"
      /\ pc[f] = "run" \/ (pc[f] = "idle" /\ node[f] = "open")
  BY DEF TakeHello, Take
<1>1. /\ Tail(q) \in Seq(Messages) /\ OneHello(Tail(q), far) /\ ~HasHello(Tail(q))
      /\ Head(q).names = {far} /\ HasHello(q)
  BY <1>0, TailWire DEF IInv, NodeTypes, EndInv, HelloOf
<1>2. /\ m_strTermName[f] = Nobody /\ ~ToGreet(Peer(f)) /\ link[f[1]] # "none"
      /\ node[f] \in {"open", "gone"}
  BY <1>0, <1>1 DEF IInv, EndInv, HelloOf, UseOf, StageOf
<1>3. /\ UNCHANGED <<owner, node, greeting, m_hash_Name2node, names, faults>>
      /\ \/ far = owner[f] /\ Kick(f) /\ Done(f, Rest(f)) /\ UNCHANGED m_strTermName
         \/ /\ far # owner[f]
            /\ m_strTermName' = [m_strTermName EXCEPT ![f] = far]
            /\ Goto(f, "regist") /\ wire' = Rest(f) /\ UNCHANGED link
  BY <1>1 DEF TakeHello
<1>4. ~ToGreet(Peer(f))'
  BY <1>2, <1>3 DEF ToGreet
<1>5. far \in Servers
  BY <1>2, OwnersKnown
<1>6. CASE far = owner[f]
  <2>1. Kick(f) /\ Done(f, Rest(f)) /\ UNCHANGED m_strTermName
    BY <1>3, <1>6
  <2>2. /\ pc' \in [Ends -> Labels] /\ wire' \in [Ends -> Seq(Messages)]
        /\ pc'[f] \in {"run", "idle"} /\ wire'[f] \in {Tail(q), <<>>}
        /\ \A e \in Ends \ {f} : pc'[e] = pc[e] /\ wire'[e] = wire[e]
    <3>1. /\ Rest(f) \in [Ends -> Seq(Messages)] /\ Rest(f)[f] = Tail(q)
          /\ \A e \in Ends \ {f} : Rest(f)[e] = wire[e]
      BY <1>0, RestFacts
    <3>2. QED
      BY <2>1, <3>1, DoneFacts
  <2>3. link' \in [Conns -> {"none", "up", "down"}] /\ link'[f[1]] = "down"
    BY <1>2, <2>1, PeerFacts DEF Kick, IInv, NodeTypes
  <2>4. NodeTypes'
    BY <1>3, <2>1, <2>2, <2>3 DEF IInv, NodeTypes
  <2>5. \A e \in Ends \ {f} :
          (UseOf(e) /\ StageOf(e) /\ NameOf(e) /\ HelloOf(e) /\ AnnounceOf(e) /\ ServedOf(e))'
    BY <1>3, <2>1, <2>2, OthersKeep
  <2>6. (UseOf(f) /\ StageOf(f) /\ NameOf(f) /\ HelloOf(f) /\ AnnounceOf(f) /\ ServedOf(f))'
    <3>1. OneHello(wire'[f], far) /\ ~HasHello(wire'[f])
      BY <1>1, <2>2, EmptyWire
    <3>2. UseOf(f) /\ StageOf(f) /\ NameOf(f)
      BY DEF IInv, EndInv
    <3>3. UseOf(f)' /\ StageOf(f)' /\ NameOf(f)'
      BY <1>2, <1>3, <2>1, <2>2, <2>3, <3>2 DEF UseOf, StageOf, NameOf
    <3>4. HelloOf(f)' /\ AnnounceOf(f)' /\ ServedOf(f)'
      BY <1>3, <1>4, <2>2, <2>3, <3>1 DEF HelloOf, AnnounceOf, ServedOf
    <3>5. QED
      BY <3>3, <3>4
  <2>7. EntryInv' /\ RegisteredPeer'
    BY <1>3, <2>1, <2>2 DEF IInv, NodeTypes, EntryInv, RegisteredPeer
  <2>8. QED
    BY <2>4, <2>5, <2>6, <2>7 DEF IInv, EndInv
<1>7. CASE far # owner[f]
  <2>1. /\ m_strTermName' = [m_strTermName EXCEPT ![f] = far]
        /\ pc' = [pc EXCEPT ![f] = "regist"] /\ wire' = Rest(f) /\ UNCHANGED link
    BY <1>3, <1>7 DEF Goto
  <2>2. wire' \in [Ends -> Seq(Messages)] /\ wire'[f] = Tail(q)
        /\ \A e \in Ends \ {f} : wire'[e] = wire[e]
    BY <1>0, <2>1, RestFacts
  <2>3. /\ m_strTermName' \in [Ends -> Servers \cup {Nobody}] /\ pc' \in [Ends -> Labels]
        /\ m_strTermName'[f] = far /\ pc'[f] = "regist"
        /\ \A e \in Ends \ {f} : m_strTermName'[e] = m_strTermName[e] /\ pc'[e] = pc[e]
    BY <1>5, <2>1 DEF IInv, NodeTypes, Labels
  <2>4. NodeTypes'
    BY <1>3, <2>1, <2>2, <2>3 DEF IInv, NodeTypes
  <2>5. \A e \in Ends \ {f} :
          (UseOf(e) /\ StageOf(e) /\ NameOf(e) /\ HelloOf(e) /\ AnnounceOf(e) /\ ServedOf(e))'
    BY <1>3, <2>1, <2>2, <2>3, OthersKeep
  <2>6. far # Nobody
    BY <1>5, ClusterAssumption
  <2>7. (UseOf(f) /\ StageOf(f) /\ NameOf(f) /\ HelloOf(f) /\ AnnounceOf(f) /\ ServedOf(f))'
    BY <1>1, <1>2, <1>3, <1>4, <1>7, <2>1, <2>2, <2>3, <2>6
       DEF IInv, EndInv, UseOf, StageOf, NameOf, HelloOf, AnnounceOf, ServedOf
  <2>8. \A r, n \in Servers : m_hash_Name2node[r][n] # f
    BY <1>2, ClusterAssumption, NoEndAssumption DEF IInv, RegisteredPeer
  <2>9. EntryInv' /\ RegisteredPeer'
    BY <1>3, <2>3, <2>8 DEF IInv, NodeTypes, EntryInv, RegisteredPeer
  <2>10. QED
    BY <2>4, <2>5, <2>7, <2>9 DEF IInv, EndInv
<1>8. QED
  BY <1>6, <1>7

LEMMA RegisitKeeps ==
  ASSUME IInv, NEW f \in Ends, RegisitNewServer(f)
  PROVE  IInv'
<1> DEFINE s == owner[f]
           n == m_strTermName[f]
<1>0. /\ pc[f] = "regist" /\ n # Nobody /\ n = owner[Peer(f)] /\ n # s
      /\ s \in Servers /\ n \in Servers /\ link[f[1]] # "none"
  BY OwnersKnown DEF RegisitNewServer, IInv, EndInv, NameOf, UseOf
<1>1. UNCHANGED <<owner, node, link, greeting, wire, m_strTermName, names, faults>>
  BY DEF RegisitNewServer
<1>2. \A r, m \in Servers : m_hash_Name2node[r][m] # f
  BY <1>0, NoEndAssumption DEF IInv, EntryInv
<1>3. \/ /\ m_hash_Name2node[s][n] = NoEnd
         /\ m_hash_Name2node' = [m_hash_Name2node EXCEPT ![s][n] = f]
         /\ pc' = [pc EXCEPT ![f] = "announce"]
      \/ /\ m_hash_Name2node[s][n] # NoEnd /\ UNCHANGED m_hash_Name2node
         /\ pc' = [pc EXCEPT ![f] = "reject"]
  BY DEF RegisitNewServer, Goto
<1>4. NodeTypes'
  <2>1. m_hash_Name2node' \in [Servers -> [Servers -> Ends \cup {NoEnd}]]
    <3>1. [m_hash_Name2node[s] EXCEPT ![n] = f] \in [Servers -> Ends \cup {NoEnd}]
      BY <1>0 DEF IInv, NodeTypes
    <3>2. QED
      BY <1>0, <1>3, <3>1 DEF IInv, NodeTypes
  <2>2. pc' \in [Ends -> Labels]
    BY <1>3 DEF IInv, NodeTypes, Labels
  <2>3. QED
    BY <1>1, <2>1, <2>2 DEF IInv, NodeTypes
<1>5. \A e \in Ends \ {f} : pc'[e] = pc[e]
  BY <1>3 DEF IInv, NodeTypes
<1>6. \A r, m \in Servers :
        m_hash_Name2node'[r][m] = IF r = s /\ m = n /\ m_hash_Name2node[s][n] = NoEnd
                                  THEN f ELSE m_hash_Name2node[r][m]
  BY <1>0, <1>3 DEF IInv, NodeTypes
<1>7. \A e \in Ends \ {f} :
        (UseOf(e) /\ StageOf(e) /\ NameOf(e) /\ HelloOf(e) /\ AnnounceOf(e) /\ ServedOf(e))'
  <2>1. \A e \in Ends \ {f} : \A r, m \in Servers :
          m_hash_Name2node[r][m] = e => m_hash_Name2node'[r][m] = e
    BY <1>6, NoEndAssumption
  <2>2. QED
    BY <1>1, <1>5, <2>1, OthersKeep
<1>8. (UseOf(f) /\ StageOf(f) /\ NameOf(f) /\ HelloOf(f) /\ AnnounceOf(f) /\ ServedOf(f))'
  <2>1. ToGreet(Peer(f))' <=> ToGreet(Peer(f))
    BY <1>1 DEF ToGreet
  <2>2. /\ pc'[f] = "announce" /\ m_hash_Name2node'[s][n] = f
        \/ pc'[f] = "reject"
    BY <1>0, <1>3 DEF IInv, NodeTypes
  <2>3. QED
    BY <1>0, <1>1, <2>1, <2>2
       DEF IInv, EndInv, UseOf, StageOf, NameOf, HelloOf, AnnounceOf, ServedOf
<1>9. EntryInv' /\ RegisteredPeer'
  <2>1. ASSUME NEW r \in Servers, NEW m \in Servers, m_hash_Name2node'[r][m] # NoEnd
        PROVE  LET e == m_hash_Name2node'[r][m] IN
                 /\ m # r /\ owner'[e] = r /\ owner'[Peer(e)] = m /\ m_strTermName'[e] = m
                 /\ pc'[e] \notin {"regist", "reject"}
    <3>1. CASE r = s /\ m = n /\ m_hash_Name2node[s][n] = NoEnd
      BY <3>1, <1>0, <1>1, <1>3, <1>6 DEF IInv, NodeTypes
    <3>2. CASE ~(r = s /\ m = n /\ m_hash_Name2node[s][n] = NoEnd)
      <4>1. m_hash_Name2node'[r][m] = m_hash_Name2node[r][m]
        BY <3>2, <1>6
      <4>2. m_hash_Name2node[r][m] \in Ends \ {f}
        BY <2>1, <4>1, <1>2 DEF IInv, NodeTypes
      <4>3. QED
        BY <2>1, <4>1, <4>2, <1>1, <1>5 DEF IInv, EntryInv, RegisteredPeer
    <3>3. QED
      BY <3>1, <3>2
  <2>2. QED
    BY <2>1 DEF EntryInv, RegisteredPeer
<1>11. QED
  BY <1>4, <1>7, <1>8, <1>9 DEF IInv, EndInv

LEMMA RejectKeeps ==
  ASSUME IInv, NEW f \in Ends, Reject(f)
  PROVE  IInv'
<1>0. /\ pc[f] = "reject" /\ Kick(f) /\ Done(f, wire)
      /\ m_strTermName' = [m_strTermName EXCEPT ![f] = Nobody]
      /\ UNCHANGED <<owner, node, greeting, m_hash_Name2node, names, faults>>
  BY DEF Reject
<1>1. node[f] \in {"open", "gone"} /\ link[f[1]] # "none"
  BY <1>0 DEF IInv, EndInv, StageOf, UseOf
<1>2. \A r, m \in Servers : m_hash_Name2node[r][m] # f
  BY <1>0, NoEndAssumption DEF IInv, EntryInv
<1>3. /\ pc' \in [Ends -> Labels] /\ wire' \in [Ends -> Seq(Messages)]
      /\ pc'[f] \in {"run", "idle"} /\ wire'[f] \in {wire[f], <<>>}
      /\ \A e \in Ends \ {f} : pc'[e] = pc[e] /\ wire'[e] = wire[e]
  <2>1. wire \in [Ends -> Seq(Messages)]
    BY DEF IInv, NodeTypes
  <2>2. QED
    BY <1>0, <2>1, DoneFacts
<1>4. link' \in [Conns -> {"none", "up", "down"}] /\ link'[f[1]] = "down"
  BY <1>0, <1>1, PeerFacts DEF Kick, IInv, NodeTypes
<1>5. /\ m_strTermName' \in [Ends -> Servers \cup {Nobody}] /\ m_strTermName'[f] = Nobody
      /\ \A e \in Ends \ {f} : m_strTermName'[e] = m_strTermName[e]
  BY <1>0 DEF IInv, NodeTypes
<1>6. NodeTypes'
  BY <1>0, <1>3, <1>4, <1>5 DEF IInv, NodeTypes
<1>7. \A e \in Ends \ {f} :
        (UseOf(e) /\ StageOf(e) /\ NameOf(e) /\ HelloOf(e) /\ AnnounceOf(e) /\ ServedOf(e))'
  BY <1>0, <1>3, <1>5, OthersKeep
<1>8. (UseOf(f) /\ StageOf(f) /\ NameOf(f) /\ HelloOf(f) /\ AnnounceOf(f) /\ ServedOf(f))'
  <2>1. ToGreet(Peer(f))' <=> ToGreet(Peer(f))
    BY <1>0 DEF ToGreet
  <2>2. UseOf(f) /\ StageOf(f) /\ HelloOf(f)
    BY DEF IInv, EndInv
  <2>3. OneHello(wire'[f], owner[Peer(f)]) /\ (HasHello(wire'[f]) => HasHello(wire[f]))
    BY <1>3, <2>2, EmptyWire DEF HelloOf
  <2>4. UseOf(f)' /\ StageOf(f)' /\ NameOf(f)'
    BY <1>0, <1>1, <1>3, <1>4, <1>5, <2>2 DEF UseOf, StageOf, NameOf
  <2>5. HelloOf(f)' /\ AnnounceOf(f)' /\ ServedOf(f)'
    BY <1>0, <1>3, <1>4, <1>5, <2>1, <2>2, <2>3 DEF HelloOf, AnnounceOf, ServedOf
  <2>6. QED
    BY <2>4, <2>5
<1>9. EntryInv' /\ RegisteredPeer'
  <2>1. \A r, m \in Servers : m_hash_Name2node[r][m] # NoEnd => m_hash_Name2node[r][m] \in Ends \ {f}
    BY <1>2 DEF IInv, NodeTypes
  <2>2. QED
    BY <1>0, <1>3, <1>5, <2>1
       DEF IInv, NodeTypes, EntryInv, RegisteredPeer
<1>10. QED
  BY <1>6, <1>7, <1>8, <1>9 DEF IInv, EndInv

LEMMA AnnounceKeeps ==
  ASSUME IInv, NEW f \in Ends, Announce(f)
  PROVE  IInv'
<1>0. /\ pc[f] = "announce" /\ pc' = [pc EXCEPT ![f] = "collect"]
      /\ UNCHANGED <<owner, node, link, greeting, wire, m_strTermName,
                     m_hash_Name2node, names, faults>>
  BY DEF Announce, Goto
<1>1. /\ owner[f] \in Servers /\ m_strTermName[f] \in Servers
      /\ node[f] = "open" => m_hash_Name2node[owner[f]][m_strTermName[f]] = f
  <2>1. link[f[1]] # "none"
    BY <1>0 DEF IInv, EndInv, UseOf
  <2>2. QED
    BY <1>0, <2>1, OwnersKnown DEF IInv, NodeTypes, EndInv, NameOf, AnnounceOf
<1>2. /\ pc' \in [Ends -> Labels] /\ pc'[f] = "collect"
      /\ \A e \in Ends \ {f} : pc'[e] = pc[e]
  BY <1>0 DEF IInv, NodeTypes, Labels
<1>3. NodeTypes'
  BY <1>0, <1>1, <1>2 DEF IInv, NodeTypes
<1>4. \A e \in Ends \ {f} :
        (UseOf(e) /\ StageOf(e) /\ NameOf(e) /\ HelloOf(e) /\ AnnounceOf(e) /\ ServedOf(e))'
  BY <1>0, <1>2, OthersKeep
<1>5. (UseOf(f) /\ StageOf(f) /\ NameOf(f) /\ HelloOf(f) /\ AnnounceOf(f) /\ ServedOf(f))'
  <2>1. ToGreet(Peer(f))' <=> ToGreet(Peer(f))
    BY <1>0 DEF ToGreet
  <2>2. QED
    BY <1>0, <1>2, <2>1
       DEF IInv, EndInv, UseOf, StageOf, NameOf, HelloOf, AnnounceOf, ServedOf
<1>6. EntryInv' /\ RegisteredPeer'
  BY <1>0, <1>2 DEF IInv, NodeTypes, EntryInv, RegisteredPeer
<1>8. QED
  BY <1>3, <1>4, <1>5, <1>6 DEF IInv, EndInv

\* A step of the worker of f that registers nothing and takes no hello.
LEMMA PlainStepKeeps ==
  ASSUME IInv, NEW f \in Ends,
         UNCHANGED <<owner, node, link, greeting, m_strTermName, m_hash_Name2node,
                     faults>>,
         pc[f] # "idle" \/ node[f] = "open",
         pc[f] \notin {"regist", "reject", "announce"},
         pc' \in [Ends -> Labels], pc'[f] \notin {"regist", "reject", "announce"},
         \A e \in Ends \ {f} : pc'[e] = pc[e],
         names' \in [Ends -> SUBSET Servers], wire' \in [Ends -> Seq(Messages)],
         OneHello(wire'[f], owner[Peer(f)]),
         HasHello(wire'[f]) => HasHello(wire[f]),
         node[f] = "open" /\ HasHello(wire[f]) => HasHello(wire'[f]),
         \A e \in Ends \ {f} :
           \/ wire'[e] = wire[e]
           \/ /\ link[e[1]] # "none"
              /\ \E S \in SUBSET Servers : wire'[e] = Append(wire[e], ServerList(S))
  PROVE  IInv'
<1>1. NodeTypes'
  BY DEF IInv, NodeTypes
<1>2. node[f] \in {"open", "gone"} /\ link[f[1]] # "none"
  BY DEF IInv, EndInv, StageOf, UseOf
<1>3. \A e \in Ends \ {f} :
        (UseOf(e) /\ StageOf(e) /\ NameOf(e) /\ HelloOf(e) /\ AnnounceOf(e) /\ ServedOf(e))'
  BY OthersKeep
<1>4. (UseOf(f) /\ StageOf(f) /\ NameOf(f) /\ HelloOf(f) /\ AnnounceOf(f) /\ ServedOf(f))'
  <2>1. ToGreet(Peer(f))' <=> ToGreet(Peer(f))
    BY DEF ToGreet
  <2>2. UseOf(f) /\ StageOf(f) /\ NameOf(f) /\ HelloOf(f) /\ ServedOf(f)
    BY DEF IInv, EndInv
  <2>3. UseOf(f)' /\ StageOf(f)' /\ NameOf(f)'
    BY <1>2, <2>2 DEF UseOf, StageOf, NameOf
  <2>4. HelloOf(f)' /\ AnnounceOf(f)'
    BY <2>1, <2>2 DEF HelloOf, AnnounceOf
  <2>5. ServedOf(f)'
    BY <1>2, <2>1, <2>2 DEF ServedOf, StageOf
  <2>6. QED
    BY <2>3, <2>4, <2>5
<1>5. EntryInv' /\ RegisteredPeer'
  BY DEF IInv, NodeTypes, EntryInv, RegisteredPeer
<1>6. QED
  BY <1>1, <1>3, <1>4, <1>5 DEF IInv, EndInv

LEMMA CollectKeeps ==
  ASSUME IInv, NEW f \in Ends, CollectServers(f)
  PROVE  IInv'
<1>0. pc[f] = "collect" /\ pc' = [pc EXCEPT ![f] = "tell"]
  BY DEF CollectServers, Goto
<1>1. owner[f] \in Servers
  <2>1. link[f[1]] # "none"
    BY <1>0 DEF IInv, EndInv, UseOf
  <2>2. QED
    BY <2>1, OwnersKnown
<1>2. names' \in [Ends -> SUBSET Servers]
  BY <1>1 DEF CollectServers, SvrNames, IInv, NodeTypes
<1>3. /\ pc' \in [Ends -> Labels] /\ pc'[f] = "tell"
      /\ \A e \in Ends \ {f} : pc'[e] = pc[e]
  BY <1>0 DEF IInv, NodeTypes, Labels
<1>4. wire \in [Ends -> Seq(Messages)] /\ OneHello(wire[f], owner[Peer(f)])
  BY DEF IInv, NodeTypes, EndInv, HelloOf
<1>5. QED
  BY <1>0, <1>2, <1>3, <1>4, PlainStepKeeps DEF CollectServers

LEMMA TellKeeps ==
  ASSUME IInv, NEW f \in Ends, TellServers(f)
  PROVE  IInv'
<1> DEFINE s == owner[f]
           told == {m_hash_Name2node[s][n] : n \in SvrNames(s)}
           w == [p \in Ends |-> IF Peer(p) \in told
                                THEN Sent(Peer(p), ServerList(names[f])) ELSE wire[p]]
<1>0. pc[f] = "tell" /\ Done(f, w) /\ names' = [names EXCEPT ![f] = {}]
  BY DEF TellServers
<1>1. names[f] \in SUBSET Servers /\ names' \in [Ends -> SUBSET Servers]
  BY <1>0 DEF IInv, NodeTypes
<1>2. ASSUME NEW e \in Ends
      PROVE  \/ w[e] = wire[e]
             \/ link[e[1]] = "up" /\ w[e] = Append(wire[e], ServerList(names[f]))
  <2>1. Peer(Peer(e)) = e /\ Peer(e)[1] = e[1]
    BY PeerFacts
  <2>2. Sent(Peer(e), ServerList(names[f]))
          = IF link[e[1]] = "up" THEN Append(wire[e], ServerList(names[f])) ELSE wire[e]
    BY <2>1 DEF Sent
  <2>3. QED
    BY <2>2
<1>3. ASSUME NEW e \in Ends
      PROVE  /\ w[e] \in Seq(Messages) /\ OneHello(w[e], owner[Peer(e)])
             /\ HasHello(w[e]) <=> HasHello(wire[e])
  <2>1. wire[e] \in Seq(Messages) /\ OneHello(wire[e], owner[Peer(e)])
    BY DEF IInv, NodeTypes, EndInv, HelloOf
  <2>2. /\ Append(wire[e], ServerList(names[f])) \in Seq(Messages)
        /\ HasHello(Append(wire[e], ServerList(names[f]))) <=> HasHello(wire[e])
        /\ OneHello(Append(wire[e], ServerList(names[f])), owner[Peer(e)])
    BY <1>1, <2>1, AppendList
  <2>3. QED
    BY <1>2, <2>1, <2>2
<1>4. w \in [Ends -> Seq(Messages)]
  BY <1>3
<1> HIDE DEF w
<1>5. /\ pc' \in [Ends -> Labels] /\ wire' \in [Ends -> Seq(Messages)]
      /\ pc'[f] \in {"run", "idle"}
      /\ wire'[f] = w[f] \/ (wire'[f] = <<>> /\ node[f] # "open")
      /\ \A e \in Ends \ {f} : pc'[e] = pc[e] /\ wire'[e] = w[e]
  BY <1>0, <1>4, DoneFacts
<1>6. /\ OneHello(wire'[f], owner[Peer(f)])
      /\ HasHello(wire'[f]) => HasHello(wire[f])
      /\ node[f] = "open" /\ HasHello(wire[f]) => HasHello(wire'[f])
  BY <1>3, <1>5, EmptyWire
<1>7. \A e \in Ends \ {f} :
        \/ wire'[e] = wire[e]
        \/ /\ link[e[1]] # "none"
           /\ \E S \in SUBSET Servers : wire'[e] = Append(wire[e], ServerList(S))
  BY <1>1, <1>2, <1>5
<1>8. UNCHANGED <<owner, node, link, greeting, m_strTermName, m_hash_Name2node,
                  faults>>
  BY DEF TellServers
<1>9. QED
  BY <1>0, <1>1, <1>5, <1>6, <1>7, <1>8, PlainStepKeeps

LEMMA TakeServersKeeps ==
  ASSUME IInv, NEW f \in Ends, TakeServers(f)
  PROVE  IInv'
<1> DEFINE q == wire[f]
<1>0. /\ q # <<>> /\ Head(q).kind = "servers"
      /\ pc[f] = "run" \/ (pc[f] = "idle" /\ node[f] = "open")
      /\ names' = [names EXCEPT ![f] = {n \in Head(q).names : n > owner[f]}]
      /\ pc' = [pc EXCEPT ![f] = "scan"] /\ wire' = Rest(f)
  BY DEF TakeServers, Take, Goto
<1>1. /\ Tail(q) \in Seq(Messages) /\ OneHello(Tail(q), owner[Peer(f)])
      /\ HasHello(Tail(q)) <=> HasHello(q)
      /\ Head(q).names \in SUBSET Servers
  BY <1>0, TailWire DEF IInv, NodeTypes, EndInv, HelloOf, Messages
<1>2. /\ wire' \in [Ends -> Seq(Messages)] /\ wire'[f] = Tail(q)
      /\ \A e \in Ends \ {f} : wire'[e] = wire[e]
  BY <1>0, RestFacts
<1>3. names' \in [Ends -> SUBSET Servers]
  BY <1>0, <1>1 DEF IInv, NodeTypes
<1>4. /\ pc' \in [Ends -> Labels] /\ pc'[f] = "scan"
      /\ \A e \in Ends \ {f} : pc'[e] = pc[e]
  BY <1>0 DEF IInv, NodeTypes, Labels
<1>5. QED
  BY <1>0, <1>1, <1>2, <1>3, <1>4, PlainStepKeeps DEF TakeServers

LEMMA ScanKeeps ==
  ASSUME IInv, NEW f \in Ends, ScanName(f)
  PROVE  IInv'
<1>1. PICK n \in names[f] :
        /\ names' = [names EXCEPT ![f] = @ \ {n}]
        /\ Dial(owner[f], n) \/ UNCHANGED <<owner, node, link>>
  BY DEF ScanName
<1>2. names' \in [Ends -> SUBSET Servers] /\ n \in Servers
  BY <1>1 DEF IInv, NodeTypes
<1>3. CASE Dial(owner[f], n)
  <2>1. owner[f] \in Servers
    <3>1. link[f[1]] # "none"
      BY DEF ScanName, IInv, EndInv, UseOf
    <3>2. QED
      BY <3>1, OwnersKnown
  <2>2. QED
    BY <1>2, <1>3, <2>1, DialKeeps DEF ScanName
<1>4. CASE UNCHANGED <<owner, node, link>>
  <2>1. wire \in [Ends -> Seq(Messages)] /\ OneHello(wire[f], owner[Peer(f)])
    BY DEF IInv, NodeTypes, EndInv, HelloOf
  <2>2. pc \in [Ends -> Labels]
    BY DEF IInv, NodeTypes
  <2>3. QED
    BY <1>2, <1>4, <2>1, <2>2, PlainStepKeeps DEF ScanName
<1>5. QED
  BY <1>1, <1>3, <1>4

LEMMA ScanDoneKeeps ==
  ASSUME IInv, NEW f \in Ends, ScanDone(f)
  PROVE  IInv'
<1>1. wire \in [Ends -> Seq(Messages)] /\ OneHello(wire[f], owner[Peer(f)])
  BY DEF IInv, NodeTypes, EndInv, HelloOf
<1>2. /\ pc' \in [Ends -> Labels] /\ wire' \in [Ends -> Seq(Messages)]
      /\ pc'[f] \in {"run", "idle"}
      /\ wire'[f] = wire[f] \/ (wire'[f] = <<>> /\ node[f] # "open")
      /\ \A e \in Ends \ {f} : pc'[e] = pc[e] /\ wire'[e] = wire[e]
  BY <1>1, DoneFacts DEF ScanDone
<1>3. /\ OneHello(wire'[f], owner[Peer(f)])
      /\ HasHello(wire'[f]) => HasHello(wire[f])
      /\ node[f] = "open" /\ HasHello(wire[f]) => HasHello(wire'[f])
  BY <1>1, <1>2, EmptyWire
<1>4. names \in [Ends -> SUBSET Servers]
  BY DEF IInv, NodeTypes
<1>5. QED
  BY <1>2, <1>3, <1>4, PlainStepKeeps DEF ScanDone

\* Faults.

LEMMA BreakKeeps ==
  ASSUME IInv, NEW c \in Conns, Break(c)
  PROVE  IInv'
<1>1. link' \in [Conns -> {"none", "up", "down"}]
      /\ \A d \in Conns : link'[d] = link[d] \/ (link[d] = "up" /\ link'[d] = "down")
  BY DEF Break, IInv, NodeTypes
<1>2. NodeTypes'
  BY <1>1, ClusterAssumption DEF Break, IInv, NodeTypes
<1>3. ASSUME NEW e \in Ends
      PROVE  (UseOf(e) /\ StageOf(e) /\ NameOf(e) /\ HelloOf(e) /\ AnnounceOf(e) /\ ServedOf(e))'
  BY <1>1, PeerFacts, ElsewhereKeeps DEF Break, ToGreet
<1>4. EntryInv' /\ RegisteredPeer'
  BY DEF Break, IInv, EntryInv, RegisteredPeer
<1>5. QED
  BY <1>2, <1>3, <1>4 DEF IInv, EndInv

LEMMA CrashKeeps ==
  ASSUME IInv, NEW s \in Servers, Crash(s)
  PROVE  IInv'
<1> DEFINE mine == {e \in Ends : owner[e] = s}
<1>0. s # Nobody
  BY ClusterAssumption
<1>1. /\ link' = [c \in Conns |-> IF c \in Own(s) THEN "down" ELSE link[c]]
      /\ node' = [e \in Ends |-> IF e \in mine THEN "gone" ELSE node[e]]
      /\ greeting' = greeting \ mine
      /\ wire' = [e \in Ends |-> IF e \in mine THEN <<>> ELSE wire[e]]
      /\ m_strTermName' = [e \in Ends |-> IF e \in mine THEN Nobody ELSE m_strTermName[e]]
      /\ m_hash_Name2node' = [m_hash_Name2node EXCEPT ![s] = [n \in Servers |-> NoEnd]]
      /\ pc' = [e \in Ends |-> IF e \in mine THEN "idle" ELSE pc[e]]
      /\ names' = [e \in Ends |-> IF e \in mine THEN {} ELSE names[e]]
      /\ faults' = faults + 1 /\ faults < MaxFaults
      /\ owner' = owner
  BY DEF Crash
<1>2. NodeTypes'
  BY <1>1, EmptyWire, ClusterAssumption DEF IInv, NodeTypes, Nodes, Labels
<1>3. \A c \in Conns : link'[c] = link[c] \/ (link[c] = "up" /\ link'[c] = "down")
  BY <1>1 DEF Own
<1>4. \A e \in mine : link'[e[1]] = "down"
  <2>1. ASSUME NEW e \in mine PROVE link'[e[1]] = "down"
    <3>1. link[e[1]] # "none" /\ e[1] \in Conns
      BY <1>0, PeerFacts DEF IInv, EndInv, UseOf
    <3>2. QED
      BY <1>1, <3>1 DEF Own, IInv, NodeTypes
  <2>2. QED
    BY <2>1
<1>5. ASSUME NEW e \in Ends, e \in mine
      PROVE  (UseOf(e) /\ StageOf(e) /\ NameOf(e) /\ HelloOf(e) /\ AnnounceOf(e) /\ ServedOf(e))'
  <2>1. link'[e[1]] = "down" /\ owner'[e] = s
    BY <1>1, <1>4, <1>5
  <2>2. /\ node'[e] = "gone" /\ pc'[e] = "idle" /\ wire'[e] = <<>> /\ m_strTermName'[e] = Nobody
        /\ e \notin greeting'
    BY <1>1, <1>5
  <2>3. QED
    BY <1>0, <2>1, <2>2, EmptyWire
       DEF UseOf, StageOf, NameOf, HelloOf, AnnounceOf, ServedOf
<1>6. ASSUME NEW e \in Ends, e \notin mine
      PROVE  (UseOf(e) /\ StageOf(e) /\ NameOf(e) /\ HelloOf(e) /\ AnnounceOf(e) /\ ServedOf(e))'
  <2>1. CASE Peer(e) \notin mine
    <3>1. ToGreet(Peer(e))' <=> ToGreet(Peer(e))
      BY <1>1, <2>1, PeerFacts DEF ToGreet
    <3>2. \A r, n \in Servers : m_hash_Name2node[r][n] = e => m_hash_Name2node'[r][n] = e
      BY <1>1, <1>6, NoEndAssumption DEF IInv, NodeTypes, RegisteredPeer
    <3>3. QED
      BY <1>1, <1>3, <1>6, <3>1, <3>2, PeerFacts, ElsewhereKeeps
  <2>2. CASE Peer(e) \in mine
    <3>1. link'[e[1]] = "down" /\ ~ToGreet(Peer(e))'
      BY <1>1, <1>4, <2>2, PeerFacts DEF ToGreet
    <3>2. /\ node'[e] = node[e] /\ pc'[e] = pc[e] /\ wire'[e] = wire[e]
          /\ m_strTermName'[e] = m_strTermName[e] /\ (e \in greeting' <=> e \in greeting)
          /\ link[e[1]] # "none"
      BY <1>0, <1>1, <1>6, <2>2, PeerFacts DEF IInv, EndInv, UseOf
    <3>3. UseOf(e) /\ StageOf(e) /\ NameOf(e) /\ HelloOf(e) /\ AnnounceOf(e)
      BY DEF IInv, EndInv
    <3>4. UseOf(e)' /\ StageOf(e)' /\ NameOf(e)' /\ HelloOf(e)' /\ ServedOf(e)'
      BY <1>1, <3>1, <3>2, <3>3 DEF UseOf, StageOf, NameOf, HelloOf, ServedOf
    <3>5. AnnounceOf(e)'
      <4>1. owner[e] \in Servers \ {s}
        BY <1>6, <3>2, OwnersKnown
      <4>2. QED
        BY <1>1, <3>2, <3>3, <4>1 DEF AnnounceOf, IInv, NodeTypes
    <3>6. QED
      BY <3>4, <3>5
  <2>3. QED
    BY <2>1, <2>2
<1>7. EntryInv' /\ RegisteredPeer'
  <2>1. \A n \in Servers : m_hash_Name2node'[s][n] = NoEnd
    BY <1>1 DEF IInv, NodeTypes
  <2>2. \A r \in Servers \ {s} : m_hash_Name2node'[r] = m_hash_Name2node[r]
    BY <1>1 DEF IInv, NodeTypes
  <2>4. ASSUME NEW r \in Servers \ {s}, NEW n \in Servers, m_hash_Name2node[r][n] # NoEnd
        PROVE  m_hash_Name2node[r][n] \in Ends \ mine
    BY <2>4 DEF IInv, NodeTypes, RegisteredPeer
  <2>5. EntryInv' /\ RegisteredPeer'
    BY <1>1, <2>1, <2>2, <2>4 DEF IInv, EntryInv, RegisteredPeer
  <2>6. QED
    BY <2>5
<1>8. QED
  BY <1>2, <1>5, <1>6, <1>7 DEF IInv, EndInv

LEMMA StepIInv == IInv /\ [Next]_vars => IInv'
<1> SUFFICES ASSUME IInv, [Next]_vars PROVE IInv'
  OBVIOUS
<1>1. CASE UNCHANGED vars
  BY <1>1 DEF vars, IInv, NodeTypes, EndInv, UseOf, StageOf, NameOf, HelloOf, AnnounceOf,
              ServedOf, ToGreet, EntryInv, RegisteredPeer
<1>2. ASSUME NEW j \in Joins, JoinCluster(j[1], j[2]) \/ Rejoin(j[1], j[2])
      PROVE  IInv'
  <2>1. j[1] \in Servers /\ j[2] \in Servers
    BY ClusterAssumption
  <2>2. CASE JoinCluster(j[1], j[2])
    <3>1. names \in [Ends -> SUBSET Servers]
      BY DEF IInv, NodeTypes
    <3>2. QED
      BY <2>1, <2>2, <3>1, DialKeeps DEF JoinCluster
  <2>3. QED
    BY <1>2, <2>1, <2>2, RejoinKeeps
<1>3. ASSUME NEW e \in Ends, MainThread(e) \/ Worker(e)
      PROVE  IInv'
  BY <1>3, NewClientKeeps, SendHelloKeeps, ClientDisconnectedKeeps, TakeHelloKeeps,
     RegisitKeeps, RejectKeeps, AnnounceKeeps, CollectKeeps, TellKeeps,
     TakeServersKeeps, ScanKeeps, ScanDoneKeeps
     DEF MainThread, Worker
<1>4. ASSUME NEW s \in Tables, TableEvent(s)
      PROVE  IInv'
  BY <1>4 DEF TableEvent, PassOn, on_evt_NewSvrConnected, on_evt_NewSvrDisconnected, IInv,
              NodeTypes, EndInv, UseOf, StageOf, NameOf, HelloOf, AnnounceOf, ServedOf, ToGreet,
              EntryInv, RegisteredPeer
<1>5. QED
  BY <1>1, <1>2, <1>3, <1>4, BreakKeeps, CrashKeeps DEF Next, Handlers

-----------------------------------------------------------------------------
(* What the client table is told.                                          *)

TableTypes ==
  /\ events \in [Tables -> Seq(Events)]
  /\ announced \in [Tables -> SUBSET Servers]
  /\ known \in [Tables -> SUBSET Servers]
  /\ misled \in [Tables -> SUBSET Servers]

\* Queue q holds the event v.
Holds(q, v) == \E i \in 1..Len(q) : q[i] = v

\* Queue q will have the table know of server n: it holds a report of its
\* connection and none of its loss behind it.
Joining(q, n) ==
  \E i \in 1..Len(q) :
    /\ q[i] = Event("connected", n)
    /\ \A j \in 1..Len(q) : j > i => q[j] # Event("disconnected", n)

\* The table of s knows that server n is connected or is on its way to know it,
\* by the worker, the first queue, the second one, or the report it has heard.
ToldOf(s, n) ==
  \/ pc[m_hash_Name2node[s][n]] = "announce"
  \/ Holds(events[s], Event("handshaked", n))
  \/ Joining(events[s], n)
  \/ n \in announced[s] /\ ~Holds(events[s], Event("disconnected", n))

JoinInv ==
  \A s \in Tables, n \in Servers :
    LET e == m_hash_Name2node[s][n] IN
      e # NoEnd => /\ node[e] \in {"open", "gone"}
                   /\ node[e] = "open" /\ n \notin misled[s] => ToldOf(s, n)

LossInv ==
  \A s \in Tables : \A n \in known[s] :
    m_hash_Name2node[s][n] = NoEnd => Holds(events[s], Event("disconnected", n))

TableInv == TableTypes /\ JoinInv /\ LossInv

\* Events are told apart by kind and name.
LEMMA EventFacts ==
  /\ \A k, l, n, m : Event(k, n) = Event(l, m) <=> k = l /\ n = m
  /\ \A k, n : Event(k, n).kind = k /\ Event(k, n).name = n
  /\ \A k \in {"handshaked", "connected", "disconnected"}, n \in Servers : Event(k, n) \in Events
  /\ \A v \in Events : v = Event(v.kind, v.name) /\ v.name \in Servers
BY DEF Event, Events

\* A queue that gets one more event.
LEMMA PostFacts ==
  ASSUME NEW q \in Seq(Events), NEW v \in Events
  PROVE  /\ Append(q, v) \in Seq(Events)
         /\ \A u : Holds(Append(q, v), u) <=> Holds(q, u) \/ u = v
         /\ \A n : v = Event("connected", n) => Joining(Append(q, v), n)
         /\ \A n : Joining(q, n) /\ v # Event("disconnected", n) => Joining(Append(q, v), n)
<1> DEFINE a == Append(q, v)
<1>1. /\ a \in Seq(Events) /\ Len(q) \in Nat /\ Len(a) = Len(q) + 1
      /\ a[Len(q) + 1] = v
      /\ \A i \in 1..Len(q) : a[i] = q[i]
  BY AppendProperties
<1> HIDE DEF a
<1>2. \A i \in 1..Len(a) : (i \in 1..Len(q) /\ a[i] = q[i]) \/ (i = Len(q) + 1 /\ a[i] = v)
  BY <1>1
<1>3. /\ \A i \in 1..Len(q) : i \in 1..Len(a)
      /\ Len(q) + 1 \in 1..Len(a)
      /\ \A j \in 1..Len(a) : ~(j > Len(q) + 1)
  BY <1>1
<1>4. \A u : Holds(a, u) <=> Holds(q, u) \/ u = v
  BY <1>1, <1>2, <1>3 DEF Holds
<1>5. ASSUME NEW n, v = Event("connected", n) PROVE Joining(a, n)
  BY <1>1, <1>3, <1>5 DEF Joining
<1>6. ASSUME NEW n, Joining(q, n), v # Event("disconnected", n) PROVE Joining(a, n)
  <2>1. PICK i \in 1..Len(q) : /\ q[i] = Event("connected", n)
                               /\ \A j \in 1..Len(q) : j > i => q[j] # Event("disconnected", n)
    BY <1>6 DEF Joining
  <2>2. i \in 1..Len(a) /\ a[i] = Event("connected", n)
    BY <1>1, <1>3, <2>1
  <2>3. \A j \in 1..Len(a) : j > i => a[j] # Event("disconnected", n)
    BY <1>2, <1>6, <2>1
  <2>4. QED
    BY <2>2, <2>3 DEF Joining
<1>7. QED
  BY <1>1, <1>4, <1>5, <1>6 DEF a

\* A queue whose first event is handled.
LEMMA HandleFacts ==
  ASSUME NEW q \in Seq(Events), q # <<>>
  PROVE  /\ Head(q) \in Events /\ Tail(q) \in Seq(Events)
         /\ \A u : Holds(q, u) <=> Head(q) = u \/ Holds(Tail(q), u)
         /\ \A n : Joining(q, n) =>
              \/ Joining(Tail(q), n)
              \/ Head(q) = Event("connected", n) /\ ~Holds(Tail(q), Event("disconnected", n))
<1> DEFINE r == Tail(q)
<1>1. /\ Head(q) = q[1] /\ Head(q) \in Events /\ r \in Seq(Events)
      /\ Len(q) \in Nat \ {0} /\ Len(r) = Len(q) - 1
      /\ \A i \in 1..Len(r) : r[i] = q[i + 1]
  BY HeadTailProperties, EmptySeq
<1> HIDE DEF r
<1>2. \A i \in 1..Len(q) : (i = 1 /\ q[i] = Head(q)) \/ (i - 1 \in 1..Len(r) /\ q[i] = r[i - 1])
  BY <1>1
<1>3. /\ 1 \in 1..Len(q)
      /\ \A i \in 1..Len(r) : i + 1 \in 1..Len(q) /\ i + 1 > 1 /\ q[i + 1] = r[i]
  BY <1>1
<1>4. \A u : Holds(q, u) <=> Head(q) = u \/ Holds(r, u)
  <2>1. ASSUME NEW u, Holds(q, u) PROVE Head(q) = u \/ Holds(r, u)
    <3>1. PICK i \in 1..Len(q) : q[i] = u
      BY <2>1 DEF Holds
    <3>2. Head(q) = u \/ (i - 1 \in 1..Len(r) /\ r[i - 1] = u)
      BY <1>2, <3>1
    <3>3. QED
      BY <3>2 DEF Holds
  <2>2. ASSUME NEW u, Head(q) = u PROVE Holds(q, u)
    <3>1. 1 \in 1..Len(q) /\ q[1] = u
      BY <1>1, <1>3, <2>2
    <3>2. QED
      BY <3>1 DEF Holds
  <2>3. ASSUME NEW u, Holds(r, u) PROVE Holds(q, u)
    <3>1. PICK i \in 1..Len(r) : r[i] = u
      BY <2>3 DEF Holds
    <3>2. i + 1 \in 1..Len(q) /\ q[i + 1] = u
      BY <1>3, <3>1
    <3>3. QED
      BY <3>2 DEF Holds
  <2>4. QED
    BY <2>1, <2>2, <2>3
<1>5. ASSUME NEW n, Joining(q, n)
      PROVE  \/ Joining(r, n)
             \/ Head(q) = Event("connected", n) /\ ~Holds(r, Event("disconnected", n))
  <2>1. PICK i \in 1..Len(q) : /\ q[i] = Event("connected", n)
                               /\ \A j \in 1..Len(q) : j > i => q[j] # Event("disconnected", n)
    BY <1>5 DEF Joining
  <2>2. CASE i = 1
    <3>1. \A j \in 1..Len(r) : r[j] # Event("disconnected", n)
      BY <1>3, <2>1, <2>2
    <3>2. QED
      BY <1>1, <2>1, <2>2, <3>1 DEF Holds
  <2>3. CASE i # 1
    <3>1. i - 1 \in 1..Len(r) /\ r[i - 1] = Event("connected", n)
      BY <1>2, <2>1, <2>3
    <3>2. \A j \in 1..Len(r) : j > i - 1 => j + 1 > i
      OBVIOUS
    <3>3. \A j \in 1..Len(r) : j > i - 1 => r[j] # Event("disconnected", n)
      BY <1>3, <2>1, <3>2
    <3>4. QED
      BY <3>1, <3>3 DEF Joining
  <2>4. QED
    BY <2>2, <2>3
<1>6. QED
  BY <1>1, <1>4, <1>5 DEF r

LEMMA InitTable == Init => TableInv
<1> SUFFICES ASSUME Init PROVE TableInv
  OBVIOUS
<1>1. TableTypes
  BY DEF Init, TableTypes
<1>2. \A s, n \in Servers : m_hash_Name2node[s][n] = NoEnd
  BY DEF Init
<1>3. \A s \in Tables : known[s] = {}
  BY DEF Init
<1>4. QED
  BY <1>1, <1>2, <1>3, ClusterAssumption DEF TableInv, JoinInv, LossInv

\* A step that the table does not hear of, registers nothing, ends no node that
\* is open and takes no worker from announcing.
LEMMA CalmKeeps ==
  ASSUME TableInv, IInv, UNCHANGED <<table, m_hash_Name2node>>,
         \A e \in Ends : node[e] \in {"open", "gone"} => node'[e] = node[e],
         \A e \in Ends : pc[e] = "announce" => pc'[e] = "announce"
  PROVE  TableInv'
<1>1. TableTypes' /\ LossInv'
  BY DEF TableInv, TableTypes, LossInv, table
<1>2. ASSUME NEW s \in Tables, NEW n \in Servers, m_hash_Name2node'[s][n] # NoEnd
      PROVE  /\ node'[m_hash_Name2node'[s][n]] \in {"open", "gone"}
             /\ node'[m_hash_Name2node'[s][n]] = "open" /\ n \notin misled'[s] => ToldOf(s, n)'
  <2> DEFINE e == m_hash_Name2node[s][n]
  <2>1. e \in Ends /\ e # NoEnd /\ m_hash_Name2node'[s][n] = e
    BY <1>2, ClusterAssumption DEF IInv, NodeTypes
  <2>2. /\ node[e] \in {"open", "gone"}
        /\ node[e] = "open" /\ n \notin misled[s] => ToldOf(s, n)
    BY <2>1 DEF TableInv, JoinInv
  <2>3. node'[e] = node[e] /\ (pc[e] = "announce" => pc'[e] = "announce")
    BY <2>1, <2>2
  <2>4. ToldOf(s, n) => ToldOf(s, n)'
    BY <2>1, <2>3 DEF ToldOf, table
  <2>5. QED
    BY <2>1, <2>2, <2>3, <2>4 DEF table
<1>3. QED
  BY <1>1, <1>2 DEF TableInv, JoinInv

\* The label of one worker that is not announcing changes.
LEMMA CalmLabel ==
  ASSUME IInv, NEW f \in Ends, pc[f] # "announce",
         NEW l, pc' = [pc EXCEPT ![f] = l]
  PROVE  \A e \in Ends : pc[e] = "announce" => pc'[e] = "announce"
BY DEF IInv, NodeTypes

\* Nodes that were not in use are no nodes that have entered.
LEMMA CalmDial ==
  ASSUME IInv, NEW s, NEW t, NEW c \in Conns, NextUnused(c), Establish(s, t, c)
  PROVE  \A e \in Ends : node[e] \in {"open", "gone"} => node'[e] = node[e]
<1> DEFINE d == <<c, "dial">>
           a == <<c, "accept">>
<1>1. d \in Ends /\ a \in Ends /\ d[1] = c /\ a[1] = c
  BY DEF Ends
<1>2. node[d] = "none" /\ node[a] = "none"
  BY <1>1 DEF NextUnused, Unused, IInv, EndInv, UseOf
<1>3. node' = [node EXCEPT ![d] = "arriving", ![a] = "arriving"]
  BY DEF Establish
<1> HIDE DEF d, a
<1>4. QED
  BY <1>2, <1>3 DEF IInv, NodeTypes

LEMMA CalmWorker ==
  ASSUME TableInv, IInv, NEW f \in Ends,
         \/ TakeHello(f) \/ Reject(f) \/ CollectServers(f) \/ TellServers(f)
         \/ TakeServers(f) \/ ScanName(f) \/ ScanDone(f)
  PROVE  TableInv'
<1>1. UNCHANGED <<table, m_hash_Name2node>>
  BY DEF TakeHello, Reject, CollectServers, TellServers, TakeServers, ScanName, ScanDone
<1>2. pc[f] # "announce"
  BY DEF TakeHello, Take, Reject, CollectServers, TellServers, TakeServers, ScanName, ScanDone
<1>3. \A e \in Ends : node[e] \in {"open", "gone"} => node'[e] = node[e]
  <2>1. CASE ~ScanName(f)
    BY <2>1 DEF TakeHello, Reject, CollectServers, TellServers, TakeServers, ScanDone
  <2>2. CASE ScanName(f)
    <3>1. UNCHANGED node \/ \E n \in names[f] : Dial(owner[f], n)
      BY <2>2 DEF ScanName
    <3>2. QED
      BY <3>1, CalmDial DEF Dial
  <2>3. QED
    BY <2>1, <2>2
<1>4. UNCHANGED pc \/ \E l \in Labels : pc' = [pc EXCEPT ![f] = l]
  BY DEF TakeHello, Reject, CollectServers, TellServers, TakeServers, ScanName, ScanDone,
         Done, Goto, Labels
<1>5. \A e \in Ends : pc[e] = "announce" => pc'[e] = "announce"
  BY <1>2, <1>4, CalmLabel
<1>6. QED
  BY <1>1, <1>3, <1>5, CalmKeeps

LEMMA CalmMain ==
  ASSUME TableInv, IInv, NEW f \in Ends, NewClientConnected(f) \/ SendHelloPackage(f)
  PROVE  TableInv'
<1>1. UNCHANGED <<table, m_hash_Name2node, pc>>
  BY DEF NewClientConnected, SendHelloPackage
<1>2. \A e \in Ends : node[e] \in {"open", "gone"} => node'[e] = node[e]
  BY DEF NewClientConnected, SendHelloPackage, IInv, NodeTypes
<1>3. QED
  BY <1>1, <1>2, CalmKeeps

LEMMA CalmJoin ==
  ASSUME TableInv, IInv, NEW s, NEW t, JoinCluster(s, t) \/ Rejoin(s, t)
  PROVE  TableInv'
<1>1. UNCHANGED <<table, m_hash_Name2node, pc>>
  BY DEF JoinCluster, Rejoin
<1>2. \E c \in Conns : NextUnused(c) /\ Establish(s, t, c)
  BY DEF JoinCluster, Dial, Rejoin
<1>3. \A e \in Ends : node[e] \in {"open", "gone"} => node'[e] = node[e]
  BY <1>2, CalmDial
<1>4. QED
  BY <1>1, <1>3, CalmKeeps

\* The entry that is made is being announced, and the table has to forget it.
LEMMA RegisitTold ==
  ASSUME TableInv, IInv, NEW f \in Ends, RegisitNewServer(f)
  PROVE  TableInv'
<1> DEFINE s == owner[f]
           n == m_strTermName[f]
<1>1. /\ pc[f] = "regist" /\ node[f] \in {"open", "gone"}
      /\ s \in Servers /\ n \in Servers
  BY OwnersKnown DEF RegisitNewServer, IInv, NodeTypes, EndInv, NameOf, StageOf, UseOf
<1>2. CASE m_hash_Name2node[s][n] # NoEnd
  <2>1. UNCHANGED <<table, m_hash_Name2node, node>> /\ pc' = [pc EXCEPT ![f] = "reject"]
    BY <1>2 DEF RegisitNewServer, Goto, table
  <2>2. QED
    BY <1>1, <2>1, CalmLabel, CalmKeeps
<1>3. CASE m_hash_Name2node[s][n] = NoEnd
  <2>1. /\ m_hash_Name2node' = [m_hash_Name2node EXCEPT ![s][n] = f]
        /\ known' = [t \in Tables |-> IF t = s THEN known[t] \cup {n} ELSE known[t]]
        /\ misled' = [t \in Tables |-> IF t = s THEN misled[t] \ {n} ELSE misled[t]]
        /\ pc' = [pc EXCEPT ![f] = "announce"]
        /\ UNCHANGED <<node, events, announced>>
    BY <1>3 DEF RegisitNewServer, Goto
  <2>2. \A r, m \in Servers :
          m_hash_Name2node'[r][m] = IF r = s /\ m = n THEN f ELSE m_hash_Name2node[r][m]
    BY <1>1, <2>1 DEF IInv, NodeTypes
  <2>3. TableTypes'
    BY <1>1, <2>1 DEF TableInv, TableTypes
  <2>4. pc'[f] = "announce" /\ \A e \in Ends \ {f} : pc'[e] = pc[e]
    BY <2>1 DEF IInv, NodeTypes
  <2>5. ASSUME NEW r \in Tables, NEW m \in Servers, m_hash_Name2node'[r][m] # NoEnd
        PROVE  /\ node'[m_hash_Name2node'[r][m]] \in {"open", "gone"}
               /\ node'[m_hash_Name2node'[r][m]] = "open" /\ m \notin misled'[r] => ToldOf(r, m)'
    <3>1. r \in Servers
      BY ClusterAssumption
    <3>2. CASE r = s /\ m = n
      BY <3>1, <3>2, <1>1, <2>1, <2>2, <2>4 DEF ToldOf
    <3>3. CASE ~(r = s /\ m = n)
      <4> DEFINE e == m_hash_Name2node[r][m]
      <4>1. m_hash_Name2node'[r][m] = e /\ e \in Ends \ {f}
        <5>1. m_hash_Name2node'[r][m] = e /\ e \in Ends
          BY <3>1, <3>3, <2>2, <2>5 DEF IInv, NodeTypes
        <5>2. e # f
          BY <3>1, <2>5, <5>1, <1>1 DEF IInv, EntryInv
        <5>3. QED
          BY <5>1, <5>2
      <4>2. /\ node[e] \in {"open", "gone"}
            /\ node[e] = "open" /\ m \notin misled[r] => ToldOf(r, m)
        BY <2>5, <4>1 DEF TableInv, JoinInv
      <4>3. m \notin misled'[r] => m \notin misled[r]
        BY <2>1, <3>3
      <4>4. ToldOf(r, m) => ToldOf(r, m)'
        BY <2>1, <2>4, <4>1 DEF ToldOf
      <4>5. QED
        BY <2>1, <4>1, <4>2, <4>3, <4>4
    <3>4. QED
      BY <3>2, <3>3
  <2>6. LossInv'
    <3>1. ASSUME NEW r \in Tables, NEW m \in known'[r], m_hash_Name2node'[r][m] = NoEnd
          PROVE  Holds(events'[r], Event("disconnected", m))
      <4>1. r \in Servers /\ m \in Servers
        BY <2>3, <3>1, ClusterAssumption DEF TableTypes
      <4>2. ~(r = s /\ m = n) /\ m_hash_Name2node[r][m] = NoEnd
        BY <2>2, <3>1, <4>1, NoEndAssumption
      <4>3. m \in known[r]
        BY <2>1, <3>1, <4>2
      <4>4. QED
        BY <2>1, <3>1, <4>2, <4>3 DEF TableInv, LossInv
    <3>2. QED
      BY <3>1 DEF LossInv
  <2>7. QED
    BY <2>3, <2>5, <2>6 DEF TableInv, JoinInv
<1>4. QED
  BY <1>2, <1>3

\* What a post to the table of s changes in the queues.
LEMMA PostTold ==
  ASSUME TableInv, NEW s, NEW k \in {"handshaked", "disconnected"}, NEW n \in Servers, Post(s, k, n)
  PROVE  /\ events' \in [Tables -> Seq(Events)]
         /\ \A r \in Tables : \A u :
              Holds(events'[r], u) <=> Holds(events[r], u) \/ (r = s /\ u = Event(k, n))
         /\ \A r \in Tables : \A m :
              Joining(events[r], m) /\ ~(r = s /\ k = "disconnected" /\ m = n)
                => Joining(events'[r], m)
<1>1. events' = [r \in Tables |-> IF r = s THEN Append(events[r], Event(k, n)) ELSE events[r]]
  BY DEF Post
<1>2. Event(k, n) \in Events /\ \A m : Event(k, n) = Event("disconnected", m)
                                        => k = "disconnected" /\ m = n
  BY EventFacts
<1>3. ASSUME NEW r \in Tables
      PROVE  /\ events[r] \in Seq(Events) /\ events'[r] \in Seq(Events)
             /\ \A u : Holds(events'[r], u) <=> Holds(events[r], u) \/ (r = s /\ u = Event(k, n))
             /\ \A m : Joining(events[r], m) /\ ~(r = s /\ k = "disconnected" /\ m = n)
                         => Joining(events'[r], m)
  <2>1. events[r] \in Seq(Events)
    BY DEF TableInv, TableTypes
  <2>2. CASE r = s
    <3>1. events'[r] = Append(events[r], Event(k, n))
      BY <1>1, <2>2
    <3>2. /\ Append(events[r], Event(k, n)) \in Seq(Events)
          /\ \A u : Holds(Append(events[r], Event(k, n)), u)
                      <=> Holds(events[r], u) \/ u = Event(k, n)
          /\ \A m : Joining(events[r], m) /\ Event(k, n) # Event("disconnected", m)
                      => Joining(Append(events[r], Event(k, n)), m)
      BY <1>2, <2>1, PostFacts
    <3>3. QED
      BY <1>2, <2>1, <2>2, <3>1, <3>2, Zenon
  <2>3. CASE r # s
    BY <1>1, <2>1, <2>3
  <2>4. QED
    BY <2>2, <2>3
<1>4. QED
  BY <1>1, <1>3

LEMMA AnnounceTold ==
  ASSUME TableInv, IInv, NEW f \in Ends, Announce(f)
  PROVE  TableInv'
<1> DEFINE s == owner[f]
           n == m_strTermName[f]
<1>1. /\ pc[f] = "announce" /\ pc' = [pc EXCEPT ![f] = "collect"]
      /\ IF node[f] = "open" THEN Post(s, "handshaked", n) ELSE UNCHANGED events
      /\ UNCHANGED <<node, m_hash_Name2node, announced, known, misled, m_strTermName>>
  BY DEF Announce, Goto
<1>2. s \in Servers /\ n \in Servers
  BY <1>1, OwnersKnown DEF IInv, NodeTypes, EndInv, NameOf, UseOf
<1>3. /\ events' \in [Tables -> Seq(Events)]
      /\ \A r \in Tables : \A u : Holds(events'[r], u)
           <=> Holds(events[r], u) \/ (node[f] = "open" /\ r = s /\ u = Event("handshaked", n))
      /\ \A r \in Tables : \A m : Joining(events[r], m) => Joining(events'[r], m)
  <2>1. CASE node[f] = "open"
    <3>1. Post(s, "handshaked", n)
      BY <1>1, <2>1
    <3>2. /\ events' \in [Tables -> Seq(Events)]
          /\ \A r \in Tables : \A u :
               Holds(events'[r], u) <=> Holds(events[r], u) \/ (r = s /\ u = Event("handshaked", n))
          /\ \A r \in Tables : \A m :
               Joining(events[r], m) /\ ~(r = s /\ "handshaked" = "disconnected" /\ m = n)
                 => Joining(events'[r], m)
      BY <1>2, <3>1, PostTold
    <3>3. QED
      BY <2>1, <3>2
  <2>2. CASE node[f] # "open"
    BY <1>1, <2>2 DEF TableInv, TableTypes
  <2>3. QED
    BY <2>1, <2>2
<1>4. TableTypes'
  BY <1>1, <1>3 DEF TableInv, TableTypes
<1>5. LossInv'
  BY <1>1, <1>3 DEF TableInv, LossInv
<1>6. ASSUME NEW r \in Tables, NEW m \in Servers, m_hash_Name2node'[r][m] # NoEnd
      PROVE  /\ node'[m_hash_Name2node'[r][m]] \in {"open", "gone"}
             /\ node'[m_hash_Name2node'[r][m]] = "open" /\ m \notin misled'[r] => ToldOf(r, m)'
  <2> DEFINE e == m_hash_Name2node[r][m]
  <2>1. r \in Servers /\ e \in Ends /\ m_hash_Name2node'[r][m] = e
    BY <1>1, <1>6, ClusterAssumption DEF IInv, NodeTypes
  <2>2. /\ node[e] \in {"open", "gone"}
        /\ node[e] = "open" /\ m \notin misled[r] => ToldOf(r, m)
    BY <1>1, <1>6 DEF TableInv, JoinInv
  <2>3. CASE e = f
    <3>1. s = r /\ n = m
      BY <1>6, <2>1, <2>3 DEF IInv, RegisteredPeer
    <3>2. node[f] = "open" => Holds(events'[r], Event("handshaked", m))
      BY <1>3, <3>1
    <3>3. QED
      BY <1>1, <2>1, <2>2, <2>3, <3>2 DEF ToldOf
  <2>4. CASE e # f
    <3>1. pc'[e] = pc[e]
      BY <1>1, <2>1, <2>4 DEF IInv, NodeTypes
    <3>2. Holds(events'[r], Event("disconnected", m)) => Holds(events[r], Event("disconnected", m))
      BY <1>3, EventFacts
    <3>3. Holds(events[r], Event("handshaked", m)) => Holds(events'[r], Event("handshaked", m))
      BY <1>3
    <3>4. ToldOf(r, m) => ToldOf(r, m)'
      BY <1>1, <1>3, <2>1, <3>1, <3>2, <3>3 DEF ToldOf
    <3>5. QED
      BY <1>1, <2>1, <2>2, <3>4
  <2>5. QED
    BY <2>3, <2>4
<1>7. QED
  BY <1>4, <1>5, <1>6 DEF TableInv, JoinInv

\* The loss is reported as the entry goes.  A name that stays registered for
\* another node is one the table is misled about.
LEMMA DisconnectTold ==
  ASSUME TableInv, IInv, NEW f \in Ends, ClientDisconnected(f)
  PROVE  TableInv'
<1> DEFINE s == owner[f]
           n == m_strTermName[f]
<1>0. /\ s \in Servers /\ n \in Servers \cup {Nobody} /\ node[f] = "open"
      /\ Nobody \notin Servers
  BY ClusterAssumption DEF ClientDisconnected, IInv, NodeTypes, EndInv, UseOf, Nobody
<1>1. /\ node' = [node EXCEPT ![f] = "gone"]
      /\ m_hash_Name2node' =
           [m_hash_Name2node EXCEPT ![s] = [m \in Servers |-> IF m \in OwnName(f) THEN NoEnd ELSE @[m]]]
      /\ IF n = Nobody THEN UNCHANGED events ELSE Post(s, "disconnected", n)
      /\ misled' = [t \in Tables |-> IF t = s THEN misled[t] \cup ({n} \cap (SvrNames(s) \ OwnName(f)))
                                     ELSE misled[t]]
      /\ UNCHANGED <<pc, announced, known, m_strTermName>>
  BY DEF ClientDisconnected
<1>2. \A r, m \in Servers :
        m_hash_Name2node'[r][m] = IF r = s /\ m = n /\ m_hash_Name2node[s][n] = f
                                  THEN NoEnd ELSE m_hash_Name2node[r][m]
  BY <1>0, <1>1 DEF IInv, NodeTypes, OwnName
<1>3. /\ events' \in [Tables -> Seq(Events)]
      /\ \A r \in Tables : \A u : Holds(events'[r], u)
           <=> Holds(events[r], u) \/ (n # Nobody /\ r = s /\ u = Event("disconnected", n))
      /\ \A r \in Tables, m \in Servers :
           Joining(events[r], m) /\ ~(r = s /\ m = n) => Joining(events'[r], m)
  <2>1. CASE n = Nobody
    <3>1. events' = events
      BY <1>1, <2>1
    <3>2. events \in [Tables -> Seq(Events)]
      BY DEF TableInv, TableTypes
    <3>3. QED
      BY <2>1, <3>1, <3>2
  <2>2. CASE n # Nobody
    <3>1. n \in Servers /\ Post(s, "disconnected", n)
      BY <1>0, <1>1, <2>2
    <3>2. /\ events' \in [Tables -> Seq(Events)]
          /\ \A r \in Tables : \A u :
               Holds(events'[r], u) <=> Holds(events[r], u) \/ (r = s /\ u = Event("disconnected", n))
          /\ \A r \in Tables : \A m :
               Joining(events[r], m) /\ ~(r = s /\ "disconnected" = "disconnected" /\ m = n)
                 => Joining(events'[r], m)
      BY <3>1, PostTold
    <3>3. QED
      BY <2>2, <3>2
  <2>3. QED
    BY <2>1, <2>2
<1>4. TableTypes'
  <2>1. misled' \in [Tables -> SUBSET Servers]
    BY <1>1 DEF TableInv, TableTypes, SvrNames
  <2>2. QED
    BY <1>1, <1>3, <2>1 DEF TableInv, TableTypes
<1>5. LossInv'
  <2>1. ASSUME NEW r \in Tables, NEW m \in known'[r], m_hash_Name2node'[r][m] = NoEnd
        PROVE  Holds(events'[r], Event("disconnected", m))
    <3>1. r \in Servers /\ m \in Servers /\ m \in known[r]
      BY <1>1, <1>4, <2>1, ClusterAssumption DEF TableTypes
    <3>2. CASE r = s /\ m = n
      BY <1>0, <1>3, <3>1, <3>2
    <3>3. CASE ~(r = s /\ m = n)
      <4>1. m_hash_Name2node[r][m] = NoEnd
        BY <1>2, <2>1, <3>1, <3>3
      <4>2. Holds(events[r], Event("disconnected", m))
        BY <3>1, <4>1 DEF TableInv, LossInv
      <4>3. QED
        BY <1>3, <4>2
    <3>4. QED
      BY <3>2, <3>3
  <2>2. QED
    BY <2>1 DEF LossInv
<1>6. ASSUME NEW r \in Tables, NEW m \in Servers, m_hash_Name2node'[r][m] # NoEnd
      PROVE  /\ node'[m_hash_Name2node'[r][m]] \in {"open", "gone"}
             /\ node'[m_hash_Name2node'[r][m]] = "open" /\ m \notin misled'[r] => ToldOf(r, m)'
  <2> DEFINE e == m_hash_Name2node[r][m]
  <2>1. r \in Servers /\ e \in Ends /\ e # NoEnd /\ m_hash_Name2node'[r][m] = e
    BY <1>2, <1>6, ClusterAssumption DEF IInv, NodeTypes
  <2>2. /\ node[e] \in {"open", "gone"}
        /\ node[e] = "open" /\ m \notin misled[r] => ToldOf(r, m)
    BY <1>6, <2>1 DEF TableInv, JoinInv
  <2>3. node'[e] = IF e = f THEN "gone" ELSE node[e]
    BY <1>1, <2>1 DEF IInv, NodeTypes
  <2>4. CASE r = s /\ m = n
    <3>1. m \in SvrNames(s) \ OwnName(f)
      BY <1>2, <1>6, <2>1, <2>4 DEF SvrNames, OwnName
    <3>2. m \in misled'[r]
      BY <1>1, <2>4, <3>1
    <3>3. QED
      BY <2>1, <2>2, <2>3, <3>2
  <2>5. CASE ~(r = s /\ m = n)
    <3>1. m \notin misled'[r] => m \notin misled[r]
      BY <1>1
    <3>2. Holds(events'[r], Event("disconnected", m)) => Holds(events[r], Event("disconnected", m))
      BY <1>3, <2>5, EventFacts
    <3>3. Holds(events[r], Event("handshaked", m)) => Holds(events'[r], Event("handshaked", m))
      BY <1>3
    <3>4. Joining(events[r], m) => Joining(events'[r], m)
      BY <1>3, <2>5
    <3>5. ToldOf(r, m) => ToldOf(r, m)'
      BY <1>1, <2>1, <3>2, <3>3, <3>4 DEF ToldOf
    <3>6. QED
      BY <2>1, <2>2, <2>3, <3>1, <3>5
  <2>6. QED
    BY <2>4, <2>5
<1>7. QED
  BY <1>4, <1>5, <1>6 DEF TableInv, JoinInv

\* The main thread of s handles the first event in the queue of its table.
LEMMA EventTold ==
  ASSUME TableInv, IInv, NEW s \in Tables, TableEvent(s)
  PROVE  TableInv'
<1> DEFINE q == events[s]
           v == Head(q)
           n == v.name
<1>0. /\ UNCHANGED <<node, m_hash_Name2node, pc, misled>>
      /\ q # <<>> /\ q \in Seq(Events) /\ s \in Servers
  BY ClusterAssumption
     DEF TableEvent, PassOn, on_evt_NewSvrConnected, on_evt_NewSvrDisconnected, TableInv, TableTypes
<1>1. /\ v \in Events /\ Tail(q) \in Seq(Events)
      /\ \A u : Holds(q, u) <=> v = u \/ Holds(Tail(q), u)
      /\ \A m : Joining(q, m) =>
           \/ Joining(Tail(q), m)
           \/ v = Event("connected", m) /\ ~Holds(Tail(q), Event("disconnected", m))
  BY <1>0, HandleFacts
<1>2. v = Event(v.kind, n) /\ n \in Servers
  BY <1>1, EventFacts
<1>3. /\ TableTypes'
      /\ \A r \in Tables \ {s} : /\ events'[r] = events[r] /\ announced'[r] = announced[r]
                                 /\ known'[r] = known[r]
      /\ \A m \in Servers : ToldOf(s, m) => ToldOf(s, m)'
      /\ \A m \in Servers :
           /\ m \in known'[s] => m \in known[s]
           /\ m \in known'[s] /\ m_hash_Name2node[s][m] = NoEnd
                /\ Holds(q, Event("disconnected", m))
                => Holds(events'[s], Event("disconnected", m))
  <2>1. CASE PassOn(s)
    <3> DEFINE c == Event("connected", n)
    <3>1. /\ v.kind = "handshaked" /\ events' = [events EXCEPT ![s] = Append(Tail(q), c)]
          /\ UNCHANGED <<announced, known>>
      BY <2>1 DEF PassOn
    <3>2. c \in Events /\ \A m : c # Event("disconnected", m)
      BY <1>2, EventFacts
    <3>3. /\ Append(Tail(q), c) \in Seq(Events)
          /\ \A u : Holds(Append(Tail(q), c), u) <=> Holds(Tail(q), u) \/ u = c
          /\ \A m : c = Event("connected", m) => Joining(Append(Tail(q), c), m)
          /\ \A m : Joining(Tail(q), m) /\ c # Event("disconnected", m)
                      => Joining(Append(Tail(q), c), m)
      BY <1>1, <3>2, PostFacts
    <3>4. events'[s] = Append(Tail(q), c) /\ \A r \in Tables \ {s} : events'[r] = events[r]
      BY <3>1 DEF TableInv, TableTypes
    <3> HIDE DEF c
    <3>5. TableTypes'
      BY <1>0, <3>1, <3>3 DEF TableInv, TableTypes
    <3>6. ASSUME NEW m \in Servers, ToldOf(s, m) PROVE ToldOf(s, m)'
      <4>1. v # Event("connected", m) /\ v # Event("disconnected", m)
        BY <3>1, EventFacts
      <4>2. CASE Holds(q, Event("handshaked", m))
        <5>1. v = Event("handshaked", m) => Joining(events'[s], m)
          BY <3>3, <3>4, EventFacts DEF c
        <5>2. Holds(Tail(q), Event("handshaked", m)) => Holds(events'[s], Event("handshaked", m))
          BY <3>3, <3>4
        <5>3. QED
          BY <1>1, <4>2, <5>1, <5>2 DEF ToldOf
      <4>3. CASE Joining(q, m)
        BY <1>1, <3>2, <3>3, <3>4, <4>1, <4>3 DEF ToldOf
      <4>4. CASE m \in announced[s] /\ ~Holds(q, Event("disconnected", m))
        <5>1. ~Holds(events'[s], Event("disconnected", m))
          BY <1>1, <3>2, <3>3, <3>4, <4>4
        <5>2. QED
          BY <3>1, <4>4, <5>1 DEF ToldOf
      <4>5. QED
        BY <1>0, <3>6, <4>2, <4>3, <4>4 DEF ToldOf
    <3>7. ASSUME NEW m \in Servers, Holds(q, Event("disconnected", m))
          PROVE  Holds(events'[s], Event("disconnected", m))
      <4>1. v # Event("disconnected", m)
        BY <3>1, EventFacts
      <4>2. QED
        BY <1>1, <3>3, <3>4, <3>7, <4>1
    <3>8. QED
      BY <3>1, <3>4, <3>5, <3>6, <3>7
  <2>2. CASE on_evt_NewSvrConnected(s)
    <3>1. /\ v.kind = "connected" /\ events' = [events EXCEPT ![s] = Tail(q)]
          /\ announced' = [announced EXCEPT ![s] = @ \cup {n}]
          /\ UNCHANGED known
      BY <2>2 DEF on_evt_NewSvrConnected
    <3>2. /\ events'[s] = Tail(q) /\ announced'[s] = announced[s] \cup {n}
          /\ \A r \in Tables \ {s} : events'[r] = events[r] /\ announced'[r] = announced[r]
      BY <3>1 DEF TableInv, TableTypes
    <3>3. TableTypes'
      BY <1>0, <1>1, <1>2, <3>1 DEF TableInv, TableTypes
    <3>4. \A m : v # Event("handshaked", m) /\ v # Event("disconnected", m)
      BY <3>1, EventFacts
    <3>5. ASSUME NEW m \in Servers, ToldOf(s, m) PROVE ToldOf(s, m)'
      <4>1. v = Event("connected", m) => m \in announced'[s]
        BY <3>2, EventFacts
      <4>2. Holds(q, Event("handshaked", m)) => Holds(events'[s], Event("handshaked", m))
        BY <1>1, <3>2, <3>4
      <4>3. Joining(q, m) => \/ Joining(events'[s], m)
                             \/ m \in announced'[s] /\ ~Holds(events'[s], Event("disconnected", m))
        BY <1>1, <3>2, <4>1
      <4>4. m \in announced[s] /\ ~Holds(q, Event("disconnected", m))
              => m \in announced'[s] /\ ~Holds(events'[s], Event("disconnected", m))
        BY <1>1, <3>2
      <4>5. QED
        BY <1>0, <3>5, <4>2, <4>3, <4>4 DEF ToldOf
    <3>6. \A m \in Servers : Holds(q, Event("disconnected", m))
                               => Holds(events'[s], Event("disconnected", m))
      BY <1>1, <3>2, <3>4
    <3>7. QED
      BY <3>1, <3>2, <3>3, <3>5, <3>6
  <2>3. CASE on_evt_NewSvrDisconnected(s)
    <3>1. /\ v.kind = "disconnected" /\ events' = [events EXCEPT ![s] = Tail(q)]
          /\ announced' = [announced EXCEPT ![s] = @ \ {n}]
          /\ known' = [known EXCEPT ![s] = @ \ ({n} \ SvrNames(s))]
      BY <2>3 DEF on_evt_NewSvrDisconnected
    <3>2. /\ events'[s] = Tail(q) /\ announced'[s] = announced[s] \ {n}
          /\ known'[s] = known[s] \ ({n} \ SvrNames(s))
          /\ \A r \in Tables \ {s} : /\ events'[r] = events[r] /\ announced'[r] = announced[r]
                                     /\ known'[r] = known[r]
      BY <3>1 DEF TableInv, TableTypes
    <3>3. TableTypes'
      BY <1>0, <1>1, <1>2, <3>1 DEF TableInv, TableTypes
    <3>4. /\ \A m : v # Event("handshaked", m) /\ v # Event("connected", m)
          /\ \A m : m # n => v # Event("disconnected", m)
          /\ v = Event("disconnected", n)
      BY <1>2, <3>1, EventFacts
    <3>5. ASSUME NEW m \in Servers, ToldOf(s, m) PROVE ToldOf(s, m)'
      <4>1. Holds(q, Event("handshaked", m)) => Holds(events'[s], Event("handshaked", m))
        BY <1>1, <3>2, <3>4
      <4>2. Joining(q, m) => Joining(events'[s], m)
        BY <1>1, <3>2, <3>4
      <4>3. m \in announced[s] /\ ~Holds(q, Event("disconnected", m))
              => m \in announced'[s] /\ ~Holds(events'[s], Event("disconnected", m))
        BY <1>1, <3>2, <3>4
      <4>4. QED
        BY <1>0, <3>5, <4>1, <4>2, <4>3 DEF ToldOf
    <3>6. ASSUME NEW m \in Servers, m \in known'[s], m_hash_Name2node[s][m] = NoEnd,
                 Holds(q, Event("disconnected", m))
          PROVE  Holds(events'[s], Event("disconnected", m))
      <4>1. m # n
        BY <3>2, <3>6 DEF SvrNames
      <4>2. QED
        BY <1>1, <3>2, <3>4, <3>6, <4>1
    <3>7. QED
      BY <3>2, <3>3, <3>5, <3>6
  <2>4. QED
    BY <2>1, <2>2, <2>3 DEF TableEvent
<1>4. ASSUME NEW r \in Tables, NEW m \in Servers, ToldOf(r, m) PROVE ToldOf(r, m)'
  <2>1. CASE r = s
    BY <1>3, <1>4, <2>1
  <2>2. CASE r # s
    BY <1>0, <1>3, <1>4, <2>2 DEF ToldOf
  <2>3. QED
    BY <2>1, <2>2
<1>5. JoinInv'
  BY <1>0, <1>4 DEF TableInv, JoinInv
<1>6. LossInv'
  <2>1. ASSUME NEW r \in Tables, NEW m \in known'[r], m_hash_Name2node'[r][m] = NoEnd
        PROVE  Holds(events'[r], Event("disconnected", m))
    <3>1. m \in Servers /\ m \in known[r] /\ m_hash_Name2node[r][m] = NoEnd
      BY <1>0, <1>3, <2>1 DEF TableTypes
    <3>2. Holds(events[r], Event("disconnected", m))
      BY <3>1 DEF TableInv, LossInv
    <3>3. QED
      BY <1>3, <2>1, <3>1, <3>2
  <2>2. QED
    BY <2>1 DEF LossInv
<1>7. QED
  BY <1>3, <1>5, <1>6 DEF TableInv

\* The table of a server that ends forgets all; other servers' nodes stay.
LEMMA CrashTold ==
  ASSUME TableInv, IInv, NEW s \in Servers, Crash(s)
  PROVE  TableInv'
<1>1. /\ node' = [e \in Ends |-> IF owner[e] = s THEN "gone" ELSE node[e]]
      /\ m_hash_Name2node' = [m_hash_Name2node EXCEPT ![s] = [n \in Servers |-> NoEnd]]
      /\ pc' = [e \in Ends |-> IF owner[e] = s THEN "idle" ELSE pc[e]]
      /\ events' = [t \in Tables |-> IF t = s THEN <<>> ELSE events[t]]
      /\ announced' = [t \in Tables |-> IF t = s THEN {} ELSE announced[t]]
      /\ known' = [t \in Tables |-> IF t = s THEN {} ELSE known[t]]
      /\ misled' = [t \in Tables |-> IF t = s THEN {} ELSE misled[t]]
  BY DEF Crash
<1>2. TableTypes'
  BY <1>1 DEF TableInv, TableTypes
<1>3. \A n \in Servers : m_hash_Name2node'[s][n] = NoEnd
  BY <1>1 DEF IInv, NodeTypes
<1>4. \A r \in Servers \ {s} : m_hash_Name2node'[r] = m_hash_Name2node[r]
  BY <1>1 DEF IInv, NodeTypes
<1>5. ASSUME NEW r \in Tables, NEW m \in Servers, m_hash_Name2node'[r][m] # NoEnd
      PROVE  /\ node'[m_hash_Name2node'[r][m]] \in {"open", "gone"}
             /\ node'[m_hash_Name2node'[r][m]] = "open" /\ m \notin misled'[r] => ToldOf(r, m)'
  <2> DEFINE e == m_hash_Name2node[r][m]
  <2>1. r \in Servers /\ r # s
    BY <1>3, <1>5, ClusterAssumption
  <2>2. m_hash_Name2node'[r][m] = e /\ e \in Ends /\ owner[e] = r
    BY <1>4, <1>5, <2>1 DEF IInv, NodeTypes, RegisteredPeer
  <2>3. /\ node[e] \in {"open", "gone"}
        /\ node[e] = "open" /\ m \notin misled[r] => ToldOf(r, m)
    BY <1>5, <2>2 DEF TableInv, JoinInv
  <2>4. /\ node'[e] = node[e] /\ pc'[e] = pc[e]
        /\ events'[r] = events[r] /\ announced'[r] = announced[r] /\ misled'[r] = misled[r]
    BY <1>1, <2>1, <2>2
  <2>5. ToldOf(r, m) => ToldOf(r, m)'
    BY <2>2, <2>4 DEF ToldOf
  <2>6. QED
    BY <2>2, <2>3, <2>4, <2>5
<1>6. LossInv'
  <2>1. ASSUME NEW r \in Tables, NEW m \in known'[r], m_hash_Name2node'[r][m] = NoEnd
        PROVE  Holds(events'[r], Event("disconnected", m))
    <3>1. r # s /\ r \in Servers
      BY <1>1, <2>1, ClusterAssumption
    <3>2. m \in known[r] /\ m_hash_Name2node[r][m] = NoEnd /\ events'[r] = events[r]
      BY <1>1, <1>4, <2>1, <3>1
    <3>3. QED
      BY <3>2 DEF TableInv, LossInv
  <2>2. QED
    BY <2>1 DEF LossInv
<1>7. QED
  BY <1>2, <1>5, <1>6 DEF TableInv, JoinInv

LEMMA StepTable == IInv /\ TableInv /\ [Next]_vars => TableInv'
<1> SUFFICES ASSUME IInv, TableInv, [Next]_vars PROVE TableInv'
  OBVIOUS
<1>1. CASE UNCHANGED vars
  BY <1>1, CalmKeeps DEF vars
<1>2. ASSUME NEW j \in Joins, JoinCluster(j[1], j[2]) \/ Rejoin(j[1], j[2])
      PROVE  TableInv'
  BY <1>2, CalmJoin
<1>3. ASSUME NEW e \in Ends, MainThread(e) \/ Worker(e)
      PROVE  TableInv'
  BY <1>3, CalmMain, DisconnectTold, CalmWorker, RegisitTold, AnnounceTold
     DEF MainThread, Worker
<1>4. ASSUME NEW c \in Conns, Break(c)
      PROVE  TableInv'
  BY <1>4, CalmKeeps DEF Break
<1>5. QED
  BY <1>1, <1>2, <1>3, <1>4, EventTold, CrashTold DEF Next, Handlers

-----------------------------------------------------------------------------
(* The properties of the runs.                                             *)

\* The inductive invariant holds in every reachable state.
THEOREM IInvCorrect == Spec => []IInv
<1>1. QED
  BY InitIInv, StepIInv, PTL DEF Spec

\* What the table is told is on its way to it in every reachable state.
THEOREM TableInvCorrect == Spec => []TableInv
<1>1. QED
  BY InitTable, StepTable, IInvCorrect, PTL DEF Spec

\* Every variable keeps its type.
THEOREM TypeCorrect == Spec => []TypeOK
<1>1. IInv /\ TableInv => TypeOK
  BY DEF IInv, TableInv, NodeTypes, TableTypes, TypeOK
<1>2. QED
  BY <1>1, IInvCorrect, TableInvCorrect, PTL

\* What is registered under a name is a node connected to the server so called.
THEOREM RegisteredPeerCorrect == Spec => []RegisteredPeer
<1>1. IInv => RegisteredPeer
  BY DEF IInv
<1>2. QED
  BY <1>1, IInvCorrect, PTL

\* The table is told of every server lost, and of every server it can send to,
\* however connections of the same name come and go.
THEOREM TableToldCorrect == Spec => []TableTold
<1>1. ASSUME IInv, TableInv PROVE LossReported
  <2>1. ASSUME NEW s \in Tables, NEW n \in known[s] \ SvrNames(s)
        PROVE  \E i \in DOMAIN events[s] : events[s][i] = Event("disconnected", n)
    <3>1. n \in Servers /\ events[s] \in Seq(Events)
      BY <1>1 DEF TableInv, TableTypes
    <3>2. Holds(events[s], Event("disconnected", n))
      BY <1>1, <3>1 DEF TableInv, LossInv, SvrNames
    <3>3. QED
      BY <3>1, <3>2 DEF Holds
  <2>2. QED
    BY <2>1 DEF LossReported
<1>2. ASSUME IInv, TableInv PROVE JoinReported
  <2>1. ASSUME Quiet, NEW s \in Tables, NEW n \in Servers, m_hash_Name2node[s][n] # NoEnd,
               node[m_hash_Name2node[s][n]] = "open", n \notin misled[s]
        PROVE  n \in announced[s]
    <3>1. m_hash_Name2node[s][n] \in Ends
      BY <1>2, <2>1, ClusterAssumption DEF IInv, NodeTypes
    <3>2. pc[m_hash_Name2node[s][n]] = "idle" /\ events[s] = <<>>
      BY <2>1, <3>1 DEF Quiet
    <3>3. ToldOf(s, n)
      BY <1>2, <2>1 DEF TableInv, JoinInv
    <3>4. QED
      BY <3>2, <3>3 DEF ToldOf, Holds, Joining
  <2>2. QED
    BY <2>1 DEF JoinReported
<1>3. IInv /\ TableInv => TableTold
  BY <1>1, <1>2 DEF TableTold
<1>4. QED
  BY <1>3, IInvCorrect, TableInvCorrect, PTL

\* When nothing is under way, every connection that is left is registered at
\* both its ends under the name of the other side.
THEOREM OpenMeansRegisteredCorrect == Spec => []OpenMeansRegistered
<1>1. ASSUME IInv, Quiet, NEW e \in Ends, node[e] = "open"
      PROVE  m_hash_Name2node[owner[e]][owner[Peer(e)]] = e
  <2>1. link[e[1]] = "up" /\ ~HasHello(wire[e]) /\ pc[e] = "idle" /\ greeting = {}
    BY <1>1, EmptyWire DEF Quiet
  <2>2. /\ Peer(e) \in Ends /\ Peer(e)[1] = e[1]
        /\ node[Peer(e)] \notin {"none", "arriving"}
    BY <1>1, <2>1, PeerFacts DEF Quiet, IInv, EndInv, UseOf
  <2>3. ServedOf(e)
    BY <1>1 DEF IInv, EndInv
  <2>4. QED
    BY <2>1, <2>2, <2>3 DEF ServedOf, ToGreet
<1>2. IInv => OpenMeansRegistered
  BY <1>1 DEF OpenMeansRegistered
<1>3. QED
  BY <1>2, IInvCorrect, PTL

\* A step of the workers or of the main thread redirects no entry; only the
\* disconnect of the node it points to, or a crash, removes one.
LEMMA FirstKeptStep ==
  ASSUME NodeTypes, [Next]_vars
  PROVE  \A s, n \in Servers :
           LET e == m_hash_Name2node[s][n] IN
             e # NoEnd /\ m_hash_Name2node'[s][n] # e
               => \/ m_hash_Name2node'[s][n] = NoEnd
                     /\ node[e] = "open" /\ node'[e] = "gone"
                  \/ Crash(s)
<1> SUFFICES ASSUME NEW s \in Servers, NEW n \in Servers,
                    m_hash_Name2node[s][n] # NoEnd,
                    m_hash_Name2node'[s][n] # m_hash_Name2node[s][n]
             PROVE  \/ /\ m_hash_Name2node'[s][n] = NoEnd
                       /\ node[m_hash_Name2node[s][n]] = "open"
                       /\ node'[m_hash_Name2node[s][n]] = "gone"
                    \/ Crash(s)
  BY Zenon
<1>1. PICK f \in Ends : RegisitNewServer(f) \/ ClientDisconnected(f) \/ Crash(s)
  <2>1. ASSUME NEW r \in Servers, Crash(r), r # s
        PROVE  FALSE
    BY <2>1 DEF Crash, NodeTypes
  <2>2. CASE Crash(s)
    BY <2>2 DEF NodeTypes
  <2>3. CASE ~Crash(s)
    BY <2>1, <2>3 DEF Next, vars, Handlers, MainThread, Worker, JoinCluster, Rejoin, Break,
       NewClientConnected, SendHelloPackage, TakeHello, Reject, Announce,
       CollectServers, TellServers, TakeServers, ScanName, ScanDone,
       TableEvent, PassOn, on_evt_NewSvrConnected, on_evt_NewSvrDisconnected
  <2>4. QED
    BY <2>2, <2>3
<1>2. CASE RegisitNewServer(f)
  <2>1. /\ m_hash_Name2node[owner[f]][m_strTermName[f]] = NoEnd
        /\ m_hash_Name2node'
             = [m_hash_Name2node EXCEPT ![owner[f]][m_strTermName[f]] = f]
    BY <1>2 DEF RegisitNewServer
  <2>2. ~(s = owner[f] /\ n = m_strTermName[f])
    BY <2>1
  <2>3. m_hash_Name2node'[s][n] = m_hash_Name2node[s][n]
    BY <2>1, <2>2 DEF NodeTypes
  <2>4. QED
    BY <2>3
<1>3. CASE ClientDisconnected(f)
  BY <1>3 DEF ClientDisconnected, OwnName, NodeTypes
<1>4. QED
  BY <1>1, <1>2, <1>3

\* The connection registered first keeps its name until its node disconnects
\* or its server ends.
THEOREM FirstKeptCorrect == Spec => FirstKept
<1>1. NodeTypes /\ [Next]_vars
        => [\A s, n \in Servers :
              LET e == m_hash_Name2node[s][n] IN
                e # NoEnd /\ m_hash_Name2node'[s][n] # e
                  => \/ m_hash_Name2node'[s][n] = NoEnd
                        /\ node[e] = "open" /\ node'[e] = "gone"
                     \/ Crash(s)]_vars
  BY FirstKeptStep
<1>2. IInv => NodeTypes
  BY DEF IInv
<1>3. QED
  BY <1>1, <1>2, IInvCorrect, PTL DEF Spec, FirstKept
=============================================================================
