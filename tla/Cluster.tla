------------------------------ MODULE Cluster -------------------------------
(***************************************************************************)
(* Membership of the server cluster (cluster/zp_clusterterm and            *)
(* zp_clusternode).  Every server dials the address it is configured with  *)
(* and the servers it hears of whose name is greater than its own; on each *)
(* connection both sides say hello with their name, the first connection   *)
(* to a name is registered, every further one is closed, and each          *)
(* registration is followed by a broadcast of all the names known.         *)
(*                                                                         *)
(* A connection has two ends, each a zp_ClusterNode of the server that     *)
(* owns it.  The main thread of a server opens and disconnects its ends    *)
(* while working threads interpret what has arrived on them; one worker at *)
(* a time runs a node (TaskEngine), and there are as many as there are     *)
(* nodes.  A connection that fails, or whose peer is silent for too long,  *)
(* goes down and loses what was in flight.                                 *)
(***************************************************************************)
EXTENDS Integers, Sequences, FiniteSets

CONSTANTS Servers,    \* the servers' names, numbers: the code compares names
          Tables,     \* servers whose client table listens to the cluster
          Joins,      \* pairs <<s, t>>: s is configured to join at t's address
          MaxConns,   \* bound on the connections ever dialled
          NoEnd,      \* no node under a name
          MaxFaults   \* bound on broken connections and crashed servers

Nobody == 0           \* the empty name, and the owner of an unused end

ASSUME ClusterAssumption ==
  /\ Servers \subseteq Nat \ {Nobody}
  /\ Tables \subseteq Servers
  /\ Joins \subseteq Servers \X Servers
  /\ MaxConns \in Nat /\ MaxFaults \in Nat

\* Connections are numbered in the order in which they are dialled.
Conns == 1..MaxConns

Ends == Conns \X {"dial", "accept"}

ASSUME NoEndAssumption == NoEnd \notin Ends

Peer(e) == <<e[1], IF e[2] = "dial" THEN "accept" ELSE "dial">>

VARIABLES
  owner,           \* per end: the server the node belongs to
  node,            \* per end: the node's place in m_hash_sock2node
  link,            \* per connection: "none", "up", "down"
  greeting,        \* ends whose hello is queued in the main thread
  wire,            \* per end: the messages that arrive there, oldest first
  m_strTermName,   \* per end: the name the node has been given
  m_hash_Name2node,\* per server and name: the registered end, or NoEnd
  pc,              \* per end: where the worker that runs the node is
  names,           \* per end: names collected, or still to be looked at
  events,          \* per table: queued in the main thread of its server
  announced,       \* per table: the names it has last heard of as connected
  known,           \* history, per table: names it may have users of
  misled,          \* history, per table: names reported gone in spite of their node
  faults           \* the faults so far

table == <<events, announced, known, misled>>
vars == <<owner, node, link, greeting, wire, m_strTermName, m_hash_Name2node,
          pc, names, table, faults>>

Nodes == {"none", "arriving", "open", "gone"}
Labels == {"idle", "run", "regist", "reject", "announce", "collect", "tell", "scan"}
Messages == [kind : {"hello", "servers"}, names : SUBSET Servers]

\* "handshaked" is the signal of a node queued to zp_ClusterTerm, the others are
\* those of zp_ClusterTerm queued to the table.
Events == [kind : {"handshaked", "connected", "disconnected"}, name : Servers]

Event(k, n) == [kind |-> k, name |-> n]

Hello(s) == [kind |-> "hello", names |-> {s}]
ServerList(S) == [kind |-> "servers", names |-> S]

Init ==
  /\ owner = [e \in Ends |-> Nobody]
  /\ node = [e \in Ends |-> "none"]
  /\ link = [c \in Conns |-> "none"]
  /\ greeting = {}
  /\ wire = [e \in Ends |-> <<>>]
  /\ m_strTermName = [e \in Ends |-> Nobody]
  /\ m_hash_Name2node = [s \in Servers |-> [n \in Servers |-> NoEnd]]
  /\ pc = [e \in Ends |-> "idle"]
  /\ names = [e \in Ends |-> {}]
  /\ events = [s \in Tables |-> <<>>]
  /\ announced = [s \in Tables |-> {}]
  /\ known = [s \in Tables |-> {}] /\ misled = [s \in Tables |-> {}]
  /\ faults = 0

-----------------------------------------------------------------------------
(* Connections.                                                            *)

SvrNames(s) == {n \in Servers : m_hash_Name2node[s][n] # NoEnd}

Unused == {c \in Conns : link[c] = "none"}

NextUnused(c) == c \in Unused /\ \A d \in Unused : c <= d

\* connectTo and what follows it: a connection of s to t, and at both sides
\* evt_NewClientConnected queued to the main thread.
Establish(s, t, c) ==
  /\ owner' = [owner EXCEPT ![<<c, "dial">>] = s, ![<<c, "accept">>] = t]
  /\ node' = [node EXCEPT ![<<c, "dial">>] = "arriving", ![<<c, "accept">>] = "arriving"]

Dial(s, t) == \E c \in Conns : /\ NextUnused(c) /\ Establish(s, t, c)
                             /\ link' = [link EXCEPT ![c] = "up"]

\* Connections of s that its network engine closes when it kicks all clients.
Own(s) == {c \in Conns : link[c] = "up" /\ \E e \in Ends : e[1] = c /\ owner[e] = s}

\* JoinCluster on request of the operator.
JoinCluster(s, t) ==
  /\ Dial(s, t)
  /\ UNCHANGED <<greeting, wire, m_strTermName, m_hash_Name2node, pc, names,
                 table, faults>>

\* The timer of the main frame: a server without any registered peer closes
\* every connection it has and dials the configured address again.
Rejoin(s, t) ==
  /\ SvrNames(s) = {}
  /\ \E c \in Conns :
       /\ NextUnused(c) /\ Establish(s, t, c)
       /\ link' = [d \in Conns |-> IF d \in Own(s) THEN "down"
                                   ELSE IF d = c THEN "up" ELSE link[d]]
  /\ UNCHANGED <<greeting, wire, m_strTermName, m_hash_Name2node, pc, names,
                 table, faults>>

\* evt_close_client: the node has its own connection closed.
Kick(e) == link' = [link EXCEPT ![e[1]] = IF @ = "up" THEN "down" ELSE @]

\* SendDataToClient: what is sent on a connection that is down is lost.
Sent(e, msg) == IF link[e[1]] = "up" THEN Append(wire[Peer(e)], msg) ELSE wire[Peer(e)]

-----------------------------------------------------------------------------
(* The main thread of a server.                                            *)

\* A signal connected as Qt::QueuedConnection: behind all that is queued.
Post(s, k, n) ==
  events' = [t \in Tables |-> IF t = s THEN Append(events[t], Event(k, n)) ELSE events[t]]

\* on_evt_NewClientConnected: the node enters m_hash_sock2node and queues its
\* hello.  What has arrived meanwhile is pushed into the node afterwards.
NewClientConnected(e) ==
  /\ node[e] = "arriving"
  /\ node' = [node EXCEPT ![e] = "open"]
  /\ greeting' = greeting \cup {e}
  /\ UNCHANGED <<owner, link, wire, m_strTermName, m_hash_Name2node, pc, names,
                 table, faults>>

\* The queued hello reaches the network engine.  BroadcastServers sends from
\* a working thread directly and may be faster.
SendHelloPackage(e) ==
  /\ e \in greeting
  /\ greeting' = greeting \ {e}
  /\ wire' = [wire EXCEPT ![Peer(e)] = Sent(e, Hello(owner[e]))]
  /\ UNCHANGED <<owner, node, link, m_strTermName, m_hash_Name2node, pc, names,
                 table, faults>>

OwnName_AnyNode(e) ==            \* mutant: line 331 is missing
  {n \in Servers : n = m_strTermName[e] /\ m_hash_Name2node[owner[e]][n] # NoEnd}

\* The name whose entry is removed with node e.
OwnName(e) == {n \in Servers : n = m_strTermName[e] /\ m_hash_Name2node[owner[e]][n] = e}

ClientDisconnected_Silent(e) ==  \* mutant: the name is looked at when it is gone
  LET s == owner[e] IN
    /\ node[e] = "open" /\ link[e[1]] = "down"
    /\ node' = [node EXCEPT ![e] = "gone"]
    /\ m_hash_Name2node' =
         [m_hash_Name2node EXCEPT ![s] =
            [n \in Servers |-> IF n \in OwnName(e) THEN NoEnd ELSE @[n]]]
    /\ wire' = [wire EXCEPT ![e] = IF pc[e] = "idle" THEN <<>> ELSE @]
    /\ UNCHANGED <<owner, link, greeting, m_strTermName, pc, names, table, faults>>

\* on_evt_ClientDisconnected: out of both hashes, bTermSet, and the report that
\* the named server is gone, whichever node the name is registered for.  The
\* node is deleted when no worker has it.
ClientDisconnected(e) ==
  LET s == owner[e] IN
    /\ node[e] = "open" /\ link[e[1]] = "down"
    /\ node' = [node EXCEPT ![e] = "gone"]
    /\ m_hash_Name2node' =
         [m_hash_Name2node EXCEPT ![s] =
            [n \in Servers |-> IF n \in OwnName(e) THEN NoEnd ELSE @[n]]]
    /\ IF m_strTermName[e] = Nobody THEN UNCHANGED events
       ELSE Post(s, "disconnected", m_strTermName[e])
    /\ misled' = [t \in Tables |->
                    IF t = s
                    THEN misled[t] \cup ({m_strTermName[e]} \cap (SvrNames(s) \ OwnName(e)))
                    ELSE misled[t]]
    /\ wire' = [wire EXCEPT ![e] = IF pc[e] = "idle" THEN <<>> ELSE @]
    /\ UNCHANGED <<owner, link, greeting, m_strTermName, pc, names, announced, known,
                   faults>>

MainThread(e) == NewClientConnected(e) \/ SendHelloPackage(e) \/ ClientDisconnected(e)

\* zp_ClusterTerm passes the signal of a node on, behind what is queued by now.
PassOn(s) ==
  /\ events[s] # <<>> /\ Head(events[s]).kind = "handshaked"
  /\ events' = [events EXCEPT ![s] =
                  Append(Tail(@), Event("connected", Head(@).name))]
  /\ UNCHANGED <<owner, node, link, greeting, wire, m_strTermName, m_hash_Name2node,
                 pc, names, announced, known, misled, faults>>

\* The table hears of a server and sends it its users, see UserDirectory ...
on_evt_NewSvrConnected(s) ==
  /\ events[s] # <<>> /\ Head(events[s]).kind = "connected"
  /\ events' = [events EXCEPT ![s] = Tail(@)]
  /\ announced' = [announced EXCEPT ![s] = @ \cup {Head(events[s]).name}]
  /\ UNCHANGED <<owner, node, link, greeting, wire, m_strTermName, m_hash_Name2node,
                 pc, names, known, misled, faults>>

\* ... or forgets the users of one.  It may get new ones from a server that is
\* registered again.
on_evt_NewSvrDisconnected(s) ==
  /\ events[s] # <<>> /\ Head(events[s]).kind = "disconnected"
  /\ events' = [events EXCEPT ![s] = Tail(@)]
  /\ announced' = [announced EXCEPT ![s] = @ \ {Head(events[s]).name}]
  /\ known' = [known EXCEPT ![s] = @ \ ({Head(events[s]).name} \ SvrNames(s))]
  /\ UNCHANGED <<owner, node, link, greeting, wire, m_strTermName, m_hash_Name2node,
                 pc, names, misled, faults>>

TableEvent(s) ==
  PassOn(s) \/ on_evt_NewSvrConnected(s) \/ on_evt_NewSvrDisconnected(s)

-----------------------------------------------------------------------------
(* A working thread in run() of a node.  bTermSet is looked at when run()  *)
(* begins: later blocks are interpreted even if the node has gone.         *)

Goto(e, label) == pc' = [pc EXCEPT ![e] = label]

\* A message is done, w is what the wires hold now.  run() ends when the list
\* is empty or its turn is over; a node that has gone is not run again.
Done(e, w) ==
  \/ /\ w[e] # <<>> /\ Goto(e, "run")
     /\ wire' = w
  \/ /\ Goto(e, "idle")
     /\ wire' = [w EXCEPT ![e] = IF node[e] = "open" THEN @ ELSE <<>>]

\* The next message of node e is interpreted.
Take(e, kind) ==
  /\ pc[e] = "run" \/ (pc[e] = "idle" /\ node[e] = "open")
  /\ wire[e] # <<>> /\ Head(wire[e]).kind = kind

Rest(e) == [wire EXCEPT ![e] = Tail(@)]

TakeHello_Loopback(e) ==         \* mutant: a server's own name is accepted
  /\ Take(e, "hello")
  /\ \E n \in Head(wire[e]).names :
       m_strTermName' = [m_strTermName EXCEPT ![e] = n]
  /\ Goto(e, "regist") /\ wire' = Rest(e)
  /\ UNCHANGED <<owner, node, link, greeting, m_hash_Name2node, names,
                 table, faults>>

\* basicInfo: the name is stored before the server is registered.  A server
\* does not keep a connection to itself.
TakeHello(e) ==
  /\ Take(e, "hello")
  /\ \E n \in Head(wire[e]).names :
       IF n = owner[e]
       THEN Kick(e) /\ Done(e, Rest(e)) /\ UNCHANGED m_strTermName
       ELSE /\ m_strTermName' = [m_strTermName EXCEPT ![e] = n]
            /\ Goto(e, "regist") /\ wire' = Rest(e) /\ UNCHANGED link
  /\ UNCHANGED <<owner, node, greeting, m_hash_Name2node, names, table, faults>>

\* regisitNewServer: the first connection to a name keeps it.  Nobody asks
\* whether the node is still connected.
RegisitNewServer(e) ==
  LET s == owner[e]  n == m_strTermName[e] IN
    /\ pc[e] = "regist"
    /\ IF m_hash_Name2node[s][n] = NoEnd
       THEN /\ m_hash_Name2node' = [m_hash_Name2node EXCEPT ![s][n] = e]
            /\ known' = [t \in Tables |-> IF t = s THEN known[t] \cup {n} ELSE known[t]]
            /\ misled' = [t \in Tables |-> IF t = s THEN misled[t] \ {n} ELSE misled[t]]
            /\ Goto(e, "announce")
       ELSE Goto(e, "reject") /\ UNCHANGED <<m_hash_Name2node, known, misled>>
    /\ UNCHANGED <<owner, node, link, greeting, wire, m_strTermName, names,
                   events, announced, faults>>

Reject_NoKick(e) ==              \* mutant: the duplicate stays open
  /\ pc[e] = "reject"
  /\ m_strTermName' = [m_strTermName EXCEPT ![e] = Nobody]
  /\ Done(e, wire)
  /\ UNCHANGED <<owner, node, link, greeting, m_hash_Name2node, names,
                 table, faults>>

\* The name is taken back and the connection closed.
Reject(e) ==
  /\ pc[e] = "reject"
  /\ m_strTermName' = [m_strTermName EXCEPT ![e] = Nobody]
  /\ Kick(e) /\ Done(e, wire)
  /\ UNCHANGED <<owner, node, greeting, m_hash_Name2node, names, table,
                 faults>>

\* evt_NewSvrConnected, which a node no longer connected reports to nobody.
Announce(e) ==
  /\ pc[e] = "announce"
  /\ IF node[e] = "open" THEN Post(owner[e], "handshaked", m_strTermName[e])
     ELSE UNCHANGED events
  /\ Goto(e, "collect")
  /\ UNCHANGED <<owner, node, link, greeting, wire, m_strTermName,
                 m_hash_Name2node, names, announced, known, misled, faults>>

\* BroadcastServers collects the names under the mutex ...
CollectServers(e) ==
  /\ pc[e] = "collect"
  /\ names' = [names EXCEPT ![e] = SvrNames(owner[e]) \cup {owner[e]}]
  /\ Goto(e, "tell")
  /\ UNCHANGED <<owner, node, link, greeting, wire, m_strTermName,
                 m_hash_Name2node, table, faults>>

\* ... and, under the mutex once more, sends them to all who are registered.
TellServers(e) ==
  LET s == owner[e]
      told == {m_hash_Name2node[s][n] : n \in SvrNames(s)}
  IN
    /\ pc[e] = "tell"
    /\ Done(e, [p \in Ends |-> IF Peer(p) \in told
                               THEN Sent(Peer(p), ServerList(names[e]))
                               ELSE wire[p]])
    /\ names' = [names EXCEPT ![e] = {}]
    /\ UNCHANGED <<owner, node, link, greeting, m_strTermName,
                   m_hash_Name2node, table, faults>>

\* A broadcast of another server arrives.  Lower names are left to dial.
TakeServers(e) ==
  /\ Take(e, "servers")
  /\ names' = [names EXCEPT ![e] = {n \in Head(wire[e]).names : n > owner[e]}]
  /\ Goto(e, "scan") /\ wire' = Rest(e)
  /\ UNCHANGED <<owner, node, link, greeting, m_strTermName, m_hash_Name2node,
                 table, faults>>

\* One name of it: a server not registered at this moment is dialled.
ScanName(e) ==
  /\ pc[e] = "scan"
  /\ \E n \in names[e] :
       /\ names' = [names EXCEPT ![e] = @ \ {n}]
       /\ IF m_hash_Name2node[owner[e]][n] = NoEnd /\ Unused # {}
          THEN Dial(owner[e], n)
          ELSE UNCHANGED <<owner, node, link>>
  /\ UNCHANGED <<greeting, wire, m_strTermName, m_hash_Name2node, pc,
                 table, faults>>

ScanDone(e) ==
  /\ pc[e] = "scan" /\ names[e] = {}
  /\ Done(e, wire)
  /\ UNCHANGED <<owner, node, link, greeting, m_strTermName,
                 m_hash_Name2node, names, table, faults>>

Worker(e) ==
  \/ TakeHello(e) \/ RegisitNewServer(e) \/ Reject(e) \/ Announce(e)
  \/ CollectServers(e) \/ TellServers(e)
  \/ TakeServers(e) \/ ScanName(e) \/ ScanDone(e)

-----------------------------------------------------------------------------
(* Faults.                                                                 *)

\* A connection breaks, or KickDeadClients gives up a silent peer.
Break(c) ==
  /\ faults < MaxFaults /\ link[c] = "up"
  /\ faults' = faults + 1
  /\ link' = [link EXCEPT ![c] = "down"]
  /\ UNCHANGED <<owner, node, greeting, wire, m_strTermName, m_hash_Name2node,
                 pc, names, table>>

\* The process of a server ends and starts again with empty tables.
Crash(s) ==
  LET mine == {e \in Ends : owner[e] = s} IN
    /\ faults < MaxFaults
    /\ faults' = faults + 1
    /\ link' = [c \in Conns |-> IF c \in Own(s) THEN "down" ELSE link[c]]
    /\ node' = [e \in Ends |-> IF e \in mine THEN "gone" ELSE node[e]]
    /\ greeting' = greeting \ mine
    /\ wire' = [e \in Ends |-> IF e \in mine THEN <<>> ELSE wire[e]]
    /\ m_strTermName' = [e \in Ends |-> IF e \in mine THEN Nobody ELSE m_strTermName[e]]
    /\ m_hash_Name2node' = [m_hash_Name2node EXCEPT ![s] = [n \in Servers |-> NoEnd]]
    /\ pc' = [e \in Ends |-> IF e \in mine THEN "idle" ELSE pc[e]]
    /\ names' = [e \in Ends |-> IF e \in mine THEN {} ELSE names[e]]
    /\ events' = [t \in Tables |-> IF t = s THEN <<>> ELSE events[t]]
    /\ announced' = [t \in Tables |-> IF t = s THEN {} ELSE announced[t]]
    /\ known' = [t \in Tables |-> IF t = s THEN {} ELSE known[t]]
    /\ misled' = [t \in Tables |-> IF t = s THEN {} ELSE misled[t]]
    /\ UNCHANGED owner

Handlers ==
  \/ \E e \in Ends : MainThread(e) \/ Worker(e)
  \/ \E s \in Tables : TableEvent(s)

Next ==
  \/ \E j \in Joins : JoinCluster(j[1], j[2]) \/ Rejoin(j[1], j[2])
  \/ Handlers
  \/ \E c \in Conns : Break(c)
  \/ \E s \in Servers : Crash(s)

Spec == Init /\ [][Next]_vars

-----------------------------------------------------------------------------
(* Properties.                                                             *)

TypeOK ==
  /\ owner \in [Ends -> Servers \cup {Nobody}]
  /\ node \in [Ends -> Nodes]
  /\ link \in [Conns -> {"none", "up", "down"}]
  /\ greeting \subseteq Ends
  /\ wire \in [Ends -> Seq(Messages)]
  /\ m_strTermName \in [Ends -> Servers \cup {Nobody}]
  /\ m_hash_Name2node \in [Servers -> [Servers -> Ends \cup {NoEnd}]]
  /\ pc \in [Ends -> Labels]
  /\ names \in [Ends -> SUBSET Servers]
  /\ events \in [Tables -> Seq(Events)]
  /\ announced \in [Tables -> SUBSET Servers]
  /\ known \in [Tables -> SUBSET Servers]
  /\ misled \in [Tables -> SUBSET Servers]
  /\ faults \in 0..MaxFaults

\* What is registered under a name is a node of this server that carries that
\* name and whose connection ends at the server so called, which is another
\* one: data sent to a name reaches that server, and the disconnect of the
\* node finds the entry again.
RegisteredPeer ==
  \A s, n \in Servers :
    LET e == m_hash_Name2node[s][n] IN
      e # NoEnd => /\ n # s
                   /\ owner[e] = s /\ owner[Peer(e)] = n
                   /\ m_strTermName[e] = n

\* The connection registered first keeps the name: as long as its server runs,
\* an entry is never redirected, and it disappears only in the disconnect of
\* the node it points to, however the end of a duplicate falls between.
FirstKept ==
  [][\A s, n \in Servers :
       LET e == m_hash_Name2node[s][n] IN
         e # NoEnd /\ m_hash_Name2node'[s][n] # e
           => \/ m_hash_Name2node'[s][n] = NoEnd
                 /\ node[e] = "open" /\ node'[e] = "gone"
              \/ Crash(s)]_vars

\* Nothing is under way at any server: no event is queued, no message in
\* flight, no worker running, no broken connection left to be noticed.
Quiet ==
  /\ greeting = {} /\ \A s \in Tables : events[s] = <<>>
  /\ \A e \in Ends :
       /\ wire[e] = <<>> /\ pc[e] = "idle"
       /\ node[e] # "arriving"
       /\ node[e] = "open" => link[e[1]] = "up"

\* When all is quiet every connection that is left serves: both its ends are
\* registered, each under the name of the other side, so the two servers agree
\* on which of several connections they use and none lingers unused.
OpenMeansRegistered ==
  Quiet => \A e \in Ends :
             node[e] = "open" => m_hash_Name2node[owner[e]][owner[Peer(e)]] = e

\* The client table, which keeps users of the servers registered, is told of
\* every server that is lost: the report is queued as its entry goes, however
\* connections of the same name come and go.
LossReported ==
  \A s \in Tables : \A n \in known[s] \ SvrNames(s) :
    \E i \in DOMAIN events[s] : events[s][i] = Event("disconnected", n)

\* When all is quiet the table has heard of every server it can send to, and has
\* not been told since that it is gone: a report of its connection, which takes
\* one queue more, is not overtaken by that of the end of a former one.  Only a
\* duplicate that ends with the name still stored in it can mislead the table.
JoinReported ==
  Quiet => \A s \in Tables, n \in Servers :
             LET e == m_hash_Name2node[s][n] IN
               e # NoEnd /\ node[e] = "open" /\ n \notin misled[s] => n \in announced[s]

\* What the table is told of the servers it shares users with.
TableTold == LossReported /\ JoinReported
=============================================================================
