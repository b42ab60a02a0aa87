--------------------------- MODULE UserDirectory ----------------------------
(***************************************************************************)
(* Which server of the cluster a user is on.  Every server keeps a table   *)
(* of its own users and a directory of the others', filled by messages     *)
(* 0x01 (these users are here) and 0x02 (this user has left) and emptied   *)
(* when a server is lost.  Models the user tables of smartlink/            *)
(* st_client_table, the messages 0x01 and 0x02 of st_cross_svr_node and,   *)
(* as far as they decide who hears of what, the registration and the       *)
(* disconnect of a server in cluster/.                                     *)
(***************************************************************************)
EXTENDS Naturals, Sequences, FiniteSets

CONSTANTS
  Servers,
  Peers,          \* pairs of servers that keep a connection, see Cluster
  Hosts,          \* servers that clients log in to
  Users,
  Sessions,       \* client nodes, each of them logs in once
  NoSession,
  NoServer,
  NoMessage,
  MaxFaults       \* bound on broken connections and crashes

ASSUME DirectoryAssumption ==
  /\ NoSession \notin Sessions /\ NoServer \notin Servers
  /\ Peers \subseteq {{s, t} : s, t \in Servers}
  /\ Hosts \subseteq Servers
  /\ MaxFaults \in Nat

VARIABLES
  who,            \* where and as whom a session has logged in
  alive,          \* sessions logged in and not disconnected
  registering,    \* sessions whose worker has not entered the user yet
  announcing,     \* sessions whose worker has entered the user and not told yet
  m_hash_uuid2node,             \* own users: server -> user -> session
  m_hash_remoteClient2SvrName,  \* the directory: server -> user -> server
  m_hash_Name2node,             \* servers registered at a server
  links,          \* pairs of servers between which a connection is up
  wire,           \* messages on their way: <<from, to>> -> sequence
  dealing,        \* the message a worker has taken and not yet applied
  late,           \* what workers still apply for connections that have ended
  evt_NewSvrConnected,          \* queued for the table: server -> set
  evt_NewSvrDisconnected,       \* queued for the table: server -> set
  latest,         \* history: the last session a user has been entered with
  overdue,        \* history: sessions entered after their end was handled
  spoilt,         \* history: <<server, user>> hit by a race of the code
  faults

tables == <<m_hash_uuid2node, m_hash_remoteClient2SvrName>>
clients == <<who, alive, registering, announcing, latest, overdue>>
cluster == <<m_hash_Name2node, links, evt_NewSvrConnected, evt_NewSvrDisconnected>>
traffic == <<wire, dealing, late>>
vars == <<clients, tables, cluster, traffic, spoilt, faults>>

Ways == {l \in Servers \X Servers : l[1] # l[2] /\ {l[1], l[2]} \in Peers}
Place == [svr : Servers, uid : Users]
Nowhere == [svr |-> NoServer, uid |-> NoServer]

Hello == [kind |-> "hello", users |-> {}]
LoggedIn(us) == [kind |-> "0x01", users |-> us]
Exited(us) == [kind |-> "0x02", users |-> us]
Messages == {Hello} \cup {LoggedIn(us) : us \in SUBSET Users}
                    \cup {Exited(us) : us \in SUBSET Users}

\* The sign for no message is none.
ASSUME MessageAssumption == NoMessage \notin Messages

Linked(s, t) == {s, t} \in links

\* Users in the table of a server.
Here(s) == {u \in Users : m_hash_uuid2node[s][u] # NoSession}

\* The server which entered a user last, while he is in its table.
Home(u) ==
  IF latest[u] # NoSession /\ m_hash_uuid2node[who[latest[u]].svr][u] = latest[u]
  THEN who[latest[u]].svr
  ELSE NoServer

\* SendDataToRemoteServer: nothing is sent to a name that is not registered;
\* what is sent on a broken connection is lost.
SendDataToRemoteServer(s, to, m) ==
  [l \in Ways |-> IF /\ l[1] = s /\ l[2] \in to
                     /\ l[2] \in m_hash_Name2node[s] /\ Linked(s, l[2])
                  THEN Append(wire[l], m) ELSE wire[l]]

\* broadcast_client_uuid: to all servers registered at this moment.
broadcast_client_uuid(s, m) == SendDataToRemoteServer(s, m_hash_Name2node[s], m)

\* The servers have met and nobody has logged in.
Init ==
  /\ who = [c \in Sessions |-> Nowhere]
  /\ alive = {} /\ registering = {} /\ announcing = {} /\ overdue = {}
  /\ latest = [u \in Users |-> NoSession]
  /\ m_hash_uuid2node = [s \in Servers |-> [u \in Users |-> NoSession]]
  /\ m_hash_remoteClient2SvrName = [s \in Servers |-> [u \in Users |-> NoServer]]
  /\ m_hash_Name2node = [s \in Servers |-> {t \in Servers : <<s, t>> \in Ways}]
  /\ links = {{l[1], l[2]} : l \in Ways}
  /\ evt_NewSvrConnected = [s \in Servers |-> {}]
  /\ evt_NewSvrDisconnected = [s \in Servers |-> {}]
  /\ wire = [l \in Ways |-> <<>>]
  /\ dealing = [l \in Ways |-> NoMessage]
  /\ late = [l \in Ways |-> <<>>]
  /\ spoilt = {}
  /\ faults = 0

-----------------------------------------------------------------------------
(* Clients of a server.                                                    *)

\* A worker accepts the login of a client ...
LoginClient(c) ==
  /\ who[c] = Nowhere
  /\ \E s \in Hosts, u \in Users : who' = [who EXCEPT ![c] = [svr |-> s, uid |-> u]]
  /\ alive' = alive \cup {c} /\ registering' = registering \cup {c}
  /\ UNCHANGED <<announcing, latest, overdue, tables, cluster, traffic, spoilt, faults>>

\* ... enters the node under the mutex, whether or not its client has gone ...
regisitClientUUID(c) ==
  LET s == who[c].svr
      u == who[c].uid
  IN
    /\ c \in registering
    /\ m_hash_uuid2node' = [m_hash_uuid2node EXCEPT ![s][u] = c]
    /\ latest' = [latest EXCEPT ![u] = c]
    /\ registering' = registering \ {c} /\ announcing' = announcing \cup {c}
    /\ overdue' = overdue \cup ({c} \ alive)
    /\ UNCHANGED <<who, alive, m_hash_remoteClient2SvrName, cluster, traffic, spoilt,
                   faults>>

\* ... and tells the others when it has released it.  A user who has left
\* meanwhile is announced all the same.
AnnounceUUID(c) ==
  LET s == who[c].svr
      u == who[c].uid
  IN
    /\ c \in announcing
    /\ announcing' = announcing \ {c}
    /\ wire' = broadcast_client_uuid(s, LoggedIn({u}))
    /\ spoilt' = spoilt \cup
                 (IF u \in Here(s) THEN {} ELSE {<<t, u>> : t \in m_hash_Name2node[s]})
    /\ UNCHANGED <<who, alive, registering, latest, overdue, tables, cluster,
                   dealing, late, faults>>

\* mutant: the servers are told behind the node's removal, of any node
on_evt_ClientDisconnected_NotOurs(c) ==
  LET s == who[c].svr
      u == who[c].uid
      entered == m_hash_uuid2node[s][u] = c
  IN
    /\ c \in alive
    /\ alive' = alive \ {c}
    /\ m_hash_uuid2node' =
         IF entered THEN [m_hash_uuid2node EXCEPT ![s][u] = NoSession]
         ELSE m_hash_uuid2node
    /\ wire' = broadcast_client_uuid(s, Exited({u}))
    /\ UNCHANGED <<who, registering, announcing, latest, overdue,
                   m_hash_remoteClient2SvrName, cluster, dealing, late, spoilt, faults>>

\* mutant: no farewell
on_evt_ClientDisconnected_Silent(c) ==
  LET s == who[c].svr
      u == who[c].uid
      entered == m_hash_uuid2node[s][u] = c
  IN
    /\ c \in alive
    /\ alive' = alive \ {c}
    /\ m_hash_uuid2node' =
         IF entered THEN [m_hash_uuid2node EXCEPT ![s][u] = NoSession]
         ELSE m_hash_uuid2node
    /\ UNCHANGED <<who, registering, announcing, latest, overdue,
                   m_hash_remoteClient2SvrName, cluster, traffic, spoilt, faults>>

\* The main thread handles the end of a client: only the node that is entered
\* takes its user along and says farewell, all under the mutex.  One that a
\* worker has yet to enter leaves nothing to take along.
on_evt_ClientDisconnected(c) ==
  LET s == who[c].svr
      u == who[c].uid
      entered == m_hash_uuid2node[s][u] = c
  IN
    /\ c \in alive
    /\ alive' = alive \ {c}
    /\ m_hash_uuid2node' =
         IF entered THEN [m_hash_uuid2node EXCEPT ![s][u] = NoSession]
         ELSE m_hash_uuid2node
    /\ wire' = IF entered THEN broadcast_client_uuid(s, Exited({u})) ELSE wire
    /\ UNCHANGED <<who, registering, announcing, latest, overdue,
                   m_hash_remoteClient2SvrName, cluster, dealing, late, spoilt, faults>>

-----------------------------------------------------------------------------
(* Servers coming and going.                                               *)

\* A connection between two servers that have both forgotten the former one.
Connect(s, t) ==
  /\ ~Linked(s, t)
  /\ t \notin m_hash_Name2node[s] /\ s \notin m_hash_Name2node[t]
  /\ links' = links \cup {{s, t}}
  /\ wire' = [wire EXCEPT ![<<s, t>>] = <<Hello>>, ![<<t, s>>] = <<Hello>>]
  /\ UNCHANGED <<clients, tables, m_hash_Name2node, evt_NewSvrConnected,
                 evt_NewSvrDisconnected, dealing, late, spoilt, faults>>

\* A worker of t interprets the hello of s.
regisitNewServer(s, t) ==
  /\ Linked(s, t) /\ wire[<<s, t>>] # <<>> /\ Head(wire[<<s, t>>]) = Hello
  /\ wire' = [wire EXCEPT ![<<s, t>>] = Tail(@)]
  /\ m_hash_Name2node' = [m_hash_Name2node EXCEPT ![t] = @ \cup {s}]
  /\ evt_NewSvrConnected' = [evt_NewSvrConnected EXCEPT ![t] = @ \cup {s}]
  /\ UNCHANGED <<clients, tables, links, evt_NewSvrDisconnected, dealing, late,
                 spoilt, faults>>

\* The table of t sends its users, all together, to a server that has registered.
on_evt_NewSvrConnected(t, s) ==
  /\ s \in evt_NewSvrConnected[t]
  /\ evt_NewSvrConnected' = [evt_NewSvrConnected EXCEPT ![t] = @ \ {s}]
  /\ wire' = IF Here(t) # {}
             THEN SendDataToRemoteServer(t, {s}, LoggedIn(Here(t))) ELSE wire
  /\ UNCHANGED <<clients, tables, m_hash_Name2node, links,
                 evt_NewSvrDisconnected, dealing, late, spoilt, faults>>

\* What the worker of t that runs the node of s has in hand when the connection
\* ends, with any number of the messages behind it: run() has looked at bTermSet
\* already and goes on to the end of its turn.
StillApplied(s, t) ==
  LET l == <<s, t>>
      inHand == IF dealing[l] = NoMessage THEN <<>> ELSE <<dealing[l]>>
  IN {inHand \o SubSeq(wire[l], 1, n) : n \in 0..Len(wire[l])}

ServerDisconnected_Silent(t, s) ==   \* mutant: the cluster does not report the loss
  /\ s \in m_hash_Name2node[t] /\ ~Linked(s, t)
  /\ m_hash_Name2node' = [m_hash_Name2node EXCEPT ![t] = @ \ {s}]
  /\ \E q \in StillApplied(s, t) : late' = [late EXCEPT ![<<s, t>>] = Append(@, q)]
  /\ dealing' = [dealing EXCEPT ![<<s, t>>] = NoMessage]
  /\ wire' = [wire EXCEPT ![<<s, t>>] = <<>>]
  /\ UNCHANGED <<clients, tables, links, evt_NewSvrConnected,
                 evt_NewSvrDisconnected, spoilt, faults>>

\* The cluster of t handles the end of the connection to s.
ServerDisconnected(t, s) ==
  /\ s \in m_hash_Name2node[t] /\ ~Linked(s, t)
  /\ m_hash_Name2node' = [m_hash_Name2node EXCEPT ![t] = @ \ {s}]
  /\ evt_NewSvrDisconnected' = [evt_NewSvrDisconnected EXCEPT ![t] = @ \cup {s}]
  /\ \E q \in StillApplied(s, t) : late' = [late EXCEPT ![<<s, t>>] = Append(@, q)]
  /\ dealing' = [dealing EXCEPT ![<<s, t>>] = NoMessage]
  /\ wire' = [wire EXCEPT ![<<s, t>>] = <<>>]
  /\ UNCHANGED <<clients, tables, links, evt_NewSvrConnected, spoilt, faults>>

\* The table of t forgets the users of s, those a connection made since has
\* brought included.
on_evt_NewSvrDisconnected(t, s) ==
  LET gone == {u \in Users : m_hash_remoteClient2SvrName[t][u] = s} IN
    /\ s \in evt_NewSvrDisconnected[t]
    /\ evt_NewSvrDisconnected' = [evt_NewSvrDisconnected EXCEPT ![t] = @ \ {s}]
    /\ m_hash_remoteClient2SvrName' =
         [m_hash_remoteClient2SvrName EXCEPT
            ![t] = [u \in Users |-> IF u \in gone THEN NoServer ELSE @[u]]]
    /\ spoilt' = spoilt \cup
                 (IF s \in m_hash_Name2node[t] THEN {t} \X gone ELSE {})
    /\ UNCHANGED <<clients, m_hash_uuid2node, m_hash_Name2node, links,
                   evt_NewSvrConnected, traffic, faults>>

-----------------------------------------------------------------------------
(* Messages between servers: a worker of t takes one from s, then applies  *)
(* it.  Workers that run the nodes of former connections do the same with  *)
(* what they have left, side by side with that of the present one.         *)

TakeMessage(s, t) ==
  LET l == <<s, t>> IN
    /\ s \in m_hash_Name2node[t] /\ dealing[l] = NoMessage
    /\ wire[l] # <<>> /\ Head(wire[l]) # Hello
    /\ dealing' = [dealing EXCEPT ![l] = Head(wire[l])]
    /\ wire' = [wire EXCEPT ![l] = Tail(@)]
    /\ UNCHANGED <<clients, tables, cluster, late, spoilt, faults>>

\* The directory of t gives these users the entry e.
SetEntries(t, us, e) ==
  m_hash_remoteClient2SvrName' =
    [m_hash_remoteClient2SvrName EXCEPT
       ![t] = [u \in Users |-> IF u \in us THEN e ELSE @[u]]]

\* Users who have logged in elsewhere since, users with an entry, and users with
\* an entry that names another server.
Moved(us, s) == {u \in us : Home(u) \notin {s, NoServer}}
Entered(us, t) == {u \in us : m_hash_remoteClient2SvrName[t][u] # NoServer}
Foreign(us, s, t) == {u \in Entered(us, t) : m_hash_remoteClient2SvrName[t][u] # s}

\* An entry is stale from the start if the user has logged in elsewhere since.
cross_svr_add_uuids(s, t) ==
  LET l == <<s, t>>
      us == dealing[l].users
  IN
    /\ dealing[l] # NoMessage /\ dealing[l].kind = "0x01"
    /\ dealing' = [dealing EXCEPT ![l] = NoMessage]
    /\ SetEntries(t, us, s)
    /\ spoilt' = spoilt \cup {<<t, u>> : u \in Moved(us, s)}
    /\ UNCHANGED <<clients, m_hash_uuid2node, cluster, wire, late, faults>>

\* The entry is erased whatever server it names.
cross_svr_del_uuids(s, t) ==
  LET l == <<s, t>>
      us == dealing[l].users
  IN
    /\ dealing[l] # NoMessage /\ dealing[l].kind = "0x02"
    /\ dealing' = [dealing EXCEPT ![l] = NoMessage]
    /\ SetEntries(t, us, NoServer)
    /\ spoilt' = spoilt \cup {<<t, u>> : u \in Foreign(us, s, t)}
    /\ UNCHANGED <<clients, m_hash_uuid2node, cluster, wire, late, faults>>

\* The worker of a former connection applies its next message.  A greeting that
\* comes behind the purge stays, a farewell may meet the entry of the present
\* connection.
LateMessage(s, t) ==
  \E i \in DOMAIN late[<<s, t>>] :
    LET q == late[<<s, t>>][i]
        us == Head(q).users
    IN
      /\ q # <<>>
      /\ late' = [late EXCEPT ![<<s, t>>][i] = Tail(@)]
      /\ \/ /\ Head(q).kind = "0x01"
            /\ SetEntries(t, us, s)
            /\ spoilt' = spoilt \cup {<<t, u>> : u \in
                 IF s \in evt_NewSvrDisconnected[t] THEN Moved(us, s) ELSE us}
         \/ /\ Head(q).kind = "0x02"
            /\ SetEntries(t, us, NoServer)
            /\ spoilt' = spoilt \cup {<<t, u>> : u \in
                 IF s \in m_hash_Name2node[t] THEN Entered(us, t) ELSE Foreign(us, s, t)}
      /\ UNCHANGED <<clients, m_hash_uuid2node, cluster, wire, dealing, faults>>

-----------------------------------------------------------------------------
(* Faults.                                                                 *)

\* What has arrived may still be dealt with until the end is handled.
Break(s, t) ==
  /\ faults < MaxFaults /\ Linked(s, t)
  /\ faults' = faults + 1
  /\ links' = links \ {{s, t}}
  /\ UNCHANGED <<clients, tables, m_hash_Name2node, evt_NewSvrConnected,
                 evt_NewSvrDisconnected, traffic, spoilt>>

\* The process of a server ends and starts again with empty tables.
Crash(s) ==
  LET mine == {c \in Sessions : who[c].svr = s} IN
    /\ faults < MaxFaults
    /\ faults' = faults + 1
    /\ alive' = alive \ mine
    /\ registering' = registering \ mine /\ announcing' = announcing \ mine
    /\ m_hash_uuid2node' = [m_hash_uuid2node EXCEPT ![s] = [u \in Users |-> NoSession]]
    /\ m_hash_remoteClient2SvrName' =
         [m_hash_remoteClient2SvrName EXCEPT ![s] = [u \in Users |-> NoServer]]
    /\ m_hash_Name2node' = [m_hash_Name2node EXCEPT ![s] = {}]
    /\ links' = {p \in links : s \notin p}
    /\ evt_NewSvrConnected' = [evt_NewSvrConnected EXCEPT ![s] = {}]
    /\ evt_NewSvrDisconnected' = [evt_NewSvrDisconnected EXCEPT ![s] = {}]
    /\ wire' = [l \in Ways |-> IF l[2] = s THEN <<>> ELSE wire[l]]
    /\ dealing' = [l \in Ways |-> IF l[2] = s THEN NoMessage ELSE dealing[l]]
    /\ late' = [l \in Ways |-> IF l[2] = s THEN <<>> ELSE late[l]]
    /\ UNCHANGED <<who, latest, overdue, spoilt>>

Next ==
  \/ \E c \in Sessions :
       \/ LoginClient(c) \/ regisitClientUUID(c) \/ AnnounceUUID(c)
       \/ on_evt_ClientDisconnected(c)
  \/ \E l \in Ways :
       \/ Connect(l[1], l[2]) \/ Break(l[1], l[2])
       \/ regisitNewServer(l[1], l[2]) \/ ServerDisconnected(l[1], l[2])
       \/ on_evt_NewSvrConnected(l[1], l[2]) \/ on_evt_NewSvrDisconnected(l[1], l[2])
       \/ TakeMessage(l[1], l[2]) \/ LateMessage(l[1], l[2])
       \/ cross_svr_add_uuids(l[1], l[2]) \/ cross_svr_del_uuids(l[1], l[2])
  \/ \E s \in Servers : Crash(s)

Spec == Init /\ [][Next]_vars

-----------------------------------------------------------------------------
(* Properties.                                                             *)

TypeOK ==
  /\ who \in [Sessions -> Place \cup {Nowhere}]
  /\ alive \subseteq Sessions /\ overdue \subseteq Sessions
  /\ registering \subseteq Sessions /\ announcing \subseteq Sessions
  /\ latest \in [Users -> Sessions \cup {NoSession}]
  /\ m_hash_uuid2node \in [Servers -> [Users -> Sessions \cup {NoSession}]]
  /\ m_hash_remoteClient2SvrName \in [Servers -> [Users -> Servers \cup {NoServer}]]
  /\ m_hash_Name2node \in [Servers -> SUBSET Servers]
  /\ evt_NewSvrConnected \in [Servers -> SUBSET Servers]
  /\ evt_NewSvrDisconnected \in [Servers -> SUBSET Servers]
  /\ wire \in [Ways -> Seq(Messages)]
  /\ dealing \in [Ways -> Messages \cup {NoMessage}]
  /\ late \in [Ways -> Seq(Seq(Messages))]
  /\ spoilt \subseteq Servers \X Users
  /\ faults \in Nat

\* Nothing is queued, on its way or in the hands of a worker.
Quiet ==
  /\ registering = {} /\ announcing = {}
  /\ \A l \in Ways : /\ wire[l] = <<>> /\ dealing[l] = NoMessage
                     /\ \A i \in DOMAIN late[l] : late[l][i] = <<>>
                     /\ l[1] \in m_hash_Name2node[l[2]] <=> Linked(l[1], l[2])
  /\ \A s \in Servers : evt_NewSvrConnected[s] = {} /\ evt_NewSvrDisconnected[s] = {}

\* At rest every server connected to the one that entered a user last sends what
\* is for him there, however logins, farewells and the ends of connections have
\* crossed, except where one of the known races has struck.
LatestKnown ==
  Quiet => \A l \in Ways, u \in Users :
             Home(u) = l[1] /\ Linked(l[1], l[2]) /\ <<l[2], u>> \notin spoilt
               => m_hash_remoteClient2SvrName[l[2]][u] = l[1]

\* At rest no server sends anything for a user to a server where he is not: he
\* is in its table with a client that is connected, or was entered when the end
\* of that client had been handled already, which regisitClientUUID overlooks.
NoGhost ==
  Quiet => \A l \in Ways, u \in Users :
             m_hash_remoteClient2SvrName[l[2]][u] = l[1] /\ <<l[2], u>> \notin spoilt
               => m_hash_uuid2node[l[1]][u] \in alive \cup overdue /\ Linked(l[1], l[2])

\* The users of a lost server vanish: an entry names a registered server, or
\* its removal is queued, or it is known to have been made too late.
EntryAccounted ==
  \A l \in Ways, u \in Users :
    m_hash_remoteClient2SvrName[l[2]][u] = l[1] =>
      \/ l[1] \in m_hash_Name2node[l[2]]
      \/ l[1] \in evt_NewSvrDisconnected[l[2]]
      \/ <<l[2], u>> \in spoilt
=============================================================================
