------------------------- MODULE UserDirectory_proofs -------------------------
(* The users of a lost server vanish from the directories of the others,   *)
(* and at rest a directory says where its users are, for any number of     *)
(* servers, users and clients and any faults.                              *)
EXTENDS UserDirectory, TLAPS

-----------------------------------------------------------------------------
(* Types.  A session that is spoken of has logged in somewhere.            *)

LoginInv == \A c \in alive \cup registering \cup announcing : who[c] \in Place

\* What a worker has in hand of a present connection is from a registered server.
DealingInv ==
  \A s, t \in Servers :
    <<s, t>> \in Ways /\ dealing[<<s, t>>] # NoMessage => s \in m_hash_Name2node[t]

IInv == TypeOK /\ LoginInv /\ DealingInv /\ EntryAccounted

\* What the servers send each other.
LEMMA MessageFacts ==
  /\ Hello \in Messages
  /\ \A us \in SUBSET Users : LoggedIn(us) \in Messages /\ Exited(us) \in Messages
  /\ \A m \in Messages : m.users \subseteq Users
<1>1. /\ Hello.users \subseteq Users
      /\ \A us \in SUBSET Users : /\ LoggedIn(us).users \subseteq Users
                                  /\ Exited(us).users \subseteq Users
  BY DEF Hello, LoggedIn, Exited
<1>2. QED
  BY <1>1 DEF Messages

LEMMA WayFacts ==
  /\ \A l \in Ways : l[1] \in Servers /\ l[2] \in Servers /\ l = <<l[1], l[2]>>
  /\ \A s, t : <<s, t>> \in Ways => /\ <<t, s>> \in Ways
                                    /\ s \in Servers /\ t \in Servers
<1>1. \A s, t : {s, t} = {t, s}
  OBVIOUS
<1>2. QED
  BY <1>1 DEF Ways

LEMMA WhoFacts == Nowhere \notin Place /\ \A p \in Place : p.svr \in Servers /\ p.uid \in Users
BY DirectoryAssumption DEF Nowhere, Place

\* Sending appends to what is on its way.
LEMMA SendType ==
  ASSUME TypeOK, NEW s, NEW to, NEW m \in Messages
  PROVE  SendDataToRemoteServer(s, to, m) \in [Ways -> Seq(Messages)]
<1>1. \A q \in Seq(Messages) : Append(q, m) \in Seq(Messages)
  OBVIOUS
<1>2. \A l \in Ways : wire[l] \in Seq(Messages)
  BY DEF TypeOK
<1>3. QED
  BY <1>1, <1>2 DEF SendDataToRemoteServer

\* What is taken from a sequence of messages.
LEMMA TakeType ==
  ASSUME TypeOK, NEW l \in Ways, wire[l] # <<>>
  PROVE  /\ Head(wire[l]) \in Messages
         /\ [wire EXCEPT ![l] = Tail(@)] \in [Ways -> Seq(Messages)]
<1>1. wire[l] \in Seq(Messages)
  BY DEF TypeOK
<1>2. Head(wire[l]) \in Messages /\ Tail(wire[l]) \in Seq(Messages)
  BY <1>1
<1>3. QED
  BY <1>2 DEF TypeOK

\* What a worker of a former connection takes.
LEMMA LateType ==
  ASSUME TypeOK, NEW l \in Ways, NEW i \in DOMAIN late[l], late[l][i] # <<>>
  PROVE  /\ Head(late[l][i]) \in Messages
         /\ [late EXCEPT ![l][i] = Tail(@)] \in [Ways -> Seq(Seq(Messages))]
<1>1. late[l] \in Seq(Seq(Messages)) /\ late \in [Ways -> Seq(Seq(Messages))]
  BY DEF TypeOK
<1>2. late[l][i] \in Seq(Messages)
  BY <1>1
<1>3. Head(late[l][i]) \in Messages /\ Tail(late[l][i]) \in Seq(Messages)
  BY <1>2
<1>4. [late[l] EXCEPT ![i] = Tail(@)] \in Seq(Seq(Messages))
  BY <1>1, <1>3
<1>5. QED
  BY <1>1, <1>3, <1>4

\* What such a worker is left with.
LEMMA StillType ==
  ASSUME TypeOK, NEW s, NEW t, <<s, t>> \in Ways, NEW q \in StillApplied(s, t)
  PROVE  [late EXCEPT ![<<s, t>>] = Append(@, q)] \in [Ways -> Seq(Seq(Messages))]
<1> DEFINE l == <<s, t>>
           inHand == IF dealing[l] = NoMessage THEN <<>> ELSE <<dealing[l]>>
<1>1. wire[l] \in Seq(Messages) /\ late[l] \in Seq(Seq(Messages))
  BY DEF TypeOK
<1>2. inHand \in Seq(Messages)
  BY DEF TypeOK
<1>3. PICK n \in 0..Len(wire[l]) : q = inHand \o SubSeq(wire[l], 1, n)
  BY DEF StillApplied
<1>4. SubSeq(wire[l], 1, n) \in Seq(Messages)
  BY <1>1
<1>5. q \in Seq(Messages)
  BY <1>2, <1>3, <1>4
<1>6. Append(late[l], q) \in Seq(Seq(Messages))
  BY <1>1, <1>5
<1>7. QED
  BY <1>6 DEF TypeOK

LEMMA InitInv == Init => IInv
<1> SUFFICES ASSUME Init PROVE IInv
  OBVIOUS
<1>1. /\ m_hash_Name2node \in [Servers -> SUBSET Servers]
      /\ wire \in [Ways -> Seq(Messages)] /\ late \in [Ways -> Seq(Seq(Messages))]
  BY DEF Init
<1>2. TypeOK
  BY <1>1, DirectoryAssumption DEF Init, TypeOK
<1>3. LoginInv /\ DealingInv
  BY DEF Init, LoginInv, DealingInv
<1>4. EntryAccounted
  BY WayFacts, DirectoryAssumption DEF Init, EntryAccounted
<1>5. QED
  BY <1>2, <1>3, <1>4 DEF IInv

-----------------------------------------------------------------------------
(* A step that neither enters a user into a directory, nor takes a message *)
(* or loses a server, keeps what DealingInv and EntryAccounted say.        *)

LEMMA ElsewhereInv ==
  ASSUME IInv, TypeOK', LoginInv', UNCHANGED <<m_hash_remoteClient2SvrName, dealing>>,
         \A t \in Servers : m_hash_Name2node[t] \subseteq m_hash_Name2node'[t],
         \A t \in Servers : evt_NewSvrDisconnected[t] \subseteq evt_NewSvrDisconnected'[t],
         spoilt \subseteq spoilt'
  PROVE  IInv'
<1> USE DEF IInv
<1>1. DealingInv'
  BY DEF DealingInv
<1>2. EntryAccounted'
  BY WayFacts DEF EntryAccounted
<1>3. QED
  BY <1>1, <1>2

\* Clients log in, are entered, are announced and leave.
LEMMA ClientInv ==
  ASSUME IInv, NEW c \in Sessions,
         \/ LoginClient(c) \/ regisitClientUUID(c) \/ AnnounceUUID(c)
         \/ on_evt_ClientDisconnected(c)
  PROVE  IInv'
<1> DEFINE s == who[c].svr
           u == who[c].uid
<1> USE DEF IInv
<1>1. UNCHANGED <<m_hash_remoteClient2SvrName, dealing, m_hash_Name2node,
                  evt_NewSvrDisconnected>>
  BY DEF LoginClient, regisitClientUUID, AnnounceUUID, on_evt_ClientDisconnected, tables,
         cluster, traffic
<1>2. CASE LoginClient(c)
  <2>1. PICK t \in Hosts, v \in Users : who' = [who EXCEPT ![c] = [svr |-> t, uid |-> v]]
    BY <1>2 DEF LoginClient
  <2>2. [svr |-> t, uid |-> v] \in Place
    BY DirectoryAssumption DEF Place
  <2>3. TypeOK'
    BY <1>2, <2>1, <2>2 DEF LoginClient, TypeOK, tables, cluster, traffic
  <2>4. LoginInv' /\ spoilt' = spoilt
    BY <1>2, <2>1, <2>2 DEF LoginClient, TypeOK, LoginInv
  <2>5. QED
    BY <1>1, <2>3, <2>4, ElsewhereInv
<1>a. CASE regisitClientUUID(c)
  <2>1. s \in Servers /\ u \in Users
    BY <1>a, WhoFacts DEF regisitClientUUID, LoginInv
  <2>2. TypeOK'
    BY <1>a, <2>1 DEF regisitClientUUID, TypeOK, cluster, traffic
  <2>3. LoginInv' /\ spoilt' = spoilt
    BY <1>a DEF regisitClientUUID, LoginInv
  <2>4. QED
    BY <1>1, <2>2, <2>3, ElsewhereInv
<1>3. CASE AnnounceUUID(c)
  <2>1. s \in Servers /\ u \in Users
    BY <1>3, WhoFacts DEF AnnounceUUID, LoginInv
  <2>2. wire' \in [Ways -> Seq(Messages)]
    BY <1>3, <2>1, SendType, MessageFacts DEF AnnounceUUID, broadcast_client_uuid
  <2>3. spoilt \subseteq spoilt' /\ spoilt' \subseteq Servers \X Users
    BY <1>3, <2>1 DEF AnnounceUUID, TypeOK
  <2>4. TypeOK'
    BY <1>3, <2>2, <2>3 DEF AnnounceUUID, TypeOK, tables, cluster
  <2>5. LoginInv'
    BY <1>3 DEF AnnounceUUID, LoginInv
  <2>6. QED
    BY <1>1, <2>3, <2>4, <2>5, ElsewhereInv
<1>4. CASE on_evt_ClientDisconnected(c)
  <2>1. s \in Servers /\ u \in Users
    BY <1>4, WhoFacts DEF on_evt_ClientDisconnected, LoginInv
  <2>2. wire' \in [Ways -> Seq(Messages)]
    BY <1>4, <2>1, SendType, MessageFacts
       DEF on_evt_ClientDisconnected, broadcast_client_uuid, TypeOK
  <2>3. m_hash_uuid2node' \in [Servers -> [Users -> Sessions \cup {NoSession}]]
    BY <1>4, <2>1 DEF on_evt_ClientDisconnected, TypeOK
  <2>4. TypeOK'
    BY <1>4, <2>2, <2>3 DEF on_evt_ClientDisconnected, TypeOK, cluster
  <2>5. LoginInv' /\ spoilt' = spoilt
    BY <1>4 DEF on_evt_ClientDisconnected, LoginInv
  <2>6. QED
    BY <1>1, <2>4, <2>5, ElsewhereInv
<1>5. QED
  BY <1>2, <1>a, <1>3, <1>4

\* Connections come and go, and servers register with each other.
LEMMA ConnectionInv ==
  ASSUME IInv, NEW s \in Servers, NEW t \in Servers, <<s, t>> \in Ways,
         \/ Connect(s, t) \/ Break(s, t) \/ regisitNewServer(s, t)
         \/ on_evt_NewSvrConnected(s, t)
  PROVE  IInv'
<1> USE WayFacts, MessageFacts DEF IInv
<1>1. /\ UNCHANGED <<m_hash_remoteClient2SvrName, dealing, evt_NewSvrDisconnected, spoilt>>
      /\ \A r \in Servers : m_hash_Name2node[r] \subseteq m_hash_Name2node'[r]
  BY DEF Connect, Break, regisitNewServer, on_evt_NewSvrConnected, tables, traffic, TypeOK
<1>2. LoginInv'
  BY DEF Connect, Break, regisitNewServer, on_evt_NewSvrConnected, clients, LoginInv
<1>3. CASE Connect(s, t)
  <2>1. <<Hello>> \in Seq(Messages)
    OBVIOUS
  <2>2. wire' \in [Ways -> Seq(Messages)]
    BY <1>3, <2>1 DEF Connect, TypeOK
  <2>3. TypeOK'
    BY <1>3, <2>2 DEF Connect, TypeOK, clients, tables
  <2>4. QED
    BY <1>1, <1>2, <2>3, ElsewhereInv
<1>4. CASE Break(s, t)
  <2>1. TypeOK'
    BY <1>4 DEF Break, TypeOK, clients, tables, traffic
  <2>2. QED
    BY <1>1, <1>2, <2>1, ElsewhereInv
<1>5. CASE regisitNewServer(s, t)
  <2>1. wire' \in [Ways -> Seq(Messages)]
    BY <1>5, TakeType DEF regisitNewServer
  <2>2. TypeOK'
    BY <1>5, <2>1 DEF regisitNewServer, TypeOK, clients, tables
  <2>3. QED
    BY <1>1, <1>2, <2>2, ElsewhereInv
<1>6. CASE on_evt_NewSvrConnected(s, t)
  <2>1. Here(s) \in SUBSET Users
    BY DEF Here
  <2>2. wire' \in [Ways -> Seq(Messages)]
    BY <1>6, <2>1, SendType DEF on_evt_NewSvrConnected, TypeOK
  <2>3. TypeOK'
    BY <1>6, <2>2 DEF on_evt_NewSvrConnected, TypeOK, clients, tables
  <2>4. QED
    BY <1>1, <1>2, <2>3, ElsewhereInv
<1>7. QED
  BY <1>3, <1>4, <1>5, <1>6

-----------------------------------------------------------------------------
(* A server is lost.                                                       *)

LEMMA LossInv ==
  ASSUME IInv, NEW s \in Servers, NEW t \in Servers, <<s, t>> \in Ways,
         ServerDisconnected(t, s)
  PROVE  IInv'
<1> USE WayFacts DEF IInv
<1>1. /\ UNCHANGED <<clients, tables, links, evt_NewSvrConnected, spoilt, faults>>
      /\ m_hash_Name2node' = [m_hash_Name2node EXCEPT ![t] = @ \ {s}]
      /\ evt_NewSvrDisconnected' = [evt_NewSvrDisconnected EXCEPT ![t] = @ \cup {s}]
      /\ dealing' = [dealing EXCEPT ![<<s, t>>] = NoMessage]
      /\ wire' = [wire EXCEPT ![<<s, t>>] = <<>>]
  BY DEF ServerDisconnected
<1>2. late' \in [Ways -> Seq(Seq(Messages))]
  BY StillType DEF ServerDisconnected
<1>a. wire' \in [Ways -> Seq(Messages)] /\ dealing' \in [Ways -> Messages \cup {NoMessage}]
  BY <1>1 DEF TypeOK
<1>b. /\ m_hash_Name2node' \in [Servers -> SUBSET Servers]
      /\ evt_NewSvrDisconnected' \in [Servers -> SUBSET Servers]
  BY <1>1 DEF TypeOK
<1>3. TypeOK'
  BY <1>1, <1>2, <1>a, <1>b DEF TypeOK, clients, tables
<1>4. LoginInv'
  BY <1>1 DEF LoginInv, clients
<1>5. \A q, r \in Servers : <<q, r>> \in Ways =>
        dealing'[<<q, r>>] = IF q = s /\ r = t THEN NoMessage ELSE dealing[<<q, r>>]
  BY <1>1 DEF TypeOK
<1>6. \A q, r \in Servers : q \in m_hash_Name2node[r] =>
        q \in m_hash_Name2node'[r] \/ (q = s /\ r = t)
  BY <1>1 DEF TypeOK
<1>7. DealingInv'
  BY <1>1, <1>5, <1>6 DEF DealingInv
<1>8. EntryAccounted'
  <2>1. \A r \in Servers : evt_NewSvrDisconnected[r] \subseteq evt_NewSvrDisconnected'[r]
    BY <1>1 DEF TypeOK
  <2>2. s \in evt_NewSvrDisconnected'[t]
    BY <1>1 DEF TypeOK
  <2>3. m_hash_remoteClient2SvrName' = m_hash_remoteClient2SvrName /\ spoilt \subseteq spoilt'
    BY <1>1 DEF tables
  <2>4. QED
    BY <1>6, <2>1, <2>2, <2>3 DEF EntryAccounted
<1>9. QED
  BY <1>3, <1>4, <1>7, <1>8

\* The users of a lost server are forgotten before the report of its loss is.
LEMMA ForgetInv ==
  ASSUME IInv, NEW s \in Servers, NEW t \in Servers, on_evt_NewSvrDisconnected(t, s)
  PROVE  IInv'
<1> DEFINE gone == {u \in Users : m_hash_remoteClient2SvrName[t][u] = s}
<1> USE WayFacts, DirectoryAssumption DEF IInv
<1>1. /\ UNCHANGED <<clients, m_hash_uuid2node, m_hash_Name2node, links,
                     evt_NewSvrConnected, traffic, faults>>
      /\ evt_NewSvrDisconnected' = [evt_NewSvrDisconnected EXCEPT ![t] = @ \ {s}]
      /\ m_hash_remoteClient2SvrName' =
           [m_hash_remoteClient2SvrName EXCEPT
              ![t] = [u \in Users |-> IF u \in gone THEN NoServer ELSE @[u]]]
      /\ spoilt' = spoilt \cup (IF s \in m_hash_Name2node[t] THEN {t} \X gone ELSE {})
  BY DEF on_evt_NewSvrDisconnected
<1>2. spoilt \subseteq spoilt' /\ spoilt' \subseteq Servers \X Users
  BY <1>1 DEF TypeOK
<1>3. TypeOK'
  BY <1>1, <1>2 DEF TypeOK, clients, traffic
<1>4. LoginInv'
  BY <1>1 DEF LoginInv, clients
<1>5. DealingInv'
  BY <1>1 DEF DealingInv, traffic
<1>6. ASSUME NEW q \in Servers, NEW r \in Servers, NEW u \in Users, <<q, r>> \in Ways,
             m_hash_remoteClient2SvrName'[r][u] = q
      PROVE  /\ m_hash_remoteClient2SvrName[r][u] = q
             /\ q \in evt_NewSvrDisconnected[r] => q \in evt_NewSvrDisconnected'[r]
  BY <1>1, <1>6 DEF TypeOK
<1>7. EntryAccounted'
  BY <1>1, <1>2, <1>6 DEF EntryAccounted
<1>8. QED
  BY <1>3, <1>4, <1>5, <1>7

-----------------------------------------------------------------------------
(* Messages.  Only what the worker of a former connection applies behind   *)
(* the purge leaves an entry behind that nobody removes.                   *)

LEMMA TakeInv ==
  ASSUME IInv, NEW s \in Servers, NEW t \in Servers, <<s, t>> \in Ways, TakeMessage(s, t)
  PROVE  IInv'
<1> DEFINE l == <<s, t>>
<1> USE WayFacts DEF IInv
<1>1. /\ s \in m_hash_Name2node[t] /\ wire[l] # <<>>
      /\ dealing' = [dealing EXCEPT ![l] = Head(wire[l])]
      /\ wire' = [wire EXCEPT ![l] = Tail(@)]
      /\ UNCHANGED <<clients, tables, cluster, late, spoilt, faults>>
  BY DEF TakeMessage
<1>2. TypeOK'
  BY <1>1, TakeType DEF TypeOK, clients, tables, cluster
<1>3. LoginInv' /\ EntryAccounted'
  BY <1>1 DEF LoginInv, EntryAccounted, clients, tables, cluster
<1>4. ASSUME NEW q \in Servers, NEW r \in Servers, <<q, r>> \in Ways, <<q, r>> # l
      PROVE  dealing'[<<q, r>>] = dealing[<<q, r>>]
  BY <1>1, <1>4 DEF TypeOK
<1>5. DealingInv'
  BY <1>1, <1>4 DEF DealingInv, cluster
<1>6. QED
  BY <1>2, <1>3, <1>5

\* What a message does to the directory, in one lemma for all of them: some users
\* get the entry e, whose removal is sure or which is known to be made too late.
LEMMA ApplyInv ==
  ASSUME IInv, TypeOK', NEW s \in Servers, NEW t \in Servers,
         NEW us \in SUBSET Users, NEW e \in {s, NoServer}, SetEntries(t, us, e),
         \A q, r \in Servers : <<q, r>> \in Ways =>
           dealing'[<<q, r>>] \in {dealing[<<q, r>>], NoMessage},
         spoilt \subseteq spoilt',
         \/ e = NoServer
         \/ s \in m_hash_Name2node[t] \cup evt_NewSvrDisconnected[t]
         \/ {t} \X us \subseteq spoilt',
         UNCHANGED <<clients, cluster>>
  PROVE  IInv'
<1> USE WayFacts, DirectoryAssumption DEF IInv
<1>1. LoginInv'
  BY DEF LoginInv, clients
<1>2. UNCHANGED <<m_hash_Name2node, evt_NewSvrDisconnected>>
  BY DEF cluster
<1>3. DealingInv'
  BY <1>2 DEF DealingInv
<1>4. ASSUME NEW q \in Servers, NEW r \in Servers, NEW u \in Users, <<q, r>> \in Ways,
             m_hash_remoteClient2SvrName'[r][u] = q
      PROVE  \/ q \in m_hash_Name2node[r] \/ q \in evt_NewSvrDisconnected[r]
             \/ <<r, u>> \in spoilt'
  <2>1. CASE r = t /\ u \in us
    <3>1. q = e
      BY <1>4, <2>1 DEF TypeOK, SetEntries
    <3>2. q = s /\ e # NoServer
      BY <3>1
    <3>3. QED
      BY <2>1, <3>2
  <2>2. CASE ~(r = t /\ u \in us)
    <3>1. m_hash_remoteClient2SvrName[r][u] = q
      BY <1>4, <2>2 DEF TypeOK, SetEntries
    <3>2. QED
      BY <1>4, <3>1 DEF EntryAccounted
  <2>3. QED
    BY <2>1, <2>2
<1>5. EntryAccounted'
  BY <1>2, <1>4 DEF EntryAccounted
<1>6. QED
  BY <1>1, <1>3, <1>5

\* Which users a message spoils.
LEMMA SpoiltType ==
  ASSUME NEW t \in Servers, NEW us \in SUBSET Users, NEW s
  PROVE  /\ Moved(us, s) \subseteq us /\ Entered(us, t) \subseteq us
         /\ Foreign(us, s, t) \subseteq us
         /\ \A bad \in SUBSET us : {<<t, u>> : u \in bad} \subseteq Servers \X Users
BY DEF Moved, Entered, Foreign

\* An entry is a server or none.
LEMMA EntriesType ==
  ASSUME TypeOK, NEW t \in Servers, NEW us, NEW e \in Servers \cup {NoServer},
         SetEntries(t, us, e)
  PROVE  m_hash_remoteClient2SvrName' \in [Servers -> [Users -> Servers \cup {NoServer}]]
BY DEF TypeOK, SetEntries

LEMMA MessageInv ==
  ASSUME IInv, NEW s \in Servers, NEW t \in Servers, <<s, t>> \in Ways,
         cross_svr_add_uuids(s, t) \/ cross_svr_del_uuids(s, t)
  PROVE  IInv'
<1> DEFINE us == dealing[<<s, t>>].users
<1>1. TypeOK /\ DealingInv
  BY DEF IInv
<1>2. /\ dealing[<<s, t>>] # NoMessage
      /\ dealing' = [dealing EXCEPT ![<<s, t>>] = NoMessage]
      /\ UNCHANGED <<clients, m_hash_uuid2node, cluster, wire, late, faults>>
  BY DEF cross_svr_add_uuids, cross_svr_del_uuids
<1>3. us \in SUBSET Users
  BY <1>1, <1>2, MessageFacts DEF TypeOK
<1>4. PICK e \in {s, NoServer} : SetEntries(t, us, e)
  BY DEF cross_svr_add_uuids, cross_svr_del_uuids
<1>5. spoilt \subseteq spoilt' /\ spoilt' \subseteq Servers \X Users
  <2>1. PICK bad \in SUBSET us : spoilt' = spoilt \cup {<<t, u>> : u \in bad}
    BY <1>3, SpoiltType DEF cross_svr_add_uuids, cross_svr_del_uuids
  <2>2. {<<t, u>> : u \in bad} \subseteq Servers \X Users
    BY <1>3, SpoiltType
  <2>3. QED
    BY <1>1, <2>1, <2>2 DEF TypeOK
<1>6. m_hash_remoteClient2SvrName' \in [Servers -> [Users -> Servers \cup {NoServer}]]
  BY <1>1, <1>3, <1>4, EntriesType
<1>7. TypeOK'
  BY <1>1, <1>2, <1>5, <1>6 DEF TypeOK, clients, cluster
<1>8. \A q, r \in Servers : <<q, r>> \in Ways =>
        dealing'[<<q, r>>] \in {dealing[<<q, r>>], NoMessage}
  BY <1>1, <1>2 DEF TypeOK
<1>9. s \in m_hash_Name2node[t]
  BY <1>1, <1>2 DEF DealingInv
<1>10. QED
  BY <1>2, <1>3, <1>4, <1>5, <1>7, <1>8, <1>9, ApplyInv

\* What has come too late is known to have, unless the purge is still to come.
LEMMA LateInv ==
  ASSUME IInv, NEW s \in Servers, NEW t \in Servers, <<s, t>> \in Ways, LateMessage(s, t)
  PROVE  IInv'
<1>1. TypeOK
  BY DEF IInv
<1>2. PICK i \in DOMAIN late[<<s, t>>] :
        LET q == late[<<s, t>>][i]
            us == Head(q).users
        IN
          /\ q # <<>>
          /\ late' = [late EXCEPT ![<<s, t>>][i] = Tail(@)]
          /\ \/ /\ Head(q).kind = "0x01"
                /\ SetEntries(t, us, s)
                /\ spoilt' = spoilt \cup {<<t, u>> : u \in
                     IF s \in evt_NewSvrDisconnected[t] THEN Moved(us, s) ELSE us}
             \/ /\ Head(q).kind = "0x02"
                /\ SetEntries(t, us, NoServer)
                /\ spoilt' = spoilt \cup {<<t, u>> : u \in
                     IF s \in m_hash_Name2node[t] THEN Entered(us, t)
                     ELSE Foreign(us, s, t)}
          /\ UNCHANGED <<clients, m_hash_uuid2node, cluster, wire, dealing, faults>>
  BY DEF LateMessage
<1> DEFINE q == late[<<s, t>>][i]
           us == Head(q).users
<1>3. /\ Head(q) \in Messages
      /\ late' \in [Ways -> Seq(Seq(Messages))]
  BY <1>1, <1>2, LateType
<1>4. us \in SUBSET Users
  BY <1>3, MessageFacts
<1> HIDE DEF q
<1>5. \E e \in {s, NoServer} :
        /\ SetEntries(t, us, e)
        /\ \/ e = NoServer
           \/ s \in m_hash_Name2node[t] \cup evt_NewSvrDisconnected[t]
           \/ {t} \X us \subseteq spoilt'
  BY <1>2 DEF q
<1>6. spoilt \subseteq spoilt' /\ spoilt' \subseteq Servers \X Users
  <2>1. PICK bad \in SUBSET us : spoilt' = spoilt \cup {<<t, u>> : u \in bad}
    BY <1>2, <1>4, SpoiltType DEF q
  <2>2. {<<t, u>> : u \in bad} \subseteq Servers \X Users
    BY <1>4, SpoiltType
  <2>3. QED
    BY <1>1, <2>1, <2>2 DEF TypeOK
<1>7. PICK e \in {s, NoServer} :
        /\ SetEntries(t, us, e)
        /\ \/ e = NoServer
           \/ s \in m_hash_Name2node[t] \cup evt_NewSvrDisconnected[t]
           \/ {t} \X us \subseteq spoilt'
  BY <1>5
<1>8. m_hash_remoteClient2SvrName' \in [Servers -> [Users -> Servers \cup {NoServer}]]
  BY <1>1, <1>4, <1>7, EntriesType
<1>9. UNCHANGED <<clients, m_hash_uuid2node, cluster, wire, dealing, faults>>
  BY <1>2
<1>10. TypeOK'
  BY <1>1, <1>3, <1>6, <1>8, <1>9 DEF TypeOK, clients, cluster
<1>11. QED
  BY <1>4, <1>6, <1>7, <1>9, <1>10, ApplyInv

\* A server that starts again has no directory.
LEMMA CrashInv ==
  ASSUME IInv, NEW s \in Servers, Crash(s)
  PROVE  IInv'
<1> USE WayFacts, DirectoryAssumption DEF IInv
<1>1. /\ m_hash_remoteClient2SvrName' =
           [m_hash_remoteClient2SvrName EXCEPT ![s] = [u \in Users |-> NoServer]]
      /\ m_hash_Name2node' = [m_hash_Name2node EXCEPT ![s] = {}]
      /\ evt_NewSvrDisconnected' = [evt_NewSvrDisconnected EXCEPT ![s] = {}]
      /\ dealing' = [l \in Ways |-> IF l[2] = s THEN NoMessage ELSE dealing[l]]
      /\ wire' = [l \in Ways |-> IF l[2] = s THEN <<>> ELSE wire[l]]
      /\ late' = [l \in Ways |-> IF l[2] = s THEN <<>> ELSE late[l]]
      /\ spoilt' = spoilt
  BY DEF Crash
<1>2. wire' \in [Ways -> Seq(Messages)] /\ late' \in [Ways -> Seq(Seq(Messages))]
  BY <1>1 DEF TypeOK
<1>3. TypeOK'
  BY <1>1, <1>2 DEF Crash, TypeOK
<1>4. LoginInv'
  BY DEF Crash, LoginInv
<1>5. ASSUME NEW q \in Servers, NEW r \in Servers, <<q, r>> \in Ways, r # s
      PROVE  UNCHANGED <<m_hash_remoteClient2SvrName[r], m_hash_Name2node[r],
                         evt_NewSvrDisconnected[r], dealing[<<q, r>>]>>
  BY <1>1, <1>5 DEF TypeOK
<1>6. \A q \in Servers : <<q, s>> \in Ways => dealing'[<<q, s>>] = NoMessage
  BY <1>1
<1>7. DealingInv'
  BY <1>1, <1>5, <1>6 DEF DealingInv
<1>8. \A u \in Users : m_hash_remoteClient2SvrName'[s][u] \notin Servers
  BY <1>1 DEF TypeOK
<1>9. EntryAccounted'
  BY <1>1, <1>5, <1>8 DEF EntryAccounted
<1>10. QED
  BY <1>3, <1>4, <1>7, <1>9

-----------------------------------------------------------------------------
(* What is on its way.  m is a message, q what is on its way from one      *)
(* server to another, d what a worker has taken of it and not yet applied. *)

Greets(m, u) == m.kind = "0x01" /\ u \in m.users
Leaves(m, u) == m.kind = "0x02" /\ u \in m.users

\* There is a farewell in q; there is a greeting with no farewell behind it.
Leave(q, u) == \E j \in 1..Len(q) : Leaves(q[j], u)
Greet(q, u) ==
  \E i \in 1..Len(q) :
    Greets(q[i], u) /\ ~ \E j \in 1..Len(q) : j > i /\ Leaves(q[j], u)

\* The same with what is being applied in front.
Goes(d, q, u) == Leave(q, u) \/ (d # NoMessage /\ Leaves(d, u))
Comes(d, q, u) == Greet(q, u) \/ (d # NoMessage /\ Greets(d, u) /\ ~Leave(q, u))

LEMMA KindFacts ==
  /\ \A m, u : ~(Greets(m, u) /\ Leaves(m, u))
  /\ \A u : ~Greets(Hello, u) /\ ~Leaves(Hello, u)
  /\ \A us, u : /\ Greets(LoggedIn(us), u) <=> u \in us
                /\ ~Leaves(LoggedIn(us), u)
                /\ Leaves(Exited(us), u) <=> u \in us
                /\ ~Greets(Exited(us), u)
BY DEF Greets, Leaves, Hello, LoggedIn, Exited

LEMMA SendOne ==
  ASSUME NEW q \in Seq(Messages), NEW m \in Messages, NEW u
  PROVE  /\ Leave(Append(q, m), u) <=> Leave(q, u) \/ Leaves(m, u)
         /\ Greet(Append(q, m), u) <=> Greets(m, u) \/ (Greet(q, u) /\ ~Leaves(m, u))
<1> DEFINE r == Append(q, m)
<1>1. /\ Len(q) \in Nat /\ Len(r) = Len(q) + 1
      /\ \A i \in 1..Len(q) : r[i] = q[i]
      /\ r[Len(q) + 1] = m
  OBVIOUS
<1>a. r = Append(q, m)
  OBVIOUS
<1> HIDE DEF r
<1>2. \A i : i \in 1..Len(r) <=> i \in 1..Len(q) \/ i = Len(q) + 1
  BY <1>1
<1>3. Leave(r, u) <=> Leave(q, u) \/ Leaves(m, u)
  BY <1>1, <1>2 DEF Leave
<1>4. Greets(m, u) => Greet(r, u)
  <2>1. Len(q) + 1 \in 1..Len(r) /\ \A j \in 1..Len(r) : ~(j > Len(q) + 1)
    BY <1>1
  <2>2. QED
    BY <1>1, <2>1 DEF Greet
<1>5. Greet(q, u) /\ ~Leaves(m, u) => Greet(r, u)
  BY <1>1, <1>2 DEF Greet
<1>6. ASSUME Greet(r, u) PROVE Greets(m, u) \/ (Greet(q, u) /\ ~Leaves(m, u))
  <2>1. PICK i \in 1..Len(r) :
          Greets(r[i], u) /\ ~ \E j \in 1..Len(r) : j > i /\ Leaves(r[j], u)
    BY <1>6 DEF Greet
  <2>2. CASE i = Len(q) + 1
    BY <1>1, <2>1, <2>2
  <2>3. CASE i \in 1..Len(q)
    <3>1. Greets(q[i], u) /\ ~Leaves(m, u)
      BY <1>1, <1>2, <2>1, <2>3
    <3>2. ~ \E j \in 1..Len(q) : j > i /\ Leaves(q[j], u)
      BY <1>1, <1>2, <2>1, <2>3
    <3>3. QED
      BY <2>3, <3>1, <3>2 DEF Greet
  <2>4. QED
    BY <1>2, <2>1, <2>2, <2>3
<1>7. QED
  BY <1>3, <1>4, <1>5, <1>6, <1>a

LEMMA TakeOne ==
  ASSUME NEW q \in Seq(Messages), q # <<>>, NEW u
  PROVE  /\ Leave(q, u) <=> Leaves(Head(q), u) \/ Leave(Tail(q), u)
         /\ Greet(q, u) <=> \/ Greet(Tail(q), u)
                            \/ Greets(Head(q), u) /\ ~Leave(Tail(q), u)
<1> DEFINE r == Tail(q)
           m == Head(q)
<1>1. /\ Len(r) \in Nat /\ Len(q) = Len(r) + 1 /\ q[1] = m
      /\ \A i \in 1..Len(r) : r[i] = q[i + 1]
  OBVIOUS
<1>a. r = Tail(q) /\ m = Head(q)
  OBVIOUS
<1> HIDE DEF r, m
<1>2. /\ \A i \in 1..Len(r) : i + 1 \in 1..Len(q)
      /\ \A i \in 1..Len(q) : i = 1 \/ (i - 1 \in 1..Len(r) /\ (i - 1) + 1 = i)
      /\ 1 \in 1..Len(q)
  BY <1>1
<1>3. \A i \in 1..Len(q) : i = 1 \/ (i - 1 \in 1..Len(r) /\ r[i - 1] = q[i])
  BY <1>1, <1>2
<1>4. Leave(q, u) <=> Leaves(m, u) \/ Leave(r, u)
  <2>1. Leave(r, u) => Leave(q, u)
    BY <1>1, <1>2 DEF Leave
  <2>2. Leaves(m, u) => Leave(q, u)
    BY <1>1, <1>2 DEF Leave
  <2>3. Leave(q, u) => Leaves(m, u) \/ Leave(r, u)
    BY <1>1, <1>3 DEF Leave
  <2>4. QED
    BY <2>1, <2>2, <2>3
<1>5. ASSUME Greet(r, u) PROVE Greet(q, u)
  <2>1. PICK i \in 1..Len(r) :
          Greets(r[i], u) /\ ~ \E j \in 1..Len(r) : j > i /\ Leaves(r[j], u)
    BY <1>5 DEF Greet
  <2>2. i + 1 \in 1..Len(q) /\ Greets(q[i + 1], u)
    BY <1>1, <1>2, <2>1
  <2>3. ASSUME NEW j \in 1..Len(q), j > i + 1, Leaves(q[j], u) PROVE FALSE
    <3>1. j - 1 \in 1..Len(r) /\ r[j - 1] = q[j] /\ j - 1 > i
      BY <1>3, <2>3
    <3>2. QED
      BY <2>1, <2>3, <3>1
  <2>4. QED
    BY <2>2, <2>3 DEF Greet
<1>6. ASSUME Greets(m, u), ~Leave(r, u) PROVE Greet(q, u)
  <2>1. ASSUME NEW j \in 1..Len(q), j > 1, Leaves(q[j], u) PROVE FALSE
    BY <1>3, <1>6, <2>1 DEF Leave
  <2>2. QED
    BY <1>1, <1>2, <1>6, <2>1 DEF Greet
<1>7. ASSUME Greet(q, u) PROVE Greet(r, u) \/ (Greets(m, u) /\ ~Leave(r, u))
  <2>1. PICK i \in 1..Len(q) :
          Greets(q[i], u) /\ ~ \E j \in 1..Len(q) : j > i /\ Leaves(q[j], u)
    BY <1>7 DEF Greet
  <2>2. CASE i = 1
    <3>1. ASSUME NEW j \in 1..Len(r), Leaves(r[j], u) PROVE FALSE
      <4>1. j + 1 \in 1..Len(q) /\ j + 1 > 1 /\ q[j + 1] = r[j]
        BY <1>1, <1>2
      <4>2. QED
        BY <2>1, <2>2, <3>1, <4>1
    <3>2. QED
      BY <1>1, <2>1, <2>2, <3>1 DEF Leave
  <2>3. CASE i # 1
    <3>1. i - 1 \in 1..Len(r) /\ r[i - 1] = q[i]
      BY <1>3, <2>3
    <3>2. ASSUME NEW j \in 1..Len(r), j > i - 1, Leaves(r[j], u) PROVE FALSE
      <4>1. j + 1 \in 1..Len(q) /\ j + 1 > i /\ q[j + 1] = r[j]
        BY <1>1, <1>2, <3>2
      <4>2. QED
        BY <2>1, <3>2, <4>1
    <3>3. QED
      BY <2>1, <3>1, <3>2 DEF Greet
  <2>4. QED
    BY <2>2, <2>3
<1>8. QED
  BY <1>4, <1>5, <1>6, <1>7, <1>a

\* Where only hellos are on their way nobody comes or goes.
LEMMA OnlyHello ==
  ASSUME NEW q, NEW u, \A i \in 1..Len(q) : q[i] = Hello
  PROVE  ~Greet(q, u) /\ ~Leave(q, u)
BY KindFacts DEF Greet, Leave

LEMMA Sent ==
  ASSUME NEW d, NEW q \in Seq(Messages), NEW m \in Messages, NEW u
  PROVE  /\ Goes(d, Append(q, m), u) <=> Goes(d, q, u) \/ Leaves(m, u)
         /\ Comes(d, Append(q, m), u) <=> Greets(m, u) \/ (Comes(d, q, u) /\ ~Leaves(m, u))
BY SendOne, KindFacts DEF Goes, Comes

LEMMA Taken ==
  ASSUME NEW q \in Seq(Messages), q # <<>>, NEW u
  PROVE  /\ Head(q) # NoMessage
         /\ Goes(Head(q), Tail(q), u) <=> Goes(NoMessage, q, u)
         /\ Comes(Head(q), Tail(q), u) <=> Comes(NoMessage, q, u)
<1>1. Head(q) # NoMessage
  BY MessageAssumption
<1>2. QED
  BY <1>1, TakeOne, KindFacts DEF Goes, Comes

-----------------------------------------------------------------------------
(* What a connected server knows, unless a race of the code has struck:    *)
(* s has its users, t a directory, u is the user.                          *)

Fresh(s, t, u) == Linked(s, t) /\ <<t, u>> \notin spoilt

\* The session with which a user has logged in last is entered at s.
At(u, s) == latest[u] # NoSession /\ m_hash_uuid2node[s][u] = latest[u]

Entry(s, t, u) == m_hash_remoteClient2SvrName[t][u] = s
Coming(s, t, u) == Comes(dealing[<<s, t>>], wire[<<s, t>>], u)
Going(s, t, u) == Goes(dealing[<<s, t>>], wire[<<s, t>>], u)

\* s has said hello and nothing else, and what there is of a former connection
\* is about to be forgotten.
Still(s, t, u) ==
  /\ \A i \in 1..Len(wire[<<s, t>>]) : wire[<<s, t>>][i] = Hello
  /\ dealing[<<s, t>>] = NoMessage
  /\ Entry(s, t, u) => s \in evt_NewSvrDisconnected[t]

\* A server sends nothing before the other one has registered.
Silent(s, t, u) == t \notin m_hash_Name2node[s] => Still(s, t, u)

\* Who is not at s leaves the directory: no greeting comes without a farewell
\* behind it, and an entry is about to go.
Ghost(s, t, u) ==
  m_hash_uuid2node[s][u] = NoSession =>
    /\ ~Coming(s, t, u)
    /\ Entry(s, t, u) => s \in evt_NewSvrDisconnected[t] \/ Going(s, t, u)

\* Who is at s gets into the directory: he will be announced, or all users of s
\* will be, or he is coming, or he is entered and stays so.
Told(s, t, u) ==
  At(u, s) =>
    \/ latest[u] \in announcing
    \/ t \notin m_hash_Name2node[s]
    \/ t \in evt_NewSvrConnected[s]
    \/ Coming(s, t, u)
    \/ Entry(s, t, u) /\ s \in m_hash_Name2node[t] /\ ~Going(s, t, u)

WayOK(s, t, u) == Silent(s, t, u) /\ Ghost(s, t, u) /\ Told(s, t, u)

WayInv ==
  \A s, t \in Servers, u \in Users :
    <<s, t>> \in Ways /\ Fresh(s, t, u) => WayOK(s, t, u)

\* A session that is entered has logged in as that user on that server.
SessionInv ==
  \A s \in Servers, u \in Users :
    m_hash_uuid2node[s][u] # NoSession =>
      who[m_hash_uuid2node[s][u]] = [svr |-> s, uid |-> u]

\* A session that is entered is connected, or was entered behind its end.
EnteredInv ==
  \A s \in Servers, u \in Users :
    m_hash_uuid2node[s][u] # NoSession => m_hash_uuid2node[s][u] \in alive \cup overdue

KnownInv == IInv /\ SessionInv /\ EnteredInv /\ WayInv

\* A way that a step does not touch.
LEMMA SameWay ==
  ASSUME NEW s, NEW t, NEW u, WayOK(s, t, u),
         wire'[<<s, t>>] = wire[<<s, t>>], dealing'[<<s, t>>] = dealing[<<s, t>>],
         t \in m_hash_Name2node'[s] <=> t \in m_hash_Name2node[s],
         s \in m_hash_Name2node[t] => s \in m_hash_Name2node'[t],
         t \in evt_NewSvrConnected[s] => t \in evt_NewSvrConnected'[s],
         s \in evt_NewSvrDisconnected[t] => s \in evt_NewSvrDisconnected'[t],
         Entry(s, t, u)' <=> Entry(s, t, u),
         m_hash_uuid2node'[s][u] = m_hash_uuid2node[s][u],
         latest'[u] = latest[u],
         At(u, s) /\ latest[u] \in announcing => latest'[u] \in announcing'
  PROVE  WayOK(s, t, u)'
<1>1. /\ Coming(s, t, u)' <=> Coming(s, t, u)
      /\ Going(s, t, u)' <=> Going(s, t, u)
  BY DEF Coming, Going
<1>2. At(u, s)' <=> At(u, s)
  BY DEF At
<1>3. Silent(s, t, u)'
  BY DEF WayOK, Silent, Still
<1>4. Ghost(s, t, u)'
  BY <1>1 DEF WayOK, Ghost
<1>5. Told(s, t, u)'
  BY <1>1, <1>2 DEF WayOK, Told
<1>6. QED
  BY <1>3, <1>4, <1>5 DEF WayOK

\* The type of what is on a way, for the lemmas about sending and taking.
LEMMA WayType ==
  ASSUME TypeOK, NEW s, NEW t, <<s, t>> \in Ways
  PROVE  wire[<<s, t>>] \in Seq(Messages)
BY DEF TypeOK

-----------------------------------------------------------------------------
(* Who is entered.                                                         *)

LEMMA SessionInit == Init => SessionInv /\ EnteredInv
BY DEF Init, SessionInv, EnteredInv

\* A session logs in once.
LEMMA EnteredOther ==
  ASSUME IInv, SessionInv, NEW c \in Sessions, who[c] = Nowhere,
         NEW s \in Servers, NEW u \in Users, m_hash_uuid2node[s][u] # NoSession
  PROVE  m_hash_uuid2node[s][u] \in Sessions /\ m_hash_uuid2node[s][u] # c
<1>1. m_hash_uuid2node[s][u] \in Sessions
  BY DEF IInv, TypeOK
<1>2. who[m_hash_uuid2node[s][u]] = [svr |-> s, uid |-> u]
  BY Zenon DEF SessionInv
<1>3. Nowhere # [svr |-> s, uid |-> u]
  BY DirectoryAssumption DEF Nowhere
<1>4. QED
  BY <1>1, <1>2, <1>3

\* What a worker enters: the session it holds, where that one has logged in.
LEMMA EnteredNow ==
  ASSUME IInv, NEW c \in Sessions, regisitClientUUID(c)
  PROVE  /\ who[c].svr \in Servers /\ who[c].uid \in Users
         /\ who[c] = [svr |-> who[c].svr, uid |-> who[c].uid]
         /\ \A s \in Servers, u \in Users :
              m_hash_uuid2node'[s][u] =
                IF s = who[c].svr /\ u = who[c].uid THEN c ELSE m_hash_uuid2node[s][u]
<1>1. who[c] \in Place
  BY DEF IInv, LoginInv, regisitClientUUID
<1>2. /\ who[c].svr \in Servers /\ who[c].uid \in Users
      /\ who[c] = [svr |-> who[c].svr, uid |-> who[c].uid]
  BY <1>1 DEF Place
<1>3. m_hash_uuid2node' = [m_hash_uuid2node EXCEPT ![who[c].svr][who[c].uid] = c]
  BY DEF regisitClientUUID
<1>4. QED
  BY <1>2, <1>3 DEF IInv, TypeOK

LEMMA SessionNext ==
  ASSUME IInv, SessionInv, [Next]_vars
  PROVE  SessionInv'
<1> USE DEF IInv
<1>1. ASSUME NEW c \in Sessions, LoginClient(c) PROVE SessionInv'
  <2>1. who[c] = Nowhere /\ m_hash_uuid2node' = m_hash_uuid2node
    BY <1>1 DEF LoginClient, tables
  <2>2. \A d \in Sessions : d # c => who'[d] = who[d]
    BY <1>1 DEF LoginClient, TypeOK
  <2>3. \A s \in Servers, u \in Users :
          m_hash_uuid2node[s][u] # NoSession =>
            m_hash_uuid2node[s][u] \in Sessions /\ m_hash_uuid2node[s][u] # c
    BY <2>1, EnteredOther
  <2>4. QED
    BY <2>1, <2>2, <2>3 DEF SessionInv
<1>a. ASSUME NEW c \in Sessions, regisitClientUUID(c) PROVE SessionInv'
  <2>1. who' = who
    BY <1>a DEF regisitClientUUID
  <2>2. SUFFICES ASSUME NEW s \in Servers, NEW u \in Users,
                        m_hash_uuid2node'[s][u] # NoSession
                 PROVE  who'[m_hash_uuid2node'[s][u]] = [svr |-> s, uid |-> u]
    BY DEF SessionInv
  <2>3. CASE s = who[c].svr /\ u = who[c].uid
    BY <1>a, <2>1, <2>3, EnteredNow
  <2>4. CASE ~(s = who[c].svr /\ u = who[c].uid)
    <3>1. \A r \in Servers, v \in Users :
            m_hash_uuid2node'[r][v] =
              IF r = who[c].svr /\ v = who[c].uid THEN c ELSE m_hash_uuid2node[r][v]
      BY <1>a, EnteredNow, Zenon
    <3>2. m_hash_uuid2node'[s][u] = m_hash_uuid2node[s][u]
      BY <2>2, <2>4, <3>1
    <3>3. who[m_hash_uuid2node[s][u]] = [svr |-> s, uid |-> u]
      BY <2>2, <3>2, Zenon DEF SessionInv
    <3>4. QED
      BY <2>1, <3>2, <3>3, Zenon
  <2>5. QED
    BY <2>3, <2>4
<1>2. ASSUME who' = who,
             \A s \in Servers, u \in Users :
               \/ m_hash_uuid2node'[s][u] = NoSession
               \/ m_hash_uuid2node'[s][u] = m_hash_uuid2node[s][u]
      PROVE  SessionInv'
  BY <1>2 DEF SessionInv
<1>3. ASSUME NEW c \in Sessions, on_evt_ClientDisconnected(c) PROVE SessionInv'
  <2>1. who[c].svr \in Servers /\ who[c].uid \in Users
    BY <1>3, WhoFacts DEF on_evt_ClientDisconnected, LoginInv
  <2>2. \A s \in Servers, u \in Users :
          \/ m_hash_uuid2node'[s][u] = NoSession
          \/ m_hash_uuid2node'[s][u] = m_hash_uuid2node[s][u]
    BY <1>3, <2>1 DEF on_evt_ClientDisconnected, TypeOK
  <2>3. QED
    BY <1>2, <1>3, <2>2 DEF on_evt_ClientDisconnected
<1>4. ASSUME NEW s \in Servers, Crash(s) PROVE SessionInv'
  <2>1. \A r \in Servers, u \in Users :
          \/ m_hash_uuid2node'[r][u] = NoSession
          \/ m_hash_uuid2node'[r][u] = m_hash_uuid2node[r][u]
    BY <1>4 DEF Crash, TypeOK
  <2>2. QED
    BY <1>2, <1>4, <2>1 DEF Crash
<1>5. ASSUME UNCHANGED <<who, m_hash_uuid2node>> PROVE SessionInv'
  BY <1>2, <1>5
<1>6. ASSUME NEW c \in Sessions, AnnounceUUID(c) PROVE SessionInv'
  BY <1>5, <1>6 DEF AnnounceUUID, tables
<1>7. ASSUME NEW l \in Ways,
             \/ Connect(l[1], l[2]) \/ Break(l[1], l[2])
             \/ regisitNewServer(l[1], l[2]) \/ ServerDisconnected(l[1], l[2])
             \/ on_evt_NewSvrConnected(l[1], l[2]) \/ on_evt_NewSvrDisconnected(l[1], l[2])
             \/ TakeMessage(l[1], l[2]) \/ LateMessage(l[1], l[2])
             \/ cross_svr_add_uuids(l[1], l[2]) \/ cross_svr_del_uuids(l[1], l[2])
      PROVE  SessionInv'
  <2>1. UNCHANGED <<who, m_hash_uuid2node>>
    BY <1>7 DEF Connect, Break, regisitNewServer, ServerDisconnected,
                on_evt_NewSvrConnected, on_evt_NewSvrDisconnected, TakeMessage, LateMessage,
                cross_svr_add_uuids, cross_svr_del_uuids, clients, tables
  <2>2. QED
    BY <1>5, <2>1
<1>8. CASE UNCHANGED vars
  BY <1>5, <1>8 DEF vars, clients, tables
<1>9. QED
  BY <1>1, <1>a, <1>3, <1>4, <1>6, <1>7, <1>8, Zenon DEF Next

\* The end of a client takes its entry along, and a server that ends all of its own.
LEMMA EnteredNext ==
  ASSUME IInv, SessionInv, EnteredInv, [Next]_vars
  PROVE  EnteredInv'
<1> USE DEF IInv
<1>1. ASSUME alive \cup overdue \subseteq alive' \cup overdue',
             m_hash_uuid2node' = m_hash_uuid2node
      PROVE  EnteredInv'
  BY <1>1 DEF EnteredInv
<1>2. ASSUME NEW c \in Sessions, LoginClient(c) \/ AnnounceUUID(c) PROVE EnteredInv'
  BY <1>1, <1>2 DEF LoginClient, AnnounceUUID, tables
<1>3. ASSUME NEW c \in Sessions, regisitClientUUID(c) PROVE EnteredInv'
  <2>1. alive' = alive /\ overdue' = overdue \cup ({c} \ alive)
    BY <1>3 DEF regisitClientUUID
  <2>2. \A s \in Servers, u \in Users :
          \/ m_hash_uuid2node'[s][u] = c
          \/ m_hash_uuid2node'[s][u] = m_hash_uuid2node[s][u]
    <3>1. \A s \in Servers, u \in Users :
            m_hash_uuid2node'[s][u] =
              IF s = who[c].svr /\ u = who[c].uid THEN c ELSE m_hash_uuid2node[s][u]
      BY <1>3, EnteredNow, Zenon
    <3>2. QED
      BY <3>1
  <2>3. alive \cup overdue \subseteq alive' \cup overdue' /\ c \in alive' \cup overdue'
    BY <2>1
  <2>4. SUFFICES ASSUME NEW s \in Servers, NEW u \in Users,
                        m_hash_uuid2node'[s][u] # NoSession
                 PROVE  m_hash_uuid2node'[s][u] \in alive' \cup overdue'
    BY DEF EnteredInv
  <2>5. QED
    BY <2>2, <2>3, <2>4 DEF EnteredInv
<1>4. ASSUME NEW c \in Sessions, on_evt_ClientDisconnected(c) PROVE EnteredInv'
  <2> DEFINE r == who[c].svr
             v == who[c].uid
  <2>1. r \in Servers /\ v \in Users
    BY <1>4, WhoFacts DEF on_evt_ClientDisconnected, LoginInv
  <2>2. /\ alive' = alive \ {c} /\ overdue' = overdue
        /\ m_hash_uuid2node' =
             IF m_hash_uuid2node[r][v] = c
             THEN [m_hash_uuid2node EXCEPT ![r][v] = NoSession] ELSE m_hash_uuid2node
    BY <1>4 DEF on_evt_ClientDisconnected
  <2>3. SUFFICES ASSUME NEW s \in Servers, NEW u \in Users,
                        m_hash_uuid2node'[s][u] # NoSession
                 PROVE  m_hash_uuid2node'[s][u] \in alive' \cup overdue'
    BY DEF EnteredInv
  <2>4. m_hash_uuid2node'[s][u] = m_hash_uuid2node[s][u]
    BY <2>1, <2>2, <2>3 DEF TypeOK
  <2>5. m_hash_uuid2node[s][u] # c
    <3>1. SUFFICES ASSUME m_hash_uuid2node[s][u] = c PROVE FALSE
      OBVIOUS
    <3>2. who[c] = [svr |-> s, uid |-> u]
      BY <2>3, <2>4, <3>1 DEF SessionInv
    <3>3. r = s /\ v = u
      BY <3>2
    <3>4. m_hash_uuid2node'[s][u] = NoSession
      BY <2>1, <2>2, <3>1, <3>3 DEF TypeOK
    <3>5. QED
      BY <2>3, <3>4
  <2>6. QED
    BY <2>2, <2>3, <2>4, <2>5 DEF EnteredInv
<1>5. ASSUME NEW a \in Servers, Crash(a) PROVE EnteredInv'
  <2>1. /\ alive' = alive \ {c \in Sessions : who[c].svr = a} /\ overdue' = overdue
        /\ m_hash_uuid2node' = [m_hash_uuid2node EXCEPT ![a] = [u \in Users |-> NoSession]]
    BY <1>5 DEF Crash
  <2>2. SUFFICES ASSUME NEW s \in Servers, NEW u \in Users,
                        m_hash_uuid2node'[s][u] # NoSession
                 PROVE  m_hash_uuid2node'[s][u] \in alive' \cup overdue'
    BY DEF EnteredInv
  <2>3. s # a /\ m_hash_uuid2node'[s][u] = m_hash_uuid2node[s][u]
    BY <2>1, <2>2 DEF TypeOK
  <2>4. who[m_hash_uuid2node[s][u]] = [svr |-> s, uid |-> u]
    BY <2>2, <2>3 DEF SessionInv
  <2>5. who[m_hash_uuid2node[s][u]].svr = s
    BY <2>4
  <2>6. QED
    BY <2>1, <2>2, <2>3, <2>5 DEF EnteredInv
<1>6. ASSUME NEW l \in Ways,
             \/ Connect(l[1], l[2]) \/ Break(l[1], l[2])
             \/ regisitNewServer(l[1], l[2]) \/ ServerDisconnected(l[1], l[2])
             \/ on_evt_NewSvrConnected(l[1], l[2]) \/ on_evt_NewSvrDisconnected(l[1], l[2])
             \/ TakeMessage(l[1], l[2]) \/ LateMessage(l[1], l[2])
             \/ cross_svr_add_uuids(l[1], l[2]) \/ cross_svr_del_uuids(l[1], l[2])
      PROVE  EnteredInv'
  <2>1. UNCHANGED <<alive, overdue, m_hash_uuid2node>>
    BY <1>6 DEF Connect, Break, regisitNewServer, ServerDisconnected,
                on_evt_NewSvrConnected, on_evt_NewSvrDisconnected, TakeMessage, LateMessage,
                cross_svr_add_uuids, cross_svr_del_uuids, clients, tables
  <2>2. QED
    BY <1>1, <2>1
<1>7. CASE UNCHANGED vars
  BY <1>1, <1>7 DEF vars, clients, tables
<1>8. QED
  BY <1>2, <1>3, <1>4, <1>5, <1>6, <1>7, Zenon DEF Next

LEMMA EnteredAs ==
  ASSUME SessionInv, NEW s \in Servers, NEW u \in Users, At(u, s)
  PROVE  who[latest[u]].svr = s /\ who[latest[u]].uid = u
<1>1. who[latest[u]] = [svr |-> s, uid |-> u]
  BY DEF SessionInv, At
<1>2. QED
  BY <1>1

-----------------------------------------------------------------------------
(* Clients.                                                                *)

\* A login alone is no news.
LEMMA LoginWay ==
  ASSUME KnownInv, NEW c \in Sessions, LoginClient(c),
         NEW s \in Servers, NEW t \in Servers, NEW u \in Users, <<s, t>> \in Ways,
         Fresh(s, t, u)'
  PROVE  WayOK(s, t, u)'
<1>1. UNCHANGED <<announcing, latest, tables, cluster, wire, dealing, spoilt>>
  BY DEF LoginClient, traffic
<1>2. WayOK(s, t, u) /\ (Entry(s, t, u)' <=> Entry(s, t, u))
  BY <1>1 DEF KnownInv, WayInv, Fresh, Linked, Entry, tables, cluster
<1>3. QED
  BY <1>1, <1>2, SameWay DEF tables, cluster

\* Who is entered will be announced.
LEMMA EnterWay ==
  ASSUME KnownInv, NEW c \in Sessions, regisitClientUUID(c),
         NEW s \in Servers, NEW t \in Servers, NEW u \in Users, <<s, t>> \in Ways,
         Fresh(s, t, u)'
  PROVE  WayOK(s, t, u)'
<1> DEFINE r == who[c].svr
           v == who[c].uid
<1> USE DEF KnownInv, IInv
<1>1. latest' = [latest EXCEPT ![v] = c]
  BY DEF regisitClientUUID
<1>2. /\ announcing' = announcing \cup {c}
      /\ UNCHANGED <<m_hash_remoteClient2SvrName, cluster, wire, dealing, spoilt>>
  BY DEF regisitClientUUID, traffic
<1>3. /\ m_hash_uuid2node'[s][u] =
           IF s = r /\ u = v THEN c ELSE m_hash_uuid2node[s][u]
      /\ latest'[u] = IF u = v THEN c ELSE latest[u]
  BY <1>1, EnteredNow DEF TypeOK
<1> HIDE DEF r, v
<1>5. WayOK(s, t, u)
  BY <1>2 DEF WayInv, Fresh, Linked, cluster
<1>6. Entry(s, t, u)' <=> Entry(s, t, u)
  BY <1>2 DEF Entry
<1>7. CASE u # v
  BY <1>2, <1>3, <1>5, <1>6, <1>7, SameWay DEF cluster
<1>8. CASE u = v
  <2>1. /\ Coming(s, t, u)' <=> Coming(s, t, u)
        /\ Going(s, t, u)' <=> Going(s, t, u)
    BY <1>2 DEF Coming, Going
  <2>2. Silent(s, t, u)'
    BY <1>2, <1>5, <1>6 DEF WayOK, Silent, Still, cluster
  <2>3. Ghost(s, t, u)'
    BY <1>2, <1>3, <1>5, <1>6, <2>1, DirectoryAssumption DEF WayOK, Ghost, cluster
  <2>4. latest'[u] \in announcing'
    BY <1>2, <1>3, <1>8
  <2>5. Told(s, t, u)'
    BY <2>4 DEF Told
  <2>6. QED
    BY <2>2, <2>3, <2>5 DEF WayOK
<1>9. QED
  BY <1>7, <1>8

\* A greeting reaches whom the user is not known to; nobody else notices it.
LEMMA AnnounceWay ==
  ASSUME KnownInv, NEW c \in Sessions, AnnounceUUID(c),
         NEW s \in Servers, NEW t \in Servers, NEW u \in Users, <<s, t>> \in Ways,
         Fresh(s, t, u)'
  PROVE  WayOK(s, t, u)'
<1> DEFINE r == who[c].svr
           v == who[c].uid
           m == LoggedIn({v})
<1> USE DEF KnownInv, IInv
<1>1. /\ r \in Servers /\ v \in Users
  BY WhoFacts DEF AnnounceUUID, LoginInv
<1>2. /\ announcing' = announcing \ {c}
      /\ wire' = SendDataToRemoteServer(r, m_hash_Name2node[r], m)
      /\ spoilt' = spoilt \cup
                   (IF v \in Here(r) THEN {} ELSE {<<q, v>> : q \in m_hash_Name2node[r]})
      /\ UNCHANGED <<latest, tables, cluster, dealing>>
  BY DEF AnnounceUUID, broadcast_client_uuid
<1>3. /\ m \in Messages
      /\ \A w : Greets(m, w) <=> w = v
      /\ \A w : ~Leaves(m, w)
  BY <1>1, MessageFacts, KindFacts
<1>4. wire'[<<s, t>>] =
        IF s = r /\ t \in m_hash_Name2node[r] /\ Linked(r, t)
        THEN Append(wire[<<s, t>>], m) ELSE wire[<<s, t>>]
  BY <1>2 DEF SendDataToRemoteServer
<1>a. m = LoggedIn({v}) /\ r = who[c].svr /\ v = who[c].uid
  OBVIOUS
<1> HIDE DEF m, r, v
<1>5. WayOK(s, t, u) /\ Linked(s, t)
  BY <1>2 DEF WayInv, Fresh, Linked, cluster
<1>6. /\ Entry(s, t, u)' <=> Entry(s, t, u)
      /\ At(u, s)' <=> At(u, s)
      /\ m_hash_uuid2node'[s][u] = m_hash_uuid2node[s][u]
  BY <1>2 DEF Entry, At, tables
<1>7. CASE s = r /\ t \in m_hash_Name2node[r]
  <2>1. wire'[<<s, t>>] = Append(wire[<<s, t>>], m) /\ wire[<<s, t>>] \in Seq(Messages)
    BY <1>4, <1>5, <1>7, WayType
  <2>2. /\ Coming(s, t, u)' <=> u = v \/ Coming(s, t, u)
        /\ Going(s, t, u)' <=> Going(s, t, u)
    BY <1>2, <1>3, <2>1, Sent DEF Coming, Going
  <2>3. Silent(s, t, u)'
    BY <1>2, <1>7 DEF Silent, cluster
  <2>4. u = v => m_hash_uuid2node[s][u] # NoSession
    BY <1>2, <1>7 DEF Fresh, Here
  <2>5. Ghost(s, t, u)'
    BY <1>2, <1>5, <1>6, <2>2, <2>4 DEF WayOK, Ghost, cluster
  <2>6. At(u, s) /\ latest[u] = c => u = v
    BY <1>7, <1>a, EnteredAs
  <2>7. Told(s, t, u)'
    BY <1>2, <1>5, <1>6, <2>2, <2>6 DEF WayOK, Told, cluster
  <2>8. QED
    BY <2>3, <2>5, <2>7 DEF WayOK
<1>8. CASE ~(s = r /\ t \in m_hash_Name2node[r])
  <2>1. wire'[<<s, t>>] = wire[<<s, t>>]
    BY <1>4, <1>8
  <2>2. /\ Coming(s, t, u)' <=> Coming(s, t, u)
        /\ Going(s, t, u)' <=> Going(s, t, u)
    BY <1>2, <2>1 DEF Coming, Going
  <2>3. Silent(s, t, u)'
    BY <1>2, <1>5, <1>6, <2>1 DEF WayOK, Silent, Still, cluster
  <2>4. Ghost(s, t, u)'
    BY <1>2, <1>5, <1>6, <2>2 DEF WayOK, Ghost, cluster
  <2>5. At(u, s) /\ latest[u] = c => s = r
    BY <1>a, EnteredAs
  <2>6. Told(s, t, u)'
    BY <1>2, <1>5, <1>6, <1>8, <2>2, <2>5 DEF WayOK, Told, cluster
  <2>7. QED
    BY <2>3, <2>4, <2>6 DEF WayOK
<1>9. QED
  BY <1>7, <1>8

\* A farewell reaches everybody the user is or will be known to.
LEMMA LogoutWay ==
  ASSUME KnownInv, NEW c \in Sessions, on_evt_ClientDisconnected(c),
         NEW s \in Servers, NEW t \in Servers, NEW u \in Users, <<s, t>> \in Ways,
         Fresh(s, t, u)'
  PROVE  WayOK(s, t, u)'
<1> DEFINE r == who[c].svr
           v == who[c].uid
           m == Exited({v})
           entered == m_hash_uuid2node[r][v] = c
<1> USE DEF KnownInv, IInv
<1>1. r \in Servers /\ v \in Users
  BY WhoFacts DEF on_evt_ClientDisconnected, LoginInv
<1>2. /\ m_hash_uuid2node' = IF entered THEN [m_hash_uuid2node EXCEPT ![r][v] = NoSession]
                             ELSE m_hash_uuid2node
      /\ entered => wire' = SendDataToRemoteServer(r, m_hash_Name2node[r], m)
      /\ ~entered => wire' = wire
      /\ UNCHANGED <<announcing, latest, m_hash_remoteClient2SvrName, cluster, dealing, spoilt>>
  BY DEF on_evt_ClientDisconnected, broadcast_client_uuid
<1>3. /\ m \in Messages
      /\ \A w : Leaves(m, w) <=> w = v
      /\ \A w : ~Greets(m, w)
  BY <1>1, MessageFacts, KindFacts
<1>4. entered =>
        wire'[<<s, t>>] =
          IF s = r /\ t \in m_hash_Name2node[r] /\ Linked(r, t)
          THEN Append(wire[<<s, t>>], m) ELSE wire[<<s, t>>]
  BY <1>2 DEF SendDataToRemoteServer
<1>5. m_hash_uuid2node'[s][u] =
        IF entered /\ s = r /\ u = v THEN NoSession ELSE m_hash_uuid2node[s][u]
  BY <1>1, <1>2 DEF TypeOK
<1> HIDE DEF m, r, v, entered
<1>6. WayOK(s, t, u) /\ Linked(s, t)
  BY <1>2 DEF WayInv, Fresh, Linked, cluster
<1>7. Entry(s, t, u)' <=> Entry(s, t, u)
  BY <1>2 DEF Entry
<1>8. CASE t \notin m_hash_Name2node[s]
  <2>1. wire'[<<s, t>>] = wire[<<s, t>>]
    BY <1>2, <1>4, <1>8
  <2>2. Still(s, t, u)'
    BY <1>2, <1>6, <1>7, <1>8, <2>1 DEF WayOK, Silent, Still, cluster
  <2>3. ~Greet(wire'[<<s, t>>], u) /\ ~Leave(wire'[<<s, t>>], u)
    BY <2>2, OnlyHello DEF Still
  <2>4. ~Coming(s, t, u)'
    BY <2>2, <2>3 DEF Coming, Comes, Still, Greets
  <2>5. t \notin m_hash_Name2node'[s]
    BY <1>2, <1>8 DEF cluster
  <2>6. QED
    BY <2>2, <2>4, <2>5 DEF WayOK, Silent, Ghost, Told, Still
<1>9. CASE t \in m_hash_Name2node[s] /\ entered /\ s = r
  <2>1. wire'[<<s, t>>] = Append(wire[<<s, t>>], m) /\ wire[<<s, t>>] \in Seq(Messages)
    BY <1>4, <1>6, <1>9, WayType
  <2>2. /\ Coming(s, t, u)' <=> Coming(s, t, u) /\ u # v
        /\ Going(s, t, u)' <=> Going(s, t, u) \/ u = v
    BY <1>2, <1>3, <2>1, Sent DEF Coming, Going
  <2>3. Silent(s, t, u)'
    BY <1>2, <1>9 DEF Silent, cluster
  <2>4. Ghost(s, t, u)'
    BY <1>2, <1>5, <1>6, <1>7, <1>9, <2>2 DEF WayOK, Ghost, cluster
  <2>5. Told(s, t, u)'
    <3>1. CASE u = v
      BY <1>2, <1>5, <1>9, <3>1 DEF Told, At
    <3>2. CASE u # v
      BY <1>2, <1>5, <1>6, <1>7, <2>2, <3>2 DEF WayOK, Told, At, cluster
    <3>3. QED
      BY <3>1, <3>2
  <2>6. QED
    BY <2>3, <2>4, <2>5 DEF WayOK
<1>10. CASE ~(entered /\ s = r)
  <2>1. wire'[<<s, t>>] = wire[<<s, t>>]
    BY <1>2, <1>4, <1>10
  <2>2. QED
    BY <1>2, <1>5, <1>6, <1>7, <1>10, <2>1, SameWay DEF cluster
<1>11. QED
  BY <1>8, <1>9, <1>10

-----------------------------------------------------------------------------
(* Servers coming and going.                                               *)

\* A new connection starts with nothing to be known.
LEMMA ConnectWay ==
  ASSUME KnownInv, NEW a \in Servers, NEW b \in Servers, <<a, b>> \in Ways, Connect(a, b),
         NEW s \in Servers, NEW t \in Servers, NEW u \in Users, <<s, t>> \in Ways,
         Fresh(s, t, u)'
  PROVE  WayOK(s, t, u)'
<1> USE DEF KnownInv, IInv
<1>1. /\ b \notin m_hash_Name2node[a] /\ a \notin m_hash_Name2node[b]
      /\ links' = links \cup {{a, b}}
      /\ wire' = [wire EXCEPT ![<<a, b>>] = <<Hello>>, ![<<b, a>>] = <<Hello>>]
      /\ UNCHANGED <<clients, tables, m_hash_Name2node, evt_NewSvrConnected,
                     evt_NewSvrDisconnected, dealing, spoilt, faults>>
  BY DEF Connect
<1>2. Entry(s, t, u)' <=> Entry(s, t, u)
  BY <1>1 DEF Entry, tables
<1>3. CASE {s, t} = {a, b}
  <2>1. t \notin m_hash_Name2node[s] /\ s \notin m_hash_Name2node[t]
    BY <1>1, <1>3
  <2>2. <<s, t>> = <<a, b>> \/ <<s, t>> = <<b, a>>
    BY <1>3
  <2>3. wire'[<<s, t>>] = <<Hello>>
    BY <1>1, <2>2 DEF TypeOK
  <2>4. \A i \in 1..Len(wire'[<<s, t>>]) : wire'[<<s, t>>][i] = Hello
    BY <2>3
  <2>5. <<t, u>> \notin spoilt
    BY <1>1 DEF Fresh
  <2>6. dealing[<<s, t>>] = NoMessage
    BY <2>1 DEF DealingInv
  <2>7. Entry(s, t, u) => s \in evt_NewSvrDisconnected[t]
    BY <2>1, <2>5, WayFacts DEF EntryAccounted, Entry
  <2>8. Still(s, t, u)'
    BY <1>1, <1>2, <2>4, <2>6, <2>7 DEF Still
  <2>9. ~Greet(wire'[<<s, t>>], u) /\ ~Leave(wire'[<<s, t>>], u)
    BY <2>4, OnlyHello
  <2>10. ~Coming(s, t, u)'
    BY <2>8, <2>9 DEF Coming, Comes, Still, Greets
  <2>11. t \notin m_hash_Name2node'[s]
    BY <1>1, <2>1
  <2>12. QED
    BY <2>8, <2>10, <2>11 DEF WayOK, Silent, Ghost, Told, Still
<1>4. CASE {s, t} # {a, b}
  <2>1. <<s, t>> # <<a, b>> /\ <<s, t>> # <<b, a>>
    BY <1>4
  <2>2. wire'[<<s, t>>] = wire[<<s, t>>]
    BY <1>1, <2>1 DEF TypeOK
  <2>3. WayOK(s, t, u)
    BY <1>1, <1>4 DEF WayInv, Fresh, Linked
  <2>4. QED
    BY <1>1, <1>2, <2>2, <2>3, SameWay DEF clients, tables
<1>5. QED
  BY <1>3, <1>4

\* Who has registered a server owes it all users.
LEMMA RegisterWay ==
  ASSUME KnownInv, NEW a \in Servers, NEW b \in Servers, <<a, b>> \in Ways,
         regisitNewServer(a, b),
         NEW s \in Servers, NEW t \in Servers, NEW u \in Users, <<s, t>> \in Ways,
         Fresh(s, t, u)'
  PROVE  WayOK(s, t, u)'
<1> USE DEF KnownInv, IInv
<1>1. /\ wire[<<a, b>>] # <<>> /\ Head(wire[<<a, b>>]) = Hello
      /\ wire' = [wire EXCEPT ![<<a, b>>] = Tail(@)]
      /\ m_hash_Name2node' = [m_hash_Name2node EXCEPT ![b] = @ \cup {a}]
      /\ evt_NewSvrConnected' = [evt_NewSvrConnected EXCEPT ![b] = @ \cup {a}]
      /\ UNCHANGED <<clients, tables, links, evt_NewSvrDisconnected, dealing, spoilt>>
  BY DEF regisitNewServer
<1>2. a # b
  BY DEF Ways
<1>3. WayOK(s, t, u)
  BY <1>1 DEF WayInv, Fresh, Linked
<1>4. /\ Entry(s, t, u)' <=> Entry(s, t, u)
      /\ At(u, s)' <=> At(u, s)
      /\ UNCHANGED <<latest, announcing, m_hash_uuid2node>>
  BY <1>1 DEF Entry, At, tables, clients
<1>5. /\ \A q, r \in Servers : q \in m_hash_Name2node'[r] <=>
                                q \in m_hash_Name2node[r] \/ (q = a /\ r = b)
      /\ \A q, r \in Servers : q \in evt_NewSvrConnected'[r] <=>
                                q \in evt_NewSvrConnected[r] \/ (q = a /\ r = b)
  BY <1>1 DEF TypeOK
<1>6. CASE s = a /\ t = b
  <2>1. wire'[<<s, t>>] = Tail(wire[<<s, t>>]) /\ wire[<<s, t>>] \in Seq(Messages)
    BY <1>1, <1>6, WayType DEF TypeOK
  <2>2. /\ Greet(wire'[<<s, t>>], u) <=> Greet(wire[<<s, t>>], u)
        /\ Leave(wire'[<<s, t>>], u) <=> Leave(wire[<<s, t>>], u)
    BY <1>1, <1>6, <2>1, TakeOne, KindFacts
  <2>3. /\ Coming(s, t, u)' <=> Coming(s, t, u)
        /\ Going(s, t, u)' <=> Going(s, t, u)
    BY <1>1, <2>2 DEF Coming, Going, Comes, Goes
  <2>4. /\ t \in m_hash_Name2node'[s] <=> t \in m_hash_Name2node[s]
        /\ t \in evt_NewSvrConnected'[s] <=> t \in evt_NewSvrConnected[s]
        /\ s \in m_hash_Name2node'[t]
    BY <1>2, <1>5, <1>6
  <2>5. Silent(s, t, u)'
    <3>1. ASSUME \A i \in 1..Len(wire[<<s, t>>]) : wire[<<s, t>>][i] = Hello
          PROVE  \A i \in 1..Len(wire'[<<s, t>>]) : wire'[<<s, t>>][i] = Hello
      <4>1. ASSUME NEW q \in Seq(Messages), q # <<>>, \A i \in 1..Len(q) : q[i] = Hello
            PROVE  \A i \in 1..Len(Tail(q)) : Tail(q)[i] = Hello
        BY <4>1
      <4>2. QED
        BY <1>1, <1>6, <2>1, <3>1, <4>1
    <3>2. QED
      BY <1>1, <1>3, <1>4, <2>4, <3>1 DEF WayOK, Silent, Still
  <2>6. Ghost(s, t, u)'
    BY <1>1, <1>3, <1>4, <2>3 DEF WayOK, Ghost
  <2>7. Told(s, t, u)'
    BY <1>1, <1>3, <1>4, <2>3, <2>4 DEF WayOK, Told
  <2>8. QED
    BY <2>5, <2>6, <2>7 DEF WayOK
<1>7. CASE ~(s = a /\ t = b)
  <2>1. wire'[<<s, t>>] = wire[<<s, t>>]
    BY <1>1, <1>7 DEF TypeOK
  <2>2. /\ Coming(s, t, u)' <=> Coming(s, t, u)
        /\ Going(s, t, u)' <=> Going(s, t, u)
    BY <1>1, <2>1 DEF Coming, Going
  <2>3. Silent(s, t, u)'
    BY <1>1, <1>3, <1>4, <1>5, <2>1 DEF WayOK, Silent, Still
  <2>4. Ghost(s, t, u)'
    BY <1>1, <1>3, <1>4, <2>2 DEF WayOK, Ghost
  <2>5. Told(s, t, u)'
    BY <1>1, <1>3, <1>4, <1>5, <2>2 DEF WayOK, Told
  <2>6. QED
    BY <2>3, <2>4, <2>5 DEF WayOK
<1>8. QED
  BY <1>6, <1>7

\* All users of b are greeted at a, or a is not registered any more.
LEMMA NewServerWay ==
  ASSUME KnownInv, NEW a \in Servers, NEW b \in Servers, <<a, b>> \in Ways,
         on_evt_NewSvrConnected(b, a),
         NEW s \in Servers, NEW t \in Servers, NEW u \in Users, <<s, t>> \in Ways,
         Fresh(s, t, u)'
  PROVE  WayOK(s, t, u)'
<1> DEFINE m == LoggedIn(Here(b))
<1> USE DEF KnownInv, IInv
<1>1. /\ evt_NewSvrConnected' = [evt_NewSvrConnected EXCEPT ![b] = @ \ {a}]
      /\ wire' = IF Here(b) # {} THEN SendDataToRemoteServer(b, {a}, m) ELSE wire
      /\ UNCHANGED <<clients, tables, m_hash_Name2node, links,
                     evt_NewSvrDisconnected, dealing, spoilt>>
  BY DEF on_evt_NewSvrConnected
<1>2. /\ m \in Messages
      /\ Greets(m, u) <=> m_hash_uuid2node[b][u] # NoSession
      /\ ~Leaves(m, u)
  BY MessageFacts, KindFacts DEF Here
<1>3. wire'[<<s, t>>] =
        IF s = b /\ t = a /\ a \in m_hash_Name2node[b] /\ Linked(b, a) /\ Here(b) # {}
        THEN Append(wire[<<s, t>>], m) ELSE wire[<<s, t>>]
  BY <1>1 DEF SendDataToRemoteServer
<1> HIDE DEF m
<1>4. WayOK(s, t, u) /\ Linked(s, t)
  BY <1>1 DEF WayInv, Fresh, Linked
<1>5. /\ Entry(s, t, u)' <=> Entry(s, t, u)
      /\ At(u, s)' <=> At(u, s)
      /\ UNCHANGED <<latest, announcing, m_hash_uuid2node>>
  BY <1>1 DEF Entry, At, tables, clients
<1>6. \A q, r \in Servers : q \in evt_NewSvrConnected[r] =>
                              q \in evt_NewSvrConnected'[r] \/ (q = a /\ r = b)
  BY <1>1 DEF TypeOK
<1>7. CASE s = b /\ t = a /\ a \in m_hash_Name2node[b] /\ Here(b) # {}
  <2>1. wire'[<<s, t>>] = Append(wire[<<s, t>>], m) /\ wire[<<s, t>>] \in Seq(Messages)
    BY <1>3, <1>4, <1>7, WayType
  <2>2. /\ Coming(s, t, u)' <=> Coming(s, t, u) \/ m_hash_uuid2node[b][u] # NoSession
        /\ Going(s, t, u)' <=> Going(s, t, u)
    <3>1. ASSUME NEW d
          PROVE  /\ Goes(d, wire'[<<s, t>>], u) <=> Goes(d, wire[<<s, t>>], u)
                 /\ Comes(d, wire'[<<s, t>>], u) <=>
                      Greets(m, u) \/ Comes(d, wire[<<s, t>>], u)
      BY <1>2, <2>1, Sent
    <3>2. QED
      BY <1>1, <1>2, <3>1 DEF Coming, Going
  <2>3. Silent(s, t, u)'
    BY <1>1, <1>7 DEF Silent
  <2>4. Ghost(s, t, u)'
    BY <1>1, <1>4, <1>5, <1>7, <2>2 DEF WayOK, Ghost
  <2>5. Told(s, t, u)'
    BY <1>5, <1>7, <2>2 DEF Told, At
  <2>6. QED
    BY <2>3, <2>4, <2>5 DEF WayOK
<1>8. CASE ~(s = b /\ t = a /\ a \in m_hash_Name2node[b] /\ Here(b) # {})
  <2>1. wire'[<<s, t>>] = wire[<<s, t>>]
    BY <1>3, <1>8
  <2>2. /\ Coming(s, t, u)' <=> Coming(s, t, u)
        /\ Going(s, t, u)' <=> Going(s, t, u)
    BY <1>1, <2>1 DEF Coming, Going
  <2>3. Silent(s, t, u)'
    BY <1>1, <1>4, <1>5, <2>1 DEF WayOK, Silent, Still
  <2>4. Ghost(s, t, u)'
    BY <1>1, <1>4, <1>5, <2>2 DEF WayOK, Ghost
  <2>5. At(u, s) => Here(s) # {}
    BY DEF At, Here
  <2>6. Told(s, t, u)'
    BY <1>1, <1>4, <1>5, <1>6, <1>8, <2>2, <2>5 DEF WayOK, Told
  <2>7. QED
    BY <2>3, <2>4, <2>6 DEF WayOK
<1>9. QED
  BY <1>7, <1>8

\* The end of a connection is no matter of the servers still connected.
LEMMA LossWay ==
  ASSUME KnownInv, NEW a \in Servers, NEW b \in Servers, <<a, b>> \in Ways,
         Break(a, b) \/ ServerDisconnected(b, a),
         NEW s \in Servers, NEW t \in Servers, NEW u \in Users, <<s, t>> \in Ways,
         Fresh(s, t, u)'
  PROVE  WayOK(s, t, u)'
<1> USE DEF KnownInv, IInv
<1>1. CASE Break(a, b)
  <2>1. /\ UNCHANGED <<clients, tables, m_hash_Name2node, evt_NewSvrConnected,
                       evt_NewSvrDisconnected, wire, dealing, spoilt>>
        /\ links' \subseteq links
    BY <1>1 DEF Break, traffic
  <2>2. WayOK(s, t, u)
    BY <2>1 DEF WayInv, Fresh, Linked
  <2>3. Entry(s, t, u)' <=> Entry(s, t, u)
    BY <2>1 DEF Entry, tables
  <2>4. QED
    BY <2>1, <2>2, <2>3, SameWay DEF clients, tables
<1>2. CASE ServerDisconnected(b, a)
  <2>1. /\ ~Linked(a, b)
        /\ m_hash_Name2node' = [m_hash_Name2node EXCEPT ![b] = @ \ {a}]
        /\ evt_NewSvrDisconnected' = [evt_NewSvrDisconnected EXCEPT ![b] = @ \cup {a}]
        /\ wire' = [wire EXCEPT ![<<a, b>>] = <<>>]
        /\ dealing' = [dealing EXCEPT ![<<a, b>>] = NoMessage]
        /\ UNCHANGED <<clients, tables, links, evt_NewSvrConnected, spoilt>>
    BY <1>2 DEF ServerDisconnected
  <2>2. Linked(s, t) /\ WayOK(s, t, u)
    BY <2>1 DEF WayInv, Fresh, Linked
  <2>3. ~(s = a /\ t = b) /\ ~(s = b /\ t = a)
    <3>1. {a, b} = {b, a}
      OBVIOUS
    <3>2. QED
      BY <2>1, <2>2, <3>1 DEF Linked
  <2>4. wire'[<<s, t>>] = wire[<<s, t>>] /\ dealing'[<<s, t>>] = dealing[<<s, t>>]
    BY <2>1, <2>3 DEF TypeOK
  <2>5. /\ t \in m_hash_Name2node'[s] <=> t \in m_hash_Name2node[s]
        /\ s \in m_hash_Name2node[t] => s \in m_hash_Name2node'[t]
        /\ s \in evt_NewSvrDisconnected[t] => s \in evt_NewSvrDisconnected'[t]
    BY <2>1, <2>3 DEF TypeOK
  <2>6. Entry(s, t, u)' <=> Entry(s, t, u)
    BY <2>1 DEF Entry, tables
  <2>7. QED
    BY <2>1, <2>2, <2>4, <2>5, <2>6, SameWay DEF clients, tables
<1>3. QED
  BY <1>1, <1>2

\* The entries of a are gone; those that a connection made since has brought
\* are known to be missing.
LEMMA ForgetWay ==
  ASSUME KnownInv, NEW a \in Servers, NEW b \in Servers, <<a, b>> \in Ways,
         on_evt_NewSvrDisconnected(b, a),
         NEW s \in Servers, NEW t \in Servers, NEW u \in Users, <<s, t>> \in Ways,
         Fresh(s, t, u)'
  PROVE  WayOK(s, t, u)'
<1> DEFINE gone == {v \in Users : m_hash_remoteClient2SvrName[b][v] = a}
<1> USE DirectoryAssumption DEF KnownInv, IInv
<1>1. /\ evt_NewSvrDisconnected' = [evt_NewSvrDisconnected EXCEPT ![b] = @ \ {a}]
      /\ m_hash_remoteClient2SvrName' =
           [m_hash_remoteClient2SvrName EXCEPT
              ![b] = [v \in Users |-> IF v \in gone THEN NoServer ELSE @[v]]]
      /\ spoilt' = spoilt \cup (IF a \in m_hash_Name2node[b] THEN {b} \X gone ELSE {})
      /\ UNCHANGED <<clients, m_hash_uuid2node, m_hash_Name2node, links,
                     evt_NewSvrConnected, wire, dealing>>
  BY DEF on_evt_NewSvrDisconnected, traffic
<1>2. WayOK(s, t, u)
  BY <1>1 DEF WayInv, Fresh, Linked
<1>3. CASE s = a /\ t = b
  <2>1. ~Entry(s, t, u)'
    BY <1>1, <1>3 DEF Entry, TypeOK
  <2>2. Entry(s, t, u) => s \notin m_hash_Name2node[t]
    <3>1. Entry(s, t, u) => u \in gone
      BY <1>3 DEF Entry
    <3>2. QED
      BY <1>1, <1>3, <3>1 DEF Fresh
  <2>3. /\ Coming(s, t, u)' <=> Coming(s, t, u)
        /\ Going(s, t, u)' <=> Going(s, t, u)
        /\ At(u, s)' <=> At(u, s)
    BY <1>1 DEF Coming, Going, At, clients
  <2>4. Silent(s, t, u)'
    BY <1>1, <1>2, <2>1 DEF WayOK, Silent, Still
  <2>5. Ghost(s, t, u)'
    BY <1>1, <1>2, <2>1, <2>3 DEF WayOK, Ghost
  <2>6. Told(s, t, u)'
    BY <1>1, <1>2, <2>2, <2>3 DEF WayOK, Told, clients
  <2>7. QED
    BY <2>4, <2>5, <2>6 DEF WayOK
<1>4. CASE ~(s = a /\ t = b)
  <2>1. Entry(s, t, u)' <=> Entry(s, t, u)
    BY <1>1, <1>4 DEF Entry, TypeOK
  <2>2. s \in evt_NewSvrDisconnected[t] => s \in evt_NewSvrDisconnected'[t]
    BY <1>1, <1>4 DEF TypeOK
  <2>3. QED
    BY <1>1, <1>2, <2>1, <2>2, SameWay DEF clients
<1>5. QED
  BY <1>3, <1>4

-----------------------------------------------------------------------------
(* Messages, and a server that starts again.                               *)

LEMMA TakeWay ==
  ASSUME KnownInv, NEW a \in Servers, NEW b \in Servers, <<a, b>> \in Ways,
         TakeMessage(a, b),
         NEW s \in Servers, NEW t \in Servers, NEW u \in Users, <<s, t>> \in Ways,
         Fresh(s, t, u)'
  PROVE  WayOK(s, t, u)'
<1> USE DEF KnownInv, IInv
<1>1. /\ dealing[<<a, b>>] = NoMessage
      /\ wire[<<a, b>>] # <<>> /\ Head(wire[<<a, b>>]) # Hello
      /\ dealing' = [dealing EXCEPT ![<<a, b>>] = Head(wire[<<a, b>>])]
      /\ wire' = [wire EXCEPT ![<<a, b>>] = Tail(@)]
      /\ UNCHANGED <<clients, tables, cluster, spoilt>>
  BY DEF TakeMessage
<1>2. WayOK(s, t, u)
  BY <1>1 DEF WayInv, Fresh, Linked, cluster
<1>3. /\ Entry(s, t, u)' <=> Entry(s, t, u)
      /\ At(u, s)' <=> At(u, s)
  BY <1>1 DEF Entry, At, tables, clients
<1>4. CASE <<s, t>> = <<a, b>>
  <2>1. wire[<<s, t>>] \in Seq(Messages)
    BY WayType
  <2>2. /\ wire'[<<s, t>>] = Tail(wire[<<s, t>>])
        /\ dealing'[<<s, t>>] = Head(wire[<<s, t>>])
        /\ dealing[<<s, t>>] = NoMessage
        /\ wire[<<s, t>>] # <<>> /\ Head(wire[<<s, t>>]) # Hello
    BY <1>1, <1>4 DEF TypeOK
  <2>3. /\ Coming(s, t, u)' <=> Coming(s, t, u)
        /\ Going(s, t, u)' <=> Going(s, t, u)
    BY <2>1, <2>2, Taken DEF Coming, Going
  <2>4. t \in m_hash_Name2node[s]
    <3>1. 1 \in 1..Len(wire[<<s, t>>]) /\ wire[<<s, t>>][1] = Head(wire[<<s, t>>])
      BY <2>1, <2>2
    <3>2. QED
      BY <1>2, <2>2, <3>1 DEF WayOK, Silent, Still
  <2>5. Silent(s, t, u)'
    BY <1>1, <2>4 DEF Silent, cluster
  <2>6. Ghost(s, t, u)'
    BY <1>1, <1>2, <1>3, <2>3 DEF WayOK, Ghost, tables, cluster
  <2>7. Told(s, t, u)'
    BY <1>1, <1>2, <1>3, <2>3 DEF WayOK, Told, clients, cluster
  <2>8. QED
    BY <2>5, <2>6, <2>7 DEF WayOK
<1>5. CASE <<s, t>> # <<a, b>>
  <2>1. wire'[<<s, t>>] = wire[<<s, t>>] /\ dealing'[<<s, t>>] = dealing[<<s, t>>]
    BY <1>1, <1>5 DEF TypeOK
  <2>2. QED
    BY <1>1, <1>2, <1>3, <2>1, SameWay DEF clients, tables, cluster
<1>6. QED
  BY <1>4, <1>5

\* Who is entered at a server is at home there.
LEMMA HomeAt ==
  ASSUME SessionInv, NEW s \in Servers, NEW u \in Users
  PROVE  Home(u) = s <=> At(u, s)
<1>1. At(u, s) => Home(u) = s
  BY EnteredAs DEF At, Home
<1>2. Home(u) = s => At(u, s)
  BY DirectoryAssumption DEF At, Home
<1>3. QED
  BY <1>1, <1>2

\* What all message handlers have in common.
LEMMA Applied ==
  ASSUME KnownInv, NEW a \in Servers, NEW b \in Servers, <<a, b>> \in Ways,
         NEW e \in {a, NoServer},
         dealing' = [dealing EXCEPT ![<<a, b>>] = NoMessage],
         SetEntries(b, dealing[<<a, b>>].users, e),
         spoilt \subseteq spoilt',
         UNCHANGED <<clients, m_hash_uuid2node, cluster, wire, faults>>,
         NEW s \in Servers, NEW t \in Servers, NEW u \in Users, <<s, t>> \in Ways,
         Fresh(s, t, u)'
  PROVE  /\ WayOK(s, t, u)
         /\ At(u, s)' <=> At(u, s)
         /\ wire'[<<s, t>>] = wire[<<s, t>>]
         /\ dealing'[<<s, t>>] =
              IF s = a /\ t = b THEN NoMessage ELSE dealing[<<s, t>>]
         /\ Entry(s, t, u)' <=>
              IF t = b /\ u \in dealing[<<a, b>>].users THEN s = e ELSE Entry(s, t, u)
<1>1. TypeOK /\ WayInv
  BY DEF KnownInv, IInv
<1>2. WayOK(s, t, u)
  BY <1>1 DEF WayInv, Fresh, Linked, cluster
<1>3. At(u, s)' <=> At(u, s)
  BY DEF At, clients
<1>4. dealing'[<<s, t>>] = IF s = a /\ t = b THEN NoMessage ELSE dealing[<<s, t>>]
  BY <1>1 DEF TypeOK
<1>5. m_hash_remoteClient2SvrName'[t][u] =
        IF t = b /\ u \in dealing[<<a, b>>].users THEN e
        ELSE m_hash_remoteClient2SvrName[t][u]
  BY <1>1 DEF TypeOK, SetEntries
<1>6. Entry(s, t, u)' <=>
        IF t = b /\ u \in dealing[<<a, b>>].users THEN s = e ELSE Entry(s, t, u)
  BY <1>5 DEF Entry
<1>7. QED
  BY <1>2, <1>3, <1>4, <1>6

\* A greeting enters the user, and a farewell behind it will be applied later.
LEMMA AddWay ==
  ASSUME KnownInv, NEW a \in Servers, NEW b \in Servers, <<a, b>> \in Ways,
         cross_svr_add_uuids(a, b),
         NEW s \in Servers, NEW t \in Servers, NEW u \in Users, <<s, t>> \in Ways,
         Fresh(s, t, u)'
  PROVE  WayOK(s, t, u)'
<1> DEFINE d == dealing[<<a, b>>]
           q == wire[<<s, t>>]
<1> USE DirectoryAssumption DEF KnownInv, IInv
<1>1. /\ d # NoMessage /\ d.kind = "0x01"
      /\ dealing' = [dealing EXCEPT ![<<a, b>>] = NoMessage]
      /\ SetEntries(b, d.users, a)
      /\ spoilt' = spoilt \cup {<<b, v>> : v \in Moved(d.users, a)}
      /\ UNCHANGED <<clients, m_hash_uuid2node, cluster, wire, faults>>
  BY DEF cross_svr_add_uuids
<1>2. /\ WayOK(s, t, u)
      /\ At(u, s)' <=> At(u, s)
      /\ wire'[<<s, t>>] = wire[<<s, t>>]
      /\ dealing'[<<s, t>>] = IF s = a /\ t = b THEN NoMessage ELSE dealing[<<s, t>>]
      /\ Entry(s, t, u)' <=> IF t = b /\ u \in d.users THEN s = a ELSE Entry(s, t, u)
  <2>1. a \in {a, NoServer} /\ spoilt \subseteq spoilt'
    BY <1>1
  <2>2. QED
    BY <1>1, <2>1, Applied
<1>3. CASE t = b /\ u \in d.users /\ s = a
  <2>1. Greets(d, u) /\ ~Leaves(d, u)
    BY <1>1, <1>3 DEF Greets, Leaves
  <2>2. /\ Coming(s, t, u) <=> Greet(q, u) \/ ~Leave(q, u)
        /\ Going(s, t, u) <=> Leave(q, u)
    BY <1>1, <1>3, <2>1 DEF Coming, Going, Comes, Goes
  <2>3. /\ Coming(s, t, u)' <=> Greet(q, u)
        /\ Going(s, t, u)' <=> Leave(q, u)
    BY <1>2, <1>3 DEF Coming, Going, Comes, Goes
  <2>4. Entry(s, t, u)'
    BY <1>2, <1>3
  <2>6. s \in m_hash_Name2node[t]
    BY <1>1, <1>3 DEF DealingInv
  <2>7. Silent(s, t, u)'
    BY <1>1, <1>2, <1>3 DEF WayOK, Silent, Still, cluster
  <2>8. Ghost(s, t, u)'
    BY <1>1, <1>2, <2>2, <2>3 DEF WayOK, Ghost
  <2>9. Told(s, t, u)'
    BY <1>1, <1>2, <2>2, <2>3, <2>4, <2>6 DEF WayOK, Told, clients, cluster
  <2>10. QED
    BY <2>7, <2>8, <2>9 DEF WayOK
<1>4. CASE t = b /\ u \in d.users /\ s # a
  <2>1. ~Entry(s, t, u)'
    BY <1>2, <1>4
  <2>2. /\ Coming(s, t, u)' <=> Coming(s, t, u)
        /\ Going(s, t, u)' <=> Going(s, t, u)
    BY <1>2, <1>4 DEF Coming, Going
  <2>3. ~At(u, s)
    <3>1. At(u, s) => Home(u) \notin {a, NoServer}
      BY <1>4, HomeAt
    <3>2. QED
      BY <1>1, <1>4, <3>1 DEF Fresh, Moved
  <2>4. Silent(s, t, u)'
    BY <1>1, <1>2, <1>4, <2>1 DEF WayOK, Silent, Still, cluster
  <2>5. Ghost(s, t, u)'
    BY <1>1, <1>2, <2>1, <2>2 DEF WayOK, Ghost
  <2>6. Told(s, t, u)'
    BY <1>2, <2>3 DEF Told
  <2>7. QED
    BY <2>4, <2>5, <2>6 DEF WayOK
<1>5. CASE ~(t = b /\ u \in d.users)
  <2>1. /\ Coming(s, t, u)' <=> Coming(s, t, u)
        /\ Going(s, t, u)' <=> Going(s, t, u)
    BY <1>1, <1>2, <1>5 DEF Coming, Going, Comes, Goes, Greets, Leaves
  <2>2. Silent(s, t, u)'
    BY <1>1, <1>2, <1>5 DEF WayOK, Silent, Still, cluster
  <2>3. Ghost(s, t, u)'
    BY <1>1, <1>2, <1>5, <2>1 DEF WayOK, Ghost, cluster
  <2>4. Told(s, t, u)'
    BY <1>1, <1>2, <1>5, <2>1 DEF WayOK, Told, clients, cluster
  <2>5. QED
    BY <2>2, <2>3, <2>4 DEF WayOK
<1>6. QED
  BY <1>3, <1>4, <1>5

\* A farewell erases the entry; one that names another server is known to be lost.
LEMMA DelWay ==
  ASSUME KnownInv, NEW a \in Servers, NEW b \in Servers, <<a, b>> \in Ways,
         cross_svr_del_uuids(a, b),
         NEW s \in Servers, NEW t \in Servers, NEW u \in Users, <<s, t>> \in Ways,
         Fresh(s, t, u)'
  PROVE  WayOK(s, t, u)'
<1> DEFINE d == dealing[<<a, b>>]
           q == wire[<<s, t>>]
<1> USE DirectoryAssumption DEF KnownInv, IInv
<1>1. /\ d # NoMessage /\ d.kind = "0x02"
      /\ dealing' = [dealing EXCEPT ![<<a, b>>] = NoMessage]
      /\ SetEntries(b, d.users, NoServer)
      /\ spoilt' = spoilt \cup {<<b, v>> : v \in Foreign(d.users, a, b)}
      /\ UNCHANGED <<clients, m_hash_uuid2node, cluster, wire, faults>>
  BY DEF cross_svr_del_uuids
<1>2. /\ WayOK(s, t, u)
      /\ At(u, s)' <=> At(u, s)
      /\ wire'[<<s, t>>] = wire[<<s, t>>]
      /\ dealing'[<<s, t>>] = IF s = a /\ t = b THEN NoMessage ELSE dealing[<<s, t>>]
      /\ Entry(s, t, u)' <=>
           IF t = b /\ u \in d.users THEN s = NoServer ELSE Entry(s, t, u)
  <2>1. NoServer \in {a, NoServer} /\ spoilt \subseteq spoilt'
    BY <1>1
  <2>2. QED
    BY <1>1, <2>1, Applied
<1>3. CASE t = b /\ u \in d.users /\ s = a
  <2>1. Leaves(d, u) /\ ~Greets(d, u)
    BY <1>1, <1>3 DEF Greets, Leaves
  <2>2. /\ Coming(s, t, u) <=> Greet(q, u)
        /\ Going(s, t, u)
    BY <1>1, <1>3, <2>1 DEF Coming, Going, Comes, Goes
  <2>3. Coming(s, t, u)' <=> Greet(q, u)
    BY <1>2, <1>3 DEF Coming, Comes
  <2>4. ~Entry(s, t, u)'
    BY <1>2, <1>3
  <2>5. Silent(s, t, u)'
    BY <1>1, <1>2, <1>3, <2>4 DEF WayOK, Silent, Still, cluster
  <2>6. Ghost(s, t, u)'
    BY <1>1, <1>2, <2>2, <2>3, <2>4 DEF WayOK, Ghost
  <2>7. Told(s, t, u)'
    BY <1>1, <1>2, <2>2, <2>3 DEF WayOK, Told, clients, cluster
  <2>8. QED
    BY <2>5, <2>6, <2>7 DEF WayOK
<1>4. CASE t = b /\ u \in d.users /\ s # a
  <2>1. ~Entry(s, t, u)
    <3>1. Entry(s, t, u) => m_hash_remoteClient2SvrName[b][u] \notin {a, NoServer}
      BY <1>4 DEF Entry
    <3>2. QED
      BY <1>1, <1>4, <3>1 DEF Fresh, Foreign, Entered
  <2>2. Entry(s, t, u)' <=> Entry(s, t, u)
    BY <1>2, <1>4, <2>1
  <2>3. dealing'[<<s, t>>] = dealing[<<s, t>>]
    BY <1>2, <1>4
  <2>4. QED
    BY <1>1, <1>2, <2>2, <2>3, SameWay DEF clients, cluster
<1>5. CASE ~(t = b /\ u \in d.users)
  <2>1. /\ Coming(s, t, u)' <=> Coming(s, t, u)
        /\ Going(s, t, u)' <=> Going(s, t, u)
    BY <1>1, <1>2, <1>5 DEF Coming, Going, Comes, Goes, Greets, Leaves
  <2>2. Silent(s, t, u)'
    BY <1>1, <1>2, <1>5 DEF WayOK, Silent, Still, cluster
  <2>3. Ghost(s, t, u)'
    BY <1>1, <1>2, <1>5, <2>1 DEF WayOK, Ghost, cluster
  <2>4. Told(s, t, u)'
    BY <1>1, <1>2, <1>5, <2>1 DEF WayOK, Told, clients, cluster
  <2>5. QED
    BY <2>2, <2>3, <2>4 DEF WayOK
<1>6. QED
  BY <1>3, <1>4, <1>5

\* What a former connection brings adds an entry that the purge will take, or
\* takes one that there is no more reason to have, or is known to do harm.
LEMMA LateWay ==
  ASSUME KnownInv, NEW a \in Servers, NEW b \in Servers, <<a, b>> \in Ways,
         LateMessage(a, b),
         NEW s \in Servers, NEW t \in Servers, NEW u \in Users, <<s, t>> \in Ways,
         Fresh(s, t, u)'
  PROVE  WayOK(s, t, u)'
<1> USE DirectoryAssumption DEF KnownInv, IInv
<1>1. UNCHANGED <<clients, m_hash_uuid2node, cluster, wire, dealing>> /\ spoilt \subseteq spoilt'
  BY DEF LateMessage
<1>2. PICK us :
        \/ /\ SetEntries(b, us, a)
           /\ spoilt' = spoilt \cup {<<b, v>> : v \in
                IF a \in evt_NewSvrDisconnected[b] THEN Moved(us, a) ELSE us}
        \/ /\ SetEntries(b, us, NoServer)
           /\ spoilt' = spoilt \cup {<<b, v>> : v \in
                IF a \in m_hash_Name2node[b] THEN Entered(us, b) ELSE Foreign(us, a, b)}
  BY DEF LateMessage
<1>3. WayOK(s, t, u)
  BY <1>1 DEF WayInv, Fresh, Linked, cluster
<1>4. /\ Coming(s, t, u)' <=> Coming(s, t, u)
      /\ Going(s, t, u)' <=> Going(s, t, u)
      /\ At(u, s)' <=> At(u, s)
  BY <1>1 DEF Coming, Going, At, clients
<1>5. /\ \A e : SetEntries(b, us, e) =>
           (Entry(s, t, u)' <=> IF t = b /\ u \in us THEN s = e ELSE Entry(s, t, u))
      /\ <<t, u>> \notin spoilt'
  BY DEF Fresh, Entry, TypeOK, SetEntries
<1>6. CASE ~(t = b /\ u \in us)
  <2>1. Entry(s, t, u)' <=> Entry(s, t, u)
    BY <1>2, <1>5, <1>6
  <2>2. QED
    BY <1>1, <1>3, <2>1, SameWay DEF clients, cluster
<1>7. CASE t = b /\ u \in us /\ SetEntries(b, us, a) /\ u \notin Moved(us, a)
           /\ a \in evt_NewSvrDisconnected[b]
  <2>1. Entry(s, t, u)' <=> s = a
    BY <1>5, <1>7
  <2>2. Silent(s, t, u)'
    BY <1>1, <1>3, <1>7, <2>1 DEF WayOK, Silent, Still, cluster
  <2>3. Ghost(s, t, u)'
    BY <1>1, <1>3, <1>4, <1>7, <2>1 DEF WayOK, Ghost, cluster
  <2>4. At(u, s) => s = a
    BY <1>7, HomeAt DEF Moved
  <2>5. Told(s, t, u)'
    BY <1>1, <1>3, <1>4, <2>1, <2>4 DEF WayOK, Told, clients, cluster
  <2>6. QED
    BY <2>2, <2>3, <2>5 DEF WayOK
<1>8. CASE t = b /\ u \in us /\ SetEntries(b, us, NoServer)
           /\ (Entry(s, t, u) => s = a /\ s \notin m_hash_Name2node[t])
  <2>1. ~Entry(s, t, u)'
    BY <1>5, <1>8
  <2>2. Silent(s, t, u)'
    BY <1>1, <1>3, <2>1 DEF WayOK, Silent, Still, cluster
  <2>3. Ghost(s, t, u)'
    BY <1>1, <1>3, <1>4, <2>1 DEF WayOK, Ghost
  <2>4. Told(s, t, u)'
    BY <1>1, <1>3, <1>4, <1>8 DEF WayOK, Told, clients, cluster
  <2>5. QED
    BY <2>2, <2>3, <2>4 DEF WayOK
<1>9. Entry(s, t, u) => m_hash_remoteClient2SvrName[t][u] # NoServer
                        /\ (s # a => m_hash_remoteClient2SvrName[t][u] # a)
  BY DEF Entry
<1>10. QED
  <2>1. CASE /\ SetEntries(b, us, a)
             /\ spoilt' = spoilt \cup {<<b, v>> : v \in
                  IF a \in evt_NewSvrDisconnected[b] THEN Moved(us, a) ELSE us}
    BY <1>5, <1>6, <1>7, <2>1
  <2>2. CASE /\ SetEntries(b, us, NoServer)
             /\ spoilt' = spoilt \cup {<<b, v>> : v \in
                  IF a \in m_hash_Name2node[b] THEN Entered(us, b) ELSE Foreign(us, a, b)}
    <3>1. ASSUME t = b, u \in us, Entry(s, t, u)
          PROVE  s = a /\ s \notin m_hash_Name2node[t]
      <4>1. u \in Entered(us, b)
        BY <1>9, <3>1 DEF Entered
      <4>2. a \notin m_hash_Name2node[b] /\ u \notin Foreign(us, a, b)
        BY <1>5, <2>2, <3>1, <4>1
      <4>3. QED
        BY <1>9, <3>1, <4>1, <4>2 DEF Foreign
    <3>2. QED
      BY <1>6, <1>8, <2>2, <3>1
  <2>3. QED
    BY <1>2, <2>1, <2>2

\* Nobody is connected to a server that has just started again.
LEMMA CrashWay ==
  ASSUME KnownInv, NEW a \in Servers, Crash(a),
         NEW s \in Servers, NEW t \in Servers, NEW u \in Users, <<s, t>> \in Ways,
         Fresh(s, t, u)'
  PROVE  WayOK(s, t, u)'
<1> DEFINE mine == {c \in Sessions : who[c].svr = a}
<1> USE DEF KnownInv, IInv
<1>1. /\ announcing' = announcing \ mine
      /\ m_hash_uuid2node' = [m_hash_uuid2node EXCEPT ![a] = [v \in Users |-> NoSession]]
      /\ m_hash_remoteClient2SvrName' =
           [m_hash_remoteClient2SvrName EXCEPT ![a] = [v \in Users |-> NoServer]]
      /\ m_hash_Name2node' = [m_hash_Name2node EXCEPT ![a] = {}]
      /\ links' = {p \in links : a \notin p}
      /\ evt_NewSvrConnected' = [evt_NewSvrConnected EXCEPT ![a] = {}]
      /\ evt_NewSvrDisconnected' = [evt_NewSvrDisconnected EXCEPT ![a] = {}]
      /\ wire' = [l \in Ways |-> IF l[2] = a THEN <<>> ELSE wire[l]]
      /\ dealing' = [l \in Ways |-> IF l[2] = a THEN NoMessage ELSE dealing[l]]
      /\ UNCHANGED <<latest, spoilt>>
  BY DEF Crash
<1>2. s # a /\ t # a /\ Linked(s, t)
  BY <1>1 DEF Fresh, Linked
<1>3. WayOK(s, t, u)
  BY <1>1, <1>2 DEF WayInv, Fresh
<1>4. wire'[<<s, t>>] = wire[<<s, t>>] /\ dealing'[<<s, t>>] = dealing[<<s, t>>]
  BY <1>1, <1>2
<1>5. /\ UNCHANGED <<m_hash_Name2node[s], m_hash_Name2node[t], evt_NewSvrConnected[s],
                     evt_NewSvrDisconnected[t], m_hash_uuid2node[s]>>
      /\ Entry(s, t, u)' <=> Entry(s, t, u)
  BY <1>1, <1>2 DEF TypeOK, Entry
<1>6. At(u, s) /\ latest[u] \in announcing => latest'[u] \in announcing'
  BY <1>1, <1>2, EnteredAs
<1>7. QED
  BY <1>1, <1>3, <1>4, <1>5, <1>6, SameWay

-----------------------------------------------------------------------------
(* Every step keeps the invariants.                                        *)

LEMMA NextInv ==
  ASSUME IInv, [Next]_vars
  PROVE  IInv'
<1>1. ASSUME NEW c \in Sessions,
             \/ LoginClient(c) \/ regisitClientUUID(c) \/ AnnounceUUID(c)
             \/ on_evt_ClientDisconnected(c)
      PROVE  IInv'
  BY <1>1, ClientInv
<1>2. ASSUME NEW l \in Ways,
             \/ Connect(l[1], l[2]) \/ Break(l[1], l[2])
             \/ regisitNewServer(l[1], l[2]) \/ on_evt_NewSvrConnected(l[1], l[2])
      PROVE  IInv'
  BY <1>2, WayFacts, ConnectionInv
<1>3. ASSUME NEW l \in Ways,
             ServerDisconnected(l[1], l[2]) \/ on_evt_NewSvrDisconnected(l[1], l[2])
      PROVE  IInv'
  BY <1>3, WayFacts, LossInv, ForgetInv
<1>4. ASSUME NEW l \in Ways,
             \/ TakeMessage(l[1], l[2]) \/ LateMessage(l[1], l[2])
             \/ cross_svr_add_uuids(l[1], l[2]) \/ cross_svr_del_uuids(l[1], l[2])
      PROVE  IInv'
  BY <1>4, WayFacts, TakeInv, MessageInv, LateInv
<1>5. ASSUME NEW s \in Servers, Crash(s) PROVE IInv'
  BY <1>5, CrashInv
<1>6. CASE UNCHANGED vars
  <2>1. TypeOK' /\ LoginInv'
    BY <1>6 DEF vars, clients, tables, cluster, traffic, IInv, TypeOK, LoginInv
  <2>2. QED
    BY <1>6, <2>1, ElsewhereInv DEF vars, tables, cluster, traffic
<1>7. QED
  BY <1>1, <1>2, <1>3, <1>4, <1>5, <1>6, Zenon DEF Next

LEMMA NextWay ==
  ASSUME KnownInv, [Next]_vars
  PROVE  WayInv'
<1> SUFFICES ASSUME NEW s \in Servers, NEW t \in Servers, NEW u \in Users,
                    <<s, t>> \in Ways, Fresh(s, t, u)'
             PROVE  WayOK(s, t, u)'
  BY DEF WayInv
<1>1. ASSUME NEW c \in Sessions,
             \/ LoginClient(c) \/ regisitClientUUID(c) \/ AnnounceUUID(c)
             \/ on_evt_ClientDisconnected(c)
      PROVE  WayOK(s, t, u)'
  BY <1>1, LoginWay, EnterWay, AnnounceWay, LogoutWay
<1>2. ASSUME NEW l \in Ways,
             \/ Connect(l[1], l[2]) \/ Break(l[1], l[2])
             \/ regisitNewServer(l[1], l[2]) \/ ServerDisconnected(l[1], l[2])
             \/ on_evt_NewSvrConnected(l[1], l[2]) \/ on_evt_NewSvrDisconnected(l[1], l[2])
             \/ TakeMessage(l[1], l[2]) \/ LateMessage(l[1], l[2])
             \/ cross_svr_add_uuids(l[1], l[2]) \/ cross_svr_del_uuids(l[1], l[2])
      PROVE  WayOK(s, t, u)'
  <2> DEFINE a == l[1]
             b == l[2]
  <2>1. /\ a \in Servers /\ b \in Servers
        /\ <<a, b>> \in Ways /\ <<b, a>> \in Ways
    BY WayFacts
  <2>2. CASE Connect(a, b)
    BY <2>1, <2>2, ConnectWay
  <2>3. CASE Break(a, b) \/ ServerDisconnected(a, b)
    BY <2>1, <2>3, LossWay
  <2>4. CASE regisitNewServer(a, b)
    BY <2>1, <2>4, RegisterWay
  <2>5. CASE on_evt_NewSvrConnected(a, b)
    BY <2>1, <2>5, NewServerWay
  <2>6. CASE on_evt_NewSvrDisconnected(a, b)
    BY <2>1, <2>6, ForgetWay
  <2>7. CASE TakeMessage(a, b)
    BY <2>1, <2>7, TakeWay
  <2>8. CASE cross_svr_add_uuids(a, b)
    BY <2>1, <2>8, AddWay
  <2>9. CASE cross_svr_del_uuids(a, b)
    BY <2>1, <2>9, DelWay
  <2>10. CASE LateMessage(a, b)
    BY <2>1, <2>10, LateWay
  <2>11. QED
    BY <1>2, <2>2, <2>3, <2>4, <2>5, <2>6, <2>7, <2>8, <2>9, <2>10
<1>3. ASSUME NEW a \in Servers, Crash(a) PROVE WayOK(s, t, u)'
  BY <1>3, CrashWay
<1>4. CASE UNCHANGED vars
  <2>1. UNCHANGED <<wire, dealing, m_hash_Name2node, links, evt_NewSvrConnected,
                    evt_NewSvrDisconnected, m_hash_remoteClient2SvrName,
                    m_hash_uuid2node, latest, announcing, spoilt>>
    BY <1>4 DEF vars, clients, tables, cluster, traffic
  <2>2. WayOK(s, t, u) /\ (Entry(s, t, u)' <=> Entry(s, t, u))
    BY <2>1 DEF KnownInv, WayInv, Fresh, Linked, Entry
  <2>3. QED
    BY <2>1, <2>2, SameWay
<1>5. QED
  BY <1>1, <1>2, <1>3, <1>4, Zenon DEF Next

\* Before anybody has logged in there is nothing to be known.
LEMMA WayInit ==
  ASSUME Init
  PROVE  WayInv
<1> SUFFICES ASSUME NEW s \in Servers, NEW t \in Servers, NEW u \in Users, <<s, t>> \in Ways
             PROVE  WayOK(s, t, u)
  BY DEF WayInv
<1>1. /\ wire[<<s, t>>] = <<>> /\ dealing[<<s, t>>] = NoMessage
      /\ latest[u] = NoSession /\ m_hash_remoteClient2SvrName[t][u] = NoServer
  BY DEF Init
<1>2. ~Entry(s, t, u) /\ ~At(u, s)
  BY <1>1, DirectoryAssumption DEF Entry, At
<1>3. \A i \in 1..Len(wire[<<s, t>>]) : FALSE
  BY <1>1
<1>4. Still(s, t, u) /\ ~Coming(s, t, u)
  BY <1>1, <1>2, <1>3 DEF Still, Coming, Comes, Greet
<1>5. QED
  BY <1>2, <1>4 DEF WayOK, Silent, Ghost, Told

-----------------------------------------------------------------------------

\* The inductive invariant: types, sessions that have logged in, and that the
\* worker of a present connection works for a registered server.
THEOREM IInvCorrect == Spec => []IInv
<1>1. Init => IInv
  BY InitInv
<1>2. ASSUME IInv, [Next]_vars PROVE IInv'
  BY <1>2, NextInv
<1>3. QED
  BY <1>1, <1>2, PTL DEF Spec

\* Every variable keeps to its type.
THEOREM TypeCorrect == Spec => []TypeOK
<1>1. IInv => TypeOK
  BY DEF IInv
<1>2. QED
  BY <1>1, IInvCorrect, PTL

\* The users of a lost server vanish from every directory: on_evt_NewSvrDisconnected
\* is queued for them, whatever messages and connections cross, except for those
\* that the worker of a former connection enters when it has been handled.
THEOREM EntryAccountedCorrect == Spec => []EntryAccounted
<1>1. IInv => EntryAccounted
  BY DEF IInv
<1>2. QED
  BY <1>1, IInvCorrect, PTL

\* What is known of a way from one server to another: every greeting is followed
\* by a farewell if the user has left, and by none if he has not, except where a
\* late message of a former connection or another race of the code has struck.
THEOREM KnownInvCorrect == Spec => []KnownInv
<1>1. Init => KnownInv
  BY InitInv, SessionInit, WayInit DEF KnownInv
<1>2. ASSUME KnownInv, [Next]_vars PROVE KnownInv'
  <2>1. IInv /\ SessionInv /\ EnteredInv
    BY <1>2 DEF KnownInv
  <2>2. QED
    BY <1>2, <2>1, NextInv, SessionNext, EnteredNext, NextWay DEF KnownInv
<1>3. QED
  BY <1>1, <1>2, PTL DEF Spec

\* At rest nothing is queued or on its way from one server to another.
LEMMA AtRest ==
  ASSUME Quiet, NEW s \in Servers, NEW t \in Servers, NEW u, <<s, t>> \in Ways
  PROVE  /\ ~Coming(s, t, u) /\ ~Going(s, t, u)
         /\ Linked(s, t) <=> s \in m_hash_Name2node[t]
         /\ Linked(s, t) <=> t \in m_hash_Name2node[s]
         /\ t \notin evt_NewSvrConnected[s] /\ s \notin evt_NewSvrDisconnected[t]
<1>1. wire[<<s, t>>] = <<>> /\ dealing[<<s, t>>] = NoMessage
  BY DEF Quiet
<1>2. \A i \in 1..Len(wire[<<s, t>>]) : FALSE
  BY <1>1
<1>3. ~Coming(s, t, u) /\ ~Going(s, t, u)
  BY <1>1, <1>2 DEF Coming, Going, Comes, Goes, Greet, Leave
<1>4. <<t, s>> \in Ways /\ {s, t} = {t, s}
  BY WayFacts
<1>5. /\ Linked(s, t) <=> s \in m_hash_Name2node[t]
      /\ Linked(s, t) <=> t \in m_hash_Name2node[s]
  BY <1>4 DEF Quiet, Linked
<1>6. QED
  BY <1>3, <1>5 DEF Quiet

\* At rest no server sends anything for a user to a server where he is not: the
\* farewells of on_evt_ClientDisconnected overtake no greeting of AnnounceUUID or
\* on_evt_NewSvrConnected, and a lost server takes its users along.  A user whom
\* regisitClientUUID has entered behind the end of his client counts as there.
THEOREM NoGhostCorrect == Spec => []NoGhost
<1>1. ASSUME KnownInv PROVE NoGhost
  <2> SUFFICES ASSUME Quiet, NEW s \in Servers, NEW t \in Servers, NEW u \in Users,
                      <<s, t>> \in Ways, Entry(s, t, u), <<t, u>> \notin spoilt
               PROVE  m_hash_uuid2node[s][u] \in alive \cup overdue /\ Linked(s, t)
    BY WayFacts DEF NoGhost, Entry
  <2>1. s \in m_hash_Name2node[t]
    BY <1>1, AtRest, WayFacts DEF KnownInv, IInv, EntryAccounted, Entry
  <2>2. Linked(s, t)
    BY <2>1, AtRest
  <2>3. Ghost(s, t, u)
    BY <1>1, <2>2 DEF KnownInv, WayInv, Fresh, WayOK
  <2>4. m_hash_uuid2node[s][u] # NoSession
    BY <2>3, AtRest DEF Ghost
  <2>5. m_hash_uuid2node[s][u] \in alive \cup overdue
    BY <1>1, <2>4 DEF KnownInv, EnteredInv
  <2>6. QED
    BY <2>2, <2>5
<1>2. QED
  BY <1>1, KnownInvCorrect, PTL

\* At rest every server connected to the one on which a user has logged in last
\* sends what is for him there: AnnounceUUID or on_evt_NewSvrConnected has greeted
\* it, and no farewell of an earlier session has come behind.
THEOREM LatestKnownCorrect == Spec => []LatestKnown
<1>1. ASSUME KnownInv PROVE LatestKnown
  <2> SUFFICES ASSUME Quiet, NEW s \in Servers, NEW t \in Servers, NEW u \in Users,
                      <<s, t>> \in Ways, Home(u) = s, Linked(s, t), <<t, u>> \notin spoilt
               PROVE  Entry(s, t, u)
    BY WayFacts DEF LatestKnown, Entry
  <2>1. At(u, s)
    BY <1>1, HomeAt DEF KnownInv
  <2>2. Told(s, t, u)
    BY <1>1 DEF KnownInv, WayInv, Fresh, WayOK
  <2>3. latest[u] \notin announcing
    BY DEF Quiet
  <2>4. QED
    BY <2>1, <2>2, <2>3, AtRest DEF Told
<1>2. QED
  BY <1>1, KnownInvCorrect, PTL
=============================================================================
