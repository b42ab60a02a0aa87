---------------------------- MODULE Server_proofs ----------------------------
(* The pool of database connections keeps its promises whoever calls it,   *)
(* the server that is built on it too, what it has told a user is stored   *)
(* is stored, and a server that has been started listens: for any number   *)
(* of databases, connections, threads, users and requests.                 *)
EXTENDS Server, TLAPS

-----------------------------------------------------------------------------
(* Connections.                                                            *)

\* What the steps do to a connection keeps its parameters.
LEMMA ConnectionFacts ==
  /\ None \notin Connection
  /\ \A c \in Connection : /\ c.para \in Paras
                           /\ c.state \in {"closed", "live", "stale"}
                           /\ Dropped(c) \in Connection /\ Dropped(c).para = c.para
                           /\ database(c) \in Connection /\ database(c).para = c.para
                           /\ [c EXCEPT !.state = "closed"] \in Connection
                           /\ [c EXCEPT !.state = "closed"].para = c.para
  /\ Dropped(None) = None /\ database(None) = None
  /\ None.state \notin {"closed", "live", "stale"}
  /\ \A p \in Paras : Opened(p) \in Connection /\ Opened(p).para = p
<1> USE PoolAssumption
<1>1. \A p \in Paras : Opened(p) \in Connection /\ Opened(p).para = p
  BY DEF Opened, Connection
<1>2. None \notin Connection /\ Dropped(None) = None /\ database(None) = None
      /\ None.state \notin {"closed", "live", "stale"}
  BY DEF None, Connection, Dropped, database
<1>3. ASSUME NEW c \in Connection
      PROVE  /\ c.para \in Paras
             /\ c.state \in {"closed", "live", "stale"}
             /\ Dropped(c) \in Connection /\ Dropped(c).para = c.para
             /\ database(c) \in Connection /\ database(c).para = c.para
             /\ [c EXCEPT !.state = "closed"] \in Connection
             /\ [c EXCEPT !.state = "closed"].para = c.para
  <2>1. c.para \in Paras /\ c.state \in {"closed", "live", "stale"}
    BY DEF Connection
  <2>2. Dropped(c) \in Connection /\ Dropped(c).para = c.para
    BY DEF Dropped, Connection
  <2>3. database(c) \in Connection /\ database(c).para = c.para
    BY <1>1, <2>1 DEF database
  <2>4. [c EXCEPT !.state = "closed"] \in Connection
        /\ [c EXCEPT !.state = "closed"].para = c.para
    BY DEF Connection
  <2>5. QED
    BY <2>1, <2>2, <2>3, <2>4
<1>4. QED
  BY <1>1, <1>2, <1>3

-----------------------------------------------------------------------------
(* The pool.  CloneAccounted is inductive as soon as a fresh clone leads   *)
(* where its name leads, which is RemovedStaysRemoved, itself inductive.   *)

PoolInv == PoolTypeOK /\ RemovedStaysRemoved /\ CloneAccounted

LEMMA InitPoolInv == PoolInit => PoolInv
<1> SUFFICES ASSUME PoolInit PROVE PoolInv
  OBVIOUS
<1>1. PoolTypeOK
  BY PoolAssumption DEF PoolInit, PoolTypeOK
<1>2. RemovedStaysRemoved /\ CloneAccounted
  BY DEF PoolInit, RemovedStaysRemoved, CloneAccounted
<1>3. QED
  BY <1>1, <1>2 DEF PoolInv

LEMMA AddPoolInv ==
  ASSUME PoolInv, NEW n \in Names, NEW p \in Paras, m_dbNames[n] = NoPara,
         addConnection(n, p)
  PROVE  PoolInv'
<1> USE PoolAssumption, ConnectionFacts DEF PoolInv, addConnection
<1>1. PoolTypeOK'
  BY DEF PoolTypeOK, checking, outside, ledgers
<1>2. RemovedStaysRemoved'
  BY DEF PoolTypeOK, RemovedStaysRemoved
<1>3. ASSUME NEW m \in Names, NEW w \in Threads, clone[w][m] # None,
             <<m, w>> \notin stray
      PROVE  m # n
  <2>1. clone[w][m] \in Connection /\ clone[w][m].para = m_dbNames[m]
    BY <1>3 DEF PoolTypeOK, CloneAccounted
  <2>2. clone[w][m].para # NoPara
    BY <2>1
  <2>3. QED
    BY <2>1, <2>2
<1>4. CloneAccounted'
  BY <1>3 DEF PoolTypeOK, CloneAccounted, ledgers
<1>5. QED
  BY <1>1, <1>2, <1>4

LEMMA RemovePoolInv ==
  ASSUME PoolInv, NEW n \in Names, remove_connection(n)
  PROVE  PoolInv'
<1> DEFINE present == template[n] # None
           closed == IF present THEN m_ThreadsDB[n] ELSE {}
<1> USE PoolAssumption, ConnectionFacts DEF PoolInv
<1>1. closed \subseteq Threads
  BY DEF PoolTypeOK
<1>2. PoolTypeOK'
  BY <1>1 DEF PoolTypeOK, remove_connection, checking, outside
<1>3. RemovedStaysRemoved'
  BY DEF PoolTypeOK, RemovedStaysRemoved, remove_connection
<1>4. ASSUME NEW m \in Names, NEW w \in Threads, clone'[w][m] # None,
             <<m, w>> \notin stray'
      PROVE  /\ w \in m_ThreadsDB'[m] /\ m \in m_ThreadOwnedMainDBs'[w]
             /\ clone'[w][m].para = m_dbNames'[m]
  <2>1. m # n
    BY <1>1, <1>4 DEF remove_connection, PoolTypeOK
  <2>2. clone'[w][m] = clone[w][m] /\ <<m, w>> \notin stray
    BY <1>1, <1>4, <2>1 DEF remove_connection, PoolTypeOK
  <2>3. QED
    BY <1>4, <2>1, <2>2 DEF remove_connection, PoolTypeOK, CloneAccounted
<1>5. CloneAccounted'
  BY <1>4 DEF CloneAccounted
<1>6. QED
  BY <1>2, <1>3, <1>5

LEMMA FinishedPoolInv ==
  ASSUME PoolInv, NEW w \in Threads, on_finishedThread(w)
  PROVE  PoolInv'
<1> USE PoolAssumption, ConnectionFacts DEF PoolInv
<1>1. PoolTypeOK'
  BY DEF PoolTypeOK, on_finishedThread, checking, outside
<1>2. RemovedStaysRemoved'
  BY DEF RemovedStaysRemoved, on_finishedThread
<1>3. ASSUME NEW m \in Names, NEW v \in Threads, clone'[v][m] # None,
             <<m, v>> \notin stray'
      PROVE  /\ v \in m_ThreadsDB'[m] /\ m \in m_ThreadOwnedMainDBs'[v]
             /\ clone'[v][m].para = m_dbNames'[m]
  <2>1. ~(v = w /\ m \in m_ThreadOwnedMainDBs[w])
    BY <1>3 DEF on_finishedThread, PoolTypeOK
  <2>2. clone'[v][m] = clone[v][m] /\ <<m, v>> \notin stray
    BY <1>3, <2>1 DEF on_finishedThread, PoolTypeOK
  <2>3. v # w
    BY <1>3, <2>1, <2>2 DEF CloneAccounted
  <2>4. QED
    BY <1>3, <2>2, <2>3 DEF on_finishedThread, PoolTypeOK, CloneAccounted
<1>4. CloneAccounted'
  BY <1>3 DEF CloneAccounted
<1>5. QED
  BY <1>1, <1>2, <1>4

\* A clone and what is recorded of it; nothing else changes.
LEMMA DatabsePoolInv ==
  ASSUME PoolInv, NEW w \in Threads, NEW n \in Names, NEW late \in BOOLEAN,
         databse(w, n, late)
  PROVE  PoolInv'
<1> DEFINE c == database(clone[w][n])
<1> USE PoolAssumption, ConnectionFacts DEF PoolInv
<1>1. UNCHANGED <<m_dbNames, template, checking, outside>>
  BY DEF databse
<1>2. RemovedStaysRemoved'
  BY <1>1 DEF RemovedStaysRemoved
<1>3. CASE UNCHANGED <<clone, ledgers, stray>>
  BY <1>1, <1>2, <1>3 DEF PoolTypeOK, CloneAccounted, ledgers, checking, outside
<1>4. CASE c.state \in {"live", "stale"} /\ Reuse(w, n, c)
  <2>1. clone[w][n] \in Connection /\ c \in Connection /\ c.para = clone[w][n].para
    <3>1. clone[w][n] \in Connection \cup {None}
      BY DEF PoolTypeOK
    <3>2. clone[w][n] # None
      BY <1>4
    <3>3. QED
      BY <3>1, <3>2
  <2> HIDE DEF c
  <2>2. PoolTypeOK'
    BY <1>1, <1>4, <2>1 DEF PoolTypeOK, Reuse, checking, outside
  <2>3. CloneAccounted'
    BY <1>1, <1>4, <2>1 DEF PoolTypeOK, CloneAccounted, Reuse
  <2>4. QED
    BY <1>2, <2>2, <2>3
<1>5. CASE template[n] # None /\ Clone(w, n)
  <2> DEFINE d == Opened(template[n].para)
  <2>1. d \in Connection /\ d.para = m_dbNames[n]
    <3>1. template[n] \in Connection
      BY <1>5 DEF PoolTypeOK
    <3>2. template[n].para \in Paras /\ template[n].para = m_dbNames[n]
      BY <1>5, <3>1 DEF RemovedStaysRemoved
    <3>3. QED
      BY <3>2
  <2>2. PoolTypeOK'
    <3>1. clone' \in [Threads -> [Names -> Connection \cup {None}]]
      BY <1>5, <2>1 DEF PoolTypeOK, Clone
    <3>2. /\ m_ThreadsDB' \in [Names -> SUBSET Threads]
          /\ m_ThreadOwnedMainDBs' \in [Threads -> SUBSET Names]
          /\ stray' \subseteq Names \X Threads
      BY <1>5 DEF PoolTypeOK, Clone
    <3>3. QED
      BY <1>1, <3>1, <3>2 DEF PoolTypeOK, checking, outside
  <2> HIDE DEF d
  <2>3. clone' = [clone EXCEPT ![w][n] = d]
    BY <1>5 DEF Clone, d
  <2>4. \/ /\ m_ThreadsDB' = [m_ThreadsDB EXCEPT ![n] = @ \cup {w}]
           /\ m_ThreadOwnedMainDBs' = [m_ThreadOwnedMainDBs EXCEPT ![w] = @ \cup {n}]
           /\ stray' = stray \ {<<n, w>>}
        \/ /\ m_ThreadsDB' = [m_ThreadsDB EXCEPT ![n] = @ \ {w}]
           /\ m_ThreadOwnedMainDBs' = [m_ThreadOwnedMainDBs EXCEPT ![w] = @ \ {n}]
           /\ stray' = stray \cup {<<n, w>>}
    BY <1>5 DEF Clone
  <2>5. CloneAccounted'
    BY <1>1, <2>1, <2>3, <2>4 DEF PoolTypeOK, CloneAccounted
  <2>6. QED
    BY <1>2, <2>2, <2>5
<1>6. QED
  BY <1>3, <1>4, <1>5 DEF databse

\* A handler closes the clone of its thread, after an error or a fault.
LEMMA ClosePoolInv ==
  ASSUME PoolInv, NEW w \in Threads, NEW n \in Names, clone[w][n] # None,
         clone' = [clone EXCEPT ![w][n].state = "closed"],
         UNCHANGED <<m_dbNames, template, ledgers, checking, up, stray>>,
         faults' \in Nat
  PROVE  PoolInv'
<1> DEFINE d == [clone[w][n] EXCEPT !.state = "closed"]
<1> USE PoolAssumption, ConnectionFacts DEF PoolInv
<1>1. clone[w][n] \in Connection
  BY DEF PoolTypeOK
<1>2. d \in Connection /\ d.para = clone[w][n].para
  BY <1>1
<1>3. clone' = [clone EXCEPT ![w][n] = d]
  OBVIOUS
<1> HIDE DEF d
<1>4. PoolTypeOK'
  BY <1>2, <1>3 DEF PoolTypeOK, ledgers, checking
<1>5. RemovedStaysRemoved'
  BY DEF RemovedStaysRemoved
<1>6. CloneAccounted'
  BY <1>1, <1>2, <1>3 DEF PoolTypeOK, CloneAccounted, ledgers
<1>7. QED
  BY <1>4, <1>5, <1>6

\* The checking thread opens again what still has a name, and nothing else.
LEMMA ConfirmPoolInv ==
  ASSUME PoolInv, NEW n \in Names, ConfirmNext(n)
  PROVE  PoolInv'
<1> DEFINE c == template'[n]
<1> USE PoolAssumption, ConnectionFacts DEF PoolInv
<1>1. /\ c \in Connection \cup {None}
      /\ c # None => c.para = m_dbNames[n]
      /\ template' = [template EXCEPT ![n] = c]
  BY DEF ConfirmNext, confirmConnection, PoolTypeOK, RemovedStaysRemoved
<1> HIDE DEF c
<1>2. PoolTypeOK'
  BY <1>1 DEF PoolTypeOK, ConfirmNext, ledgers, outside
<1>3. RemovedStaysRemoved'
  BY <1>1 DEF PoolTypeOK, RemovedStaysRemoved, ConfirmNext
<1>4. CloneAccounted'
  BY DEF CloneAccounted, ConfirmNext, ledgers
<1>5. QED
  BY <1>2, <1>3, <1>4

\* What databases do to connections keeps their parameters.
LEMMA DropPoolInv ==
  ASSUME PoolInv,
         \A n \in Names : template'[n] \in {template[n], Dropped(template[n])},
         \A w \in Threads, n \in Names : clone'[w][n] \in {clone[w][n], Dropped(clone[w][n])},
         template' = [n \in Names |-> template'[n]],
         clone' = [w \in Threads |-> [n \in Names |-> clone'[w][n]]],
         UNCHANGED <<m_dbNames, ledgers, checking, stray>>,
         up' \subseteq Paras, faults' \in Nat
  PROVE  PoolInv'
<1> USE PoolAssumption, ConnectionFacts DEF PoolInv
<1>1. ASSUME NEW n \in Names
      PROVE  /\ template'[n] \in Connection \cup {None}
             /\ template'[n] # None => /\ template[n] # None
                                       /\ template'[n].para = template[n].para
  <2>1. template[n] \in Connection \cup {None}
    BY DEF PoolTypeOK
  <2>2. QED
    BY <2>1
<1>2. ASSUME NEW w \in Threads, NEW n \in Names
      PROVE  /\ clone'[w][n] \in Connection \cup {None}
             /\ clone'[w][n] # None => /\ clone[w][n] # None
                                       /\ clone'[w][n].para = clone[w][n].para
  <2>1. clone[w][n] \in Connection \cup {None}
    BY DEF PoolTypeOK
  <2>2. clone'[w][n] \in {clone[w][n], Dropped(clone[w][n])}
    OBVIOUS
  <2>3. CASE clone[w][n] = None
    BY <2>2, <2>3
  <2>4. CASE clone[w][n] \in Connection
    BY <2>2, <2>4
  <2>5. QED
    BY <2>1, <2>3, <2>4
<1>3. PoolTypeOK'
  BY <1>1, <1>2 DEF PoolTypeOK, ledgers, checking
<1>4. RemovedStaysRemoved'
  BY <1>1 DEF RemovedStaysRemoved
<1>5. CloneAccounted'
  BY <1>2 DEF CloneAccounted, ledgers
<1>6. QED
  BY <1>3, <1>4, <1>5

LEMMA PoolItselfPoolInv ==
  ASSUME PoolInv, PoolItself
  PROVE  PoolInv'
<1>1. CASE StartRound
  BY <1>1 DEF StartRound, PoolInv, PoolTypeOK, RemovedStaysRemoved, CloneAccounted,
              ledgers, outside
<1>2. CASE EndRound
  BY <1>2 DEF EndRound, PoolInv, PoolTypeOK, RemovedStaysRemoved, CloneAccounted,
              ledgers, outside
<1>3. ASSUME NEW n \in Names, ConfirmNext(n) PROVE PoolInv'
  BY <1>3, ConfirmPoolInv
<1>4. ASSUME NEW n \in Names, Drop(n) PROVE PoolInv'
  <2>1. UNCHANGED <<m_dbNames, ledgers, checking, up, stray>> /\ faults' \in Nat
    BY <1>4 DEF Drop, PoolInv, PoolTypeOK
  <2>2. /\ template' = [m \in Names |-> template'[m]]
        /\ clone' = [w \in Threads |-> [m \in Names |-> clone'[w][m]]]
        /\ \A m \in Names : template'[m] \in {template[m], Dropped(template[m])}
        /\ \A w \in Threads, m \in Names :
             clone'[w][m] \in {clone[w][m], Dropped(clone[w][m])}
    <3>1. CASE /\ template' = [template EXCEPT ![n] = Dropped(@)]
               /\ UNCHANGED clone
      BY <3>1 DEF PoolInv, PoolTypeOK
    <3>2. ASSUME NEW v \in Threads, clone' = [clone EXCEPT ![v][n] = Dropped(@)],
                 UNCHANGED template
          PROVE  <2>2!:
      BY <3>2 DEF PoolInv, PoolTypeOK
    <3>3. QED
      BY <1>4, <3>1, <3>2 DEF Drop
  <2>3. QED
    BY <2>1, <2>2, DropPoolInv DEF PoolInv, PoolTypeOK
<1>5. ASSUME NEW p \in Paras, Outage(p) PROVE PoolInv'
  <2>1. /\ UNCHANGED <<m_dbNames, ledgers, checking, stray>>
        /\ faults' \in Nat /\ up' \subseteq Paras
    BY <1>5 DEF Outage, PoolInv, PoolTypeOK
  <2>2. /\ template' = [m \in Names |-> template'[m]]
        /\ clone' = [w \in Threads |-> [m \in Names |-> clone'[w][m]]]
        /\ \A m \in Names : template'[m] \in {template[m], Dropped(template[m])}
        /\ \A w \in Threads, m \in Names :
             clone'[w][m] \in {clone[w][m], Dropped(clone[w][m])}
    BY <1>5 DEF Outage
  <2>3. QED
    BY <2>1, <2>2, DropPoolInv
<1>6. ASSUME NEW p \in Paras, Recover(p) PROVE PoolInv'
  BY <1>6 DEF Recover, PoolInv, PoolTypeOK, RemovedStaysRemoved, CloneAccounted,
              ledgers, checking
<1>7. QED
  BY <1>1, <1>2, <1>3, <1>4, <1>5, <1>6, Zenon DEF PoolItself

LEMMA ElsewherePoolInv ==
  ASSUME PoolInv, UNCHANGED poolVars
  PROVE  PoolInv'
BY DEF PoolInv, PoolTypeOK, RemovedStaysRemoved, CloneAccounted, poolVars, ledgers,
       checking, outside

LEMMA TerminatePoolInv ==
  ASSUME PoolInv, TerminateMe
  PROVE  PoolInv'
BY DEF TerminateMe, PoolInv, PoolTypeOK, RemovedStaysRemoved, CloneAccounted, ledgers,
       outside

LEMMA NextPoolInv ==
  ASSUME PoolInv, [PoolNext]_poolVars
  PROVE  PoolInv'
<1>1. ASSUME NEW n \in Names, NEW p \in Paras, m_dbNames[n] = NoPara, addConnection(n, p)
      PROVE  PoolInv'
  BY <1>1, AddPoolInv
<1>2. ASSUME NEW n \in Names, remove_connection(n) PROVE PoolInv'
  BY <1>2, RemovePoolInv
<1>3. ASSUME NEW w \in Threads, on_finishedThread(w) PROVE PoolInv'
  BY <1>3, FinishedPoolInv
<1>4. ASSUME NEW w \in Threads, NEW n \in Names, NEW late \in BOOLEAN,
             databse(w, n, late)
      PROVE  PoolInv'
  BY <1>4, DatabsePoolInv
<1>5. ASSUME NEW w \in Threads, NEW n \in Names, clone[w][n] # None, close(w, n)
      PROVE  PoolInv'
  <2>1. faults' \in Nat
    BY <1>5 DEF close, outside, PoolInv, PoolTypeOK
  <2>2. QED
    BY <1>5, <2>1, ClosePoolInv DEF close, outside
<1>6. QED
  BY <1>1, <1>2, <1>3, <1>4, <1>5, PoolItselfPoolInv, ElsewherePoolInv,
     TerminatePoolInv, Zenon DEF PoolNext

\* The inductive invariant of the pool, for any number of names, threads and
\* databases and whatever calls its users make.
THEOREM PoolInvCorrect == PoolSpec => []PoolInv
<1>1. PoolInit => PoolInv
  BY InitPoolInv
<1>2. PoolInv /\ [PoolNext]_poolVars => PoolInv'
  BY NextPoolInv
<1>3. QED
  BY <1>1, <1>2, PTL DEF PoolSpec

-----------------------------------------------------------------------------
(* Requests.  A user is served by one thread at a time, so that what a     *)
(* thread knows of his relations between reading and writing stays true:   *)
(* it holds what he counts on until it has written it.                     *)

RequestTypes ==
  /\ session \in [Users -> {"offline", "in"}]
  /\ life \in [Threads -> {"none", "running", "leaving", "finished", "collected"}]
  /\ pc \in [Threads -> {"idle", "login_db", "login", "load_db", "load",
                         "save_db", "delete", "insert"}]
  /\ request \in [Threads -> {"none", "login", "upload", "download"}]
  /\ serving \in [Threads -> Users \cup {NoUser}]
  /\ handle \in [Threads -> Paras \cup {NoPara}]
  /\ m_matched_nodes \in [Threads -> SUBSET Friends]
  /\ relations \in [Paras -> [Users -> SUBSET Friends]]
  /\ acked \in [Paras -> [Users -> SUBSET Friends]]
  /\ requests \in Nat

\* One thread a user, and none for an idle one.
ServingInv ==
  /\ \A v, w \in Threads : serving[v] = serving[w] /\ serving[v] # NoUser => v = w
  /\ \A w \in Threads : pc[w] = "idle" <=> serving[w] = NoUser

Writing == {"load", "save_db", "delete", "insert"}

\* What a thread holds of the relations it is about to replace.
HoldsInv ==
  \A w \in Threads :
    LET known == acked[handle[w]][serving[w]] IN
      /\ pc[w] \in Writing => handle[w] \in Paras
      /\ pc[w] \in {"save_db", "delete"} => known \subseteq m_matched_nodes[w]
      /\ pc[w] = "insert" =>
           known \subseteq m_matched_nodes[w] \cup relations[handle[w]][serving[w]]

RequestInv == RequestTypes /\ ServingInv /\ HoldsInv /\ AckedKept

requestVars == <<pc, request, serving, handle, m_matched_nodes, dataVars>>

LEMMA InitRequestInv == Init => RequestInv
<1> SUFFICES ASSUME Init PROVE RequestInv
  OBVIOUS
<1>1. RequestTypes
  BY DEF Init, RequestTypes
<1>2. ServingInv /\ HoldsInv /\ AckedKept
  BY DEF Init, ServingInv, HoldsInv, AckedKept, Writing
<1>3. QED
  BY <1>1, <1>2 DEF RequestInv

\* The main thread starts and stops threads, and changes nothing of a request.
LEMMA ElsewhereRequestInv ==
  ASSUME RequestInv, UNCHANGED requestVars, RequestTypes'
  PROVE  RequestInv'
BY DEF RequestInv, ServingInv, HoldsInv, AckedKept, requestVars, dataVars

\* A request is over, and nothing has been written since it was last in order.
LEMMA AnswerRequestInv ==
  ASSUME RequestInv, NEW w \in Threads, pc[w] # "idle", NEW ok \in BOOLEAN, Answer(w, ok),
         UNCHANGED <<life, relations, requests>>,
         \/ /\ pc[w] # "insert" /\ UNCHANGED acked
         \/ /\ pc[w] = "insert"
            /\ \E set \in SUBSET relations[handle[w]][serving[w]] :
                 acked' = [acked EXCEPT ![handle[w]][serving[w]] = set]
  PROVE  RequestInv'
<1> DEFINE p == handle[w]
           u == serving[w]
<1> USE ServerAssumption DEF RequestInv
<1>1. u \in Users /\ (pc[w] = "insert" => p \in Paras)
  BY DEF RequestTypes, ServingInv, HoldsInv, Writing
<1>2. /\ pc' = [pc EXCEPT ![w] = "idle"]
      /\ serving' = [serving EXCEPT ![w] = NoUser]
      /\ handle' = [handle EXCEPT ![w] = NoPara]
      /\ m_matched_nodes' = [m_matched_nodes EXCEPT ![w] = {}]
      /\ relations' = relations
  BY DEF Answer, Goto
<1>3. RequestTypes'
  <2>1. acked' \in [Paras -> [Users -> SUBSET Friends]]
    <3>1. ASSUME pc[w] = "insert", NEW set \in SUBSET relations[p][u],
                 acked' = [acked EXCEPT ![p][u] = set]
          PROVE  acked' \in [Paras -> [Users -> SUBSET Friends]]
      <4>1. p \in Paras /\ set \subseteq Friends
        BY <1>1, <3>1 DEF RequestTypes
      <4> HIDE DEF p, u
      <4>2. QED
        BY <1>1, <3>1, <4>1 DEF RequestTypes
    <3>2. QED
      BY <3>1 DEF RequestTypes
  <2>2. QED
    BY <1>1, <1>2, <2>1 DEF RequestTypes, Answer
<1>4. ServingInv'
  BY <1>2 DEF RequestTypes, ServingInv
<1>5. \A v \in Threads \ {w} : serving[v] # u
  BY <1>1 DEF ServingInv
<1>6. \A q \in Paras, x \in Users : x # u => acked'[q][x] = acked[q][x]
  BY <1>1 DEF RequestTypes
<1>7. HoldsInv'
  <2>1. pc'[w] = "idle"
    BY <1>2 DEF RequestTypes
  <2>2. ASSUME NEW v \in Threads \ {w}
        PROVE  /\ UNCHANGED <<pc[v], handle[v], serving[v], m_matched_nodes[v]>>
               /\ pc[v] \in Writing =>
                    acked'[handle[v]][serving[v]] = acked[handle[v]][serving[v]]
    <3>1. UNCHANGED <<pc[v], handle[v], serving[v], m_matched_nodes[v]>>
      BY <1>2 DEF RequestTypes
    <3>2. pc[v] \in Writing => serving[v] \in Users /\ handle[v] \in Paras
      BY DEF RequestTypes, ServingInv, HoldsInv, Writing
    <3>3. QED
      BY <1>5, <1>6, <3>1, <3>2
  <2>3. QED
    BY <1>2, <2>1, <2>2 DEF HoldsInv, Writing
<1>8. ASSUME NEW q \in Paras, NEW x \in Users
      PROVE  \/ acked'[q][x] \subseteq relations'[q][x]
             \/ \E v \in Threads : serving'[v] = x /\ handle'[v] = q /\ pc'[v] = "insert"
  <2>1. CASE x # u
    <3>1. acked'[q][x] = acked[q][x]
      BY <1>6, <2>1
    <3>2. CASE acked[q][x] \subseteq relations[q][x]
      BY <1>2, <3>1, <3>2
    <3>3. ASSUME NEW v \in Threads, serving[v] = x, handle[v] = q, pc[v] = "insert"
          PROVE  serving'[v] = x /\ handle'[v] = q /\ pc'[v] = "insert"
      BY <1>2, <2>1, <3>3 DEF RequestTypes
    <3>4. QED
      BY <3>2, <3>3 DEF AckedKept
  <2>2. CASE x = u /\ pc[w] = "insert" /\ q = p
    BY <1>1, <1>2, <2>2 DEF RequestTypes
  <2>3. CASE x = u /\ (pc[w] # "insert" \/ q # p)
    <3>1. acked'[q][x] = acked[q][x]
      BY <1>1, <2>3 DEF RequestTypes
    <3>2. ~ \E v \in Threads : serving[v] = x /\ handle[v] = q /\ pc[v] = "insert"
      BY <1>5, <2>3
    <3>3. QED
      BY <1>2, <3>1, <3>2 DEF AckedKept
  <2>4. QED
    BY <2>1, <2>2, <2>3
<1>9. AckedKept'
  BY <1>8 DEF AckedKept
<1>10. QED
  BY <1>3, <1>4, <1>7, <1>9

\* A step within a request touches the relations of its user alone.
LEMMA OwnStepRequestInv ==
  ASSUME RequestInv, RequestTypes', NEW w \in Threads, pc[w] # "idle", pc'[w] # "idle",
         UNCHANGED serving,
         \A v \in Threads \ {w} : UNCHANGED <<pc[v], handle[v], m_matched_nodes[v]>>,
         \A q \in Paras, x \in Users :
           x # serving[w] => UNCHANGED <<acked[q][x], relations[q][x]>>,
         pc'[w] \in Writing => handle'[w] \in Paras,
         pc'[w] \in {"save_db", "delete"} =>
           acked'[handle'[w]][serving[w]] \subseteq m_matched_nodes'[w],
         pc'[w] = "insert" =>
           acked'[handle'[w]][serving[w]] \subseteq
             m_matched_nodes'[w] \cup relations'[handle'[w]][serving[w]],
         \A q \in Paras :
           \/ acked'[q][serving[w]] \subseteq relations'[q][serving[w]]
           \/ handle'[w] = q /\ pc'[w] = "insert"
  PROVE  RequestInv'
<1> DEFINE u == serving[w]
<1> USE ServerAssumption DEF RequestInv
<1>1. u \in Users
  BY DEF RequestTypes, ServingInv
<1>2. ServingInv'
  BY DEF ServingInv, RequestTypes
<1>3. ASSUME NEW v \in Threads \ {w}
      PROVE  /\ UNCHANGED <<pc[v], handle[v], m_matched_nodes[v], serving[v]>>
             /\ serving[v] # u
             /\ pc[v] \in Writing =>
                  /\ acked'[handle[v]][serving[v]] = acked[handle[v]][serving[v]]
                  /\ relations'[handle[v]][serving[v]] = relations[handle[v]][serving[v]]
  <2>1. serving[v] # u
    BY <1>1 DEF ServingInv
  <2>2. pc[v] \in Writing => serving[v] \in Users /\ handle[v] \in Paras
    BY DEF RequestTypes, ServingInv, HoldsInv, Writing
  <2>3. QED
    BY <2>1, <2>2
<1>4. HoldsInv'
  BY <1>3 DEF HoldsInv, Writing
<1>5. ASSUME NEW q \in Paras, NEW x \in Users
      PROVE  \/ acked'[q][x] \subseteq relations'[q][x]
             \/ \E v \in Threads : serving'[v] = x /\ handle'[v] = q /\ pc'[v] = "insert"
  <2>1. CASE x = u
    BY <2>1
  <2>2. CASE x # u /\ acked[q][x] \subseteq relations[q][x]
    BY <2>2
  <2>3. ASSUME x # u, NEW v \in Threads, serving[v] = x, handle[v] = q, pc[v] = "insert"
        PROVE  serving'[v] = x /\ handle'[v] = q /\ pc'[v] = "insert"
    BY <1>3, <2>3
  <2>4. QED
    BY <2>1, <2>2, <2>3 DEF AckedKept
<1>6. AckedKept'
  BY <1>5 DEF AckedKept
<1>7. QED
  BY <1>2, <1>4, <1>6

\* A thread that does not insert has left its user's relations in order.
LEMMA InOrderUnlessInserting ==
  ASSUME RequestInv, NEW w \in Threads, pc[w] \notin {"idle", "insert"}
  PROVE  \A q \in Paras : acked[q][serving[w]] \subseteq relations[q][serving[w]]
<1>1. serving[w] \in Users /\ \A v \in Threads : serving[v] = serving[w] => v = w
  BY ServerAssumption DEF RequestInv, RequestTypes, ServingInv
<1>2. QED
  BY <1>1 DEF RequestInv, AckedKept

LEMMA DealRequestInv ==
  ASSUME RequestInv, NEW w \in Threads, NEW u \in Users,
         NEW kind \in {"login", "upload", "download"},
         deal_current_message_block(w, u, kind)
  PROVE  RequestInv'
<1> USE ServerAssumption DEF RequestInv
<1>1. /\ pc[w] = "idle" /\ \A v \in Threads : serving[v] # u
      /\ serving' = [serving EXCEPT ![w] = u]
      /\ pc' = [pc EXCEPT ![w] = IF kind = "login" THEN "login_db" ELSE "load_db"]
      /\ UNCHANGED <<handle, m_matched_nodes, relations, acked>>
  BY DEF deal_current_message_block, Goto
<1>2. RequestTypes'
  BY <1>1 DEF RequestTypes, deal_current_message_block
<1>3. ServingInv'
  BY <1>1 DEF RequestTypes, ServingInv
<1>4. pc'[w] \notin Writing
  BY <1>1 DEF RequestTypes, Writing
<1>5. \A v \in Threads \ {w} : UNCHANGED <<pc[v], serving[v]>>
  BY <1>1 DEF RequestTypes
<1>6. HoldsInv'
  BY <1>1, <1>4, <1>5 DEF HoldsInv, Writing
<1>7. \A v \in Threads : pc[v] = "insert" => UNCHANGED <<pc[v], serving[v]>>
  BY <1>1, <1>5
<1>8. AckedKept'
  BY <1>1, <1>7 DEF AckedKept
<1>9. QED
  BY <1>2, <1>3, <1>6, <1>8

LEMMA AskRequestInv ==
  ASSUME RequestInv, PoolInv, PoolInv', NEW w \in Threads, AskForDatabase(w)
  PROVE  RequestInv'
<1> DEFINE c == clone'[w][Account]
           u == serving[w]
           next == Next_db[pc[w]]
<1> USE ServerAssumption
<1>1. /\ pc[w] \in {"login_db", "load_db", "save_db"}
      /\ next \in {"login", "load", "delete"}
      /\ next = "delete" <=> pc[w] = "save_db"
      /\ next = "load" <=> pc[w] = "load_db"
  BY DEF AskForDatabase, Next_db
<1>2. UNCHANGED <<life, relations, requests>>
  BY DEF AskForDatabase
<1>3. u \in Users
  BY <1>1 DEF RequestInv, RequestTypes, ServingInv
<1>4. ASSUME c.state \in {"live", "stale"},
             handle' = [handle EXCEPT ![w] = c.para], Goto(w, next),
             acked' = IF pc[w] = "save_db" /\ handle[w] # c.para
                      THEN [acked EXCEPT ![c.para][u] = {}] ELSE acked,
             UNCHANGED <<request, serving, m_matched_nodes, session>>
      PROVE  RequestInv'
  <2>1. c \in Connection /\ c.para \in Paras
    <3>1. c \in Connection \cup {None} /\ c # None
      BY <1>4, ConnectionFacts DEF PoolInv, PoolTypeOK
    <3>2. QED
      BY <3>1, ConnectionFacts
  <2> HIDE DEF c, next
  <2>2. pc' = [pc EXCEPT ![w] = next]
    BY <1>4 DEF Goto
  <2>3. RequestTypes'
    BY <1>1, <1>2, <1>3, <1>4, <2>1, <2>2 DEF RequestInv, RequestTypes
  <2>4. /\ pc'[w] = next /\ handle'[w] = c.para
        /\ \A v \in Threads \ {w} : UNCHANGED <<pc[v], handle[v], m_matched_nodes[v]>>
    BY <1>4, <2>2 DEF RequestInv, RequestTypes
  <2>5. \A q \in Paras, x \in Users : x # u => acked'[q][x] = acked[q][x]
    BY <1>3, <1>4, <2>1 DEF RequestInv, RequestTypes
  <2>6. \A q \in Paras : acked'[q][u] \subseteq acked[q][u]
    BY <1>3, <1>4, <2>1 DEF RequestInv, RequestTypes
  <2>7. \A q \in Paras : acked'[q][u] \subseteq relations'[q][u]
    BY <1>1, <1>2, <2>6, InOrderUnlessInserting
  <2>8. pc'[w] = "delete" => acked'[handle'[w]][u] \subseteq m_matched_nodes'[w]
    <3>1. CASE handle[w] = c.para
      BY <1>1, <1>4, <2>4, <3>1 DEF RequestInv, HoldsInv
    <3>2. CASE handle[w] # c.para
      BY <1>1, <1>3, <1>4, <2>1, <2>4, <3>2 DEF RequestInv, RequestTypes
    <3>3. QED
      BY <3>1, <3>2
  <2>9. QED
    BY <1>1, <1>2, <1>4, <2>1, <2>3, <2>4, <2>5, <2>7, <2>8, OwnStepRequestInv
<1>5. ASSUME Answer(w, FALSE), UNCHANGED acked
      PROVE  RequestInv'
  BY <1>1, <1>2, <1>5, AnswerRequestInv
<1>6. QED
  BY <1>4, <1>5 DEF AskForDatabase

LEMMA LoginRequestInv ==
  ASSUME RequestInv, NEW w \in Threads, LoginClient(w)
  PROVE  RequestInv'
<1> USE ServerAssumption
<1>1. pc[w] = "login" /\ UNCHANGED <<life, relations, acked, requests>>
  BY DEF LoginClient
<1>2. ASSUME Goto(w, "load_db"), session' = [session EXCEPT ![serving[w]] = "in"],
             UNCHANGED <<request, serving, handle, m_matched_nodes>>
      PROVE  RequestInv'
  <2>1. /\ pc'[w] = "load_db"
        /\ \A v \in Threads \ {w} : pc'[v] = pc[v]
    BY <1>2 DEF Goto, RequestInv, RequestTypes
  <2>2. RequestTypes'
    BY <1>1, <1>2 DEF Goto, RequestInv, RequestTypes, ServingInv
  <2>3. QED
    BY <1>1, <1>2, <2>1, <2>2, InOrderUnlessInserting, OwnStepRequestInv DEF Writing
<1>3. ASSUME Answer(w, FALSE) PROVE RequestInv'
  BY <1>1, <1>3, AnswerRequestInv
<1>4. QED
  BY <1>2, <1>3 DEF LoginClient

\* What is read includes all that the user counts on.
LEMMA LoadRequestInv ==
  ASSUME RequestInv, NEW w \in Threads, loadRelations(w)
  PROVE  RequestInv'
<1> USE ServerAssumption
<1>1. pc[w] = "load" /\ UNCHANGED <<life, relations, acked, requests>>
  BY DEF loadRelations
<1>2. ASSUME NEW list \in Lists, Goto(w, "save_db"),
             m_matched_nodes' = [m_matched_nodes EXCEPT ![w] =
                                   relations[handle[w]][serving[w]] \cup list],
             UNCHANGED <<request, serving, handle, session>>
      PROVE  RequestInv'
  <2>1. serving[w] \in Users /\ handle[w] \in Paras
    BY <1>1 DEF RequestInv, RequestTypes, ServingInv, HoldsInv, Writing
  <2>2. /\ pc'[w] = "save_db"
        /\ \A v \in Threads \ {w} : UNCHANGED <<pc[v], m_matched_nodes[v]>>
        /\ m_matched_nodes'[w] = relations[handle[w]][serving[w]] \cup list
    BY <1>2 DEF Goto, RequestInv, RequestTypes
  <2>3. RequestTypes'
    BY <1>1, <1>2, <2>1 DEF Goto, RequestInv, RequestTypes
  <2>4. \A q \in Paras : acked[q][serving[w]] \subseteq relations[q][serving[w]]
    BY <1>1, InOrderUnlessInserting
  <2>5. QED
    BY <1>1, <1>2, <2>1, <2>2, <2>3, <2>4, OwnStepRequestInv
<1>3. ASSUME Answer(w, TRUE) PROVE RequestInv'
  BY <1>1, <1>3, AnswerRequestInv
<1>4. QED
  BY <1>2, <1>3 DEF loadRelations

\* From here on the relations are incomplete, and the thread has the rest.
LEMMA DeleteRequestInv ==
  ASSUME RequestInv, NEW w \in Threads, DeleteRelations(w)
  PROVE  RequestInv'
<1> DEFINE p == handle[w]
           u == serving[w]
<1> USE ServerAssumption
<1>1. /\ pc[w] = "delete" /\ pc' = [pc EXCEPT ![w] = "insert"]
      /\ relations' = [relations EXCEPT ![p][u] = {}]
      /\ UNCHANGED <<life, request, serving, handle, m_matched_nodes, session,
                     acked, requests>>
  BY DEF DeleteRelations, Goto
<1>2. u \in Users /\ p \in Paras /\ acked[p][u] \subseteq m_matched_nodes[w]
  BY <1>1 DEF RequestInv, RequestTypes, ServingInv, HoldsInv, Writing
<1>3. RequestTypes'
  BY <1>1, <1>2 DEF RequestInv, RequestTypes
<1>4. /\ pc'[w] = "insert" /\ \A v \in Threads \ {w} : pc'[v] = pc[v]
      /\ \A q \in Paras, x \in Users : q # p \/ x # u => relations'[q][x] = relations[q][x]
  BY <1>1, <1>2 DEF RequestInv, RequestTypes
<1>5. \A q \in Paras : acked[q][u] \subseteq relations[q][u]
  BY <1>1, InOrderUnlessInserting
<1>6. \A q \in Paras : acked'[q][u] \subseteq relations'[q][u]
                       \/ (handle'[w] = q /\ pc'[w] = "insert")
  BY <1>1, <1>2, <1>4, <1>5
<1>7. QED
  BY <1>1, <1>2, <1>3, <1>4, <1>6, OwnStepRequestInv

LEMMA InsertRequestInv ==
  ASSUME RequestInv, NEW w \in Threads, InsertRelation(w)
  PROVE  RequestInv'
<1> DEFINE p == handle[w]
           u == serving[w]
<1> USE ServerAssumption
<1>1. PICK f \in m_matched_nodes[w] :
        /\ m_matched_nodes' = [m_matched_nodes EXCEPT ![w] = @ \ {f}]
        /\ relations' = [relations EXCEPT ![p][u] = @ \cup {f}]
  BY DEF InsertRelation
<1>2. /\ pc[w] = "insert"
      /\ UNCHANGED <<life, pc, request, serving, handle, session, acked, requests>>
  BY DEF InsertRelation
<1>3. /\ u \in Users /\ p \in Paras
      /\ acked[p][u] \subseteq m_matched_nodes[w] \cup relations[p][u]
  BY <1>2 DEF RequestInv, RequestTypes, ServingInv, HoldsInv, Writing
<1>4. RequestTypes'
  BY <1>1, <1>2, <1>3 DEF RequestInv, RequestTypes
<1>5. /\ \A v \in Threads \ {w} : m_matched_nodes'[v] = m_matched_nodes[v]
      /\ m_matched_nodes'[w] = m_matched_nodes[w] \ {f}
      /\ relations'[p][u] = relations[p][u] \cup {f}
      /\ \A q \in Paras, x \in Users : q # p \/ x # u => relations'[q][x] = relations[q][x]
  BY <1>1, <1>3 DEF RequestInv, RequestTypes
<1>6. \A q \in Paras : q # p => acked[q][u] \subseteq relations[q][u]
  <2>1. \A v \in Threads : serving[v] = u => v = w
    BY <1>3 DEF RequestInv, ServingInv
  <2>2. QED
    BY <1>3, <2>1 DEF RequestInv, AckedKept
<1>7. \A q \in Paras : acked'[q][u] \subseteq relations'[q][u]
                       \/ (handle'[w] = q /\ pc'[w] = "insert")
  <2>1. handle'[w] = p /\ pc'[w] = "insert" /\ acked' = acked
    BY <1>2
  <2>2. \A q \in Paras : q # p => relations'[q][u] = relations[q][u]
    BY <1>3, <1>5
  <2> HIDE DEF p, u
  <2>3. QED
    BY <1>6, <2>1, <2>2
<1>8. acked'[handle'[w]][u] \subseteq m_matched_nodes'[w] \cup relations'[handle'[w]][u]
  BY <1>2, <1>3, <1>5
<1>9. QED
  BY <1>2, <1>3, <1>4, <1>5, <1>7, <1>8, OwnStepRequestInv

\* All is written: what the user counted on is there, and what he is told now.
LEMMA SavedRequestInv ==
  ASSUME RequestInv, NEW w \in Threads, RelationsSaved(w)
  PROVE  RequestInv'
<1> DEFINE p == handle[w]
           u == serving[w]
<1> USE ServerAssumption
<1>1. /\ pc[w] = "insert" /\ m_matched_nodes[w] = {}
      /\ acked' = [acked EXCEPT ![p][u] = @ \cup relations[p][u]]
      /\ Answer(w, TRUE) /\ UNCHANGED <<life, relations, requests>>
  BY DEF RelationsSaved
<1>2. u \in Users /\ p \in Paras /\ acked[p][u] \subseteq relations[p][u]
  BY <1>1 DEF RequestInv, RequestTypes, ServingInv, HoldsInv, Writing
<1>3. acked' = [acked EXCEPT ![p][u] = relations[p][u]]
  BY <1>1, <1>2
<1>4. QED
  BY <1>1, <1>3, AnswerRequestInv

LEMMA FailsRequestInv ==
  ASSUME RequestInv, NEW w \in Threads, StatementFails(w)
  PROVE  RequestInv'
<1> DEFINE p == handle[w]
           u == serving[w]
<1> USE ServerAssumption
<1>1. /\ pc[w] \in {"login", "load", "delete", "insert"}
      /\ Answer(w, FALSE) /\ UNCHANGED <<life, relations, requests>>
      /\ acked' = IF pc[w] # "insert" THEN acked
                  ELSE [acked EXCEPT ![p][u] = @ \cap relations[p][u]]
  BY DEF StatementFails
<1>2. CASE pc[w] # "insert"
  BY <1>1, <1>2, AnswerRequestInv
<1>3. CASE pc[w] = "insert"
  <2> DEFINE set == acked[p][u] \cap relations[p][u]
  <2>1. acked' = [acked EXCEPT ![p][u] = set] /\ set \in SUBSET relations[p][u]
    BY <1>1, <1>3
  <2> HIDE DEF set
  <2>2. QED
    BY <1>1, <1>3, <2>1, AnswerRequestInv
<1>4. QED
  BY <1>2, <1>3

-----------------------------------------------------------------------------
(* The main thread.  The button is down from a start to the next stop; the *)
(* listeners are told to stop and waited for before they are added again.  *)

MainTypes ==
  /\ action_Start_Stop \in BOOLEAN
  /\ mainPc \in {"idle", "wait_net", "remove", "add", "wait_cluster",
                 "wait_exit", "gone"}
  /\ job \in {"none", "start", "stop", "exit"} /\ toDo \subseteq Names
  /\ listening \in [{"net", "cluster"} -> {"none", "starting", "on", "closed"}]
  /\ stops \subseteq {"net", "cluster"} /\ refused \subseteq {"net", "cluster"}

\* A name is added only after it has been removed: the names to be removed are
\* all that are there, and nobody else adds one.
AddInv ==
  /\ mainPc = "remove" /\ job = "start" => Listed \subseteq toDo
  /\ mainPc = "add" => \A n \in toDo : m_dbNames[n] = NoPara

\* The start of x has not been in vain, unless x has reported so.
Up(x) == (listening[x] \in {"starting", "on"} /\ x \notin stops) \/ x \in refused

\* Only a listener that is in its engine's map is told to stop.  Which of them
\* have been started, as far as the start has come.
ListenInv ==
  /\ \A x \in stops : listening[x] # "none"
  /\ job = "stop" => ~action_Start_Stop
  /\ job = "none" => ~action_Start_Stop /\ mainPc = "idle"
  /\ job = "exit" => mainPc \in {"remove", "wait_exit", "gone"}
  /\ mainPc \in {"wait_net", "add", "wait_cluster"} => job = "start"
  /\ job = "start" /\ mainPc \in {"remove", "add", "wait_cluster", "idle"} => Up("net")
  /\ job = "start" /\ mainPc = "idle" => Up("cluster")

MainInv == MainTypes /\ AddInv /\ ListenInv

IInv == PoolInv /\ RequestInv /\ MainInv

LEMMA InitMainInv == Init => MainInv
BY DEF Init, MainInv, MainTypes, AddInv, ListenInv

\* Started, the server listens.
LEMMA StartedInv == MainInv => StartedListens
BY DEF MainInv, MainTypes, ListenInv, Up, StartedListens

\* A working thread leaves the main thread and the names alone.
LEMMA WorkingInv ==
  ASSUME IInv, NEW w \in Threads, WorkingThread(w)
  PROVE  IInv'
<1> USE ServerAssumption DEF IInv
<1>1. ASSUME UNCHANGED <<mainVars, m_dbNames>> PROVE MainInv'
  BY <1>1 DEF MainInv, MainTypes, AddInv, ListenInv, Up, Listed, mainVars, frameVars, listeners
<1>2. ASSUME UNCHANGED poolVars PROVE UNCHANGED m_dbNames
  BY <1>2 DEF poolVars
<1>3. ASSUME NEW u \in Users, NEW kind \in {"login", "upload", "download"},
             deal_current_message_block(w, u, kind)
      PROVE  IInv'
  BY <1>1, <1>2, <1>3, ElsewherePoolInv, DealRequestInv DEF deal_current_message_block
<1>4. ASSUME AskForDatabase(w) PROVE IInv'
  <2>1. PICK late \in BOOLEAN : databse(w, Account, late)
    BY <1>4 DEF AskForDatabase
  <2>2. PoolInv' /\ UNCHANGED m_dbNames
    BY <2>1, DatabsePoolInv DEF databse
  <2>3. RequestInv' /\ UNCHANGED mainVars
    BY <1>4, <2>2, AskRequestInv DEF AskForDatabase
  <2>4. QED
    BY <1>1, <2>2, <2>3
<1>5. CASE LoginClient(w)
  BY <1>1, <1>2, <1>5, ElsewherePoolInv, LoginRequestInv DEF LoginClient
<1>6. CASE loadRelations(w)
  BY <1>1, <1>2, <1>6, ElsewherePoolInv, LoadRequestInv DEF loadRelations
<1>7. CASE DeleteRelations(w)
  BY <1>1, <1>2, <1>7, ElsewherePoolInv, DeleteRequestInv DEF DeleteRelations
<1>8. CASE InsertRelation(w)
  BY <1>1, <1>2, <1>8, ElsewherePoolInv, InsertRequestInv DEF InsertRelation
<1>9. CASE RelationsSaved(w)
  BY <1>1, <1>2, <1>9, ElsewherePoolInv, SavedRequestInv DEF RelationsSaved
<1>10. CASE StatementFails(w)
  <2>1. /\ UNCHANGED <<m_dbNames, template, ledgers, checking, up, stray, mainVars>>
        /\ clone' = IF clone[w][Account] = None THEN clone
                    ELSE [clone EXCEPT ![w][Account].state = "closed"]
    BY <1>10 DEF StatementFails
  <2>2. faults' \in Nat
    BY <1>10 DEF StatementFails, PoolInv, PoolTypeOK
  <2>3. CASE clone[w][Account] = None
    <3>1. clone[w][Account].state # "live"
      BY <2>3, ConnectionFacts
    <3>2. UNCHANGED poolVars
      BY <1>10, <2>1, <2>3, <3>1 DEF StatementFails, Statement, poolVars, outside
    <3>3. QED
      BY <1>1, <1>10, <2>1, <3>2, ElsewherePoolInv, FailsRequestInv
  <2>4. CASE clone[w][Account] # None
    <3>1. PoolInv'
      BY <2>1, <2>2, <2>4, ClosePoolInv
    <3>2. QED
      BY <1>1, <1>10, <2>1, <3>1, FailsRequestInv
  <2>5. QED
    BY <2>3, <2>4
<1>11. CASE setStopMark(w)
  <2>1. UNCHANGED <<poolVars, requestVars, mainVars>> /\ RequestTypes'
    BY <1>11 DEF setStopMark, requestVars, dataVars, RequestInv, RequestTypes
  <2>2. QED
    BY <1>1, <1>2, <2>1, ElsewherePoolInv, ElsewhereRequestInv
<1>12. QED
  BY <1>3, <1>4, <1>5, <1>6, <1>7, <1>8, <1>9, <1>10, <1>11 DEF WorkingThread

\* Listeners that are told to stop are the only ones that change.
LEMMA RemoveFacts ==
  ASSUME MainTypes, ListenInv, NEW xs \in SUBSET {"net", "cluster"}, RemoveAddresses(xs)
  PROVE  /\ UNCHANGED <<listening, refused>>
         /\ stops' \subseteq {"net", "cluster"}
         /\ \A x \in stops' : listening'[x] # "none"
         /\ \A x \in {"net", "cluster"} : x \notin xs => (Up(x)' <=> Up(x))
<1>1. /\ UNCHANGED <<listening, refused>>
      /\ stops' = stops \cup {x \in xs : listening[x] # "none"}
  BY DEF RemoveAddresses
<1>2. \A x \in stops : listening[x] # "none"
  BY DEF ListenInv
<1>3. stops' \subseteq {"net", "cluster"}
  BY <1>1 DEF MainTypes
<1>4. \A x \in {"net", "cluster"} : x \notin xs => (x \in stops' <=> x \in stops)
  BY <1>1
<1>5. QED
  BY <1>1, <1>2, <1>3, <1>4 DEF Up

\* A listener that is added is about to start.
LEMMA AddFacts ==
  ASSUME MainTypes, ListenInv, NEW x \in {"net", "cluster"}, listening[x] = "none",
         AddListeningAddress(x)
  PROVE  /\ listening' \in [{"net", "cluster"} -> {"none", "starting", "on", "closed"}]
         /\ refused' \subseteq {"net", "cluster"} /\ stops' = stops
         /\ \A y \in stops' : listening'[y] # "none"
         /\ Up(x)' /\ \A y \in {"net", "cluster"} : Up(y) => Up(y)'
<1>1. /\ listening' = [listening EXCEPT ![x] = "starting"]
      /\ refused' = refused \ {x} /\ stops' = stops /\ x \notin stops
  BY DEF AddListeningAddress, ListenInv
<1>2. QED
  BY <1>1 DEF MainTypes, ListenInv, Up

\* A step of the main thread or of a listener with the main thread's variables
\* in order keeps the invariant if it does nothing to pool and requests.
LEMMA MainStepInv ==
  ASSUME IInv, PoolInv', UNCHANGED requestVars,
         life' \in [Threads -> {"none", "running", "leaving", "finished", "collected"}],
         MainInv'
  PROVE  IInv'
<1>1. RequestTypes'
  BY DEF IInv, RequestInv, RequestTypes, requestVars, dataVars
<1>2. QED
  BY <1>1, ElsewhereRequestInv DEF IInv

\* The start, up to the removal of the connections.
LEMMA StartInv ==
  ASSUME IInv, Start \/ forkServer \/ StartCluster
  PROVE  IInv'
<1> USE ServerAssumption DEF IInv, MainInv
<1>1. PoolInv' /\ UNCHANGED <<requestVars, m_dbNames>>
  BY ElsewherePoolInv
     DEF Start, forkServer, StartCluster, requestVars, threadVars, poolVars
<1>2. life' \in [Threads -> {"none", "running", "leaving", "finished", "collected"}]
  BY DEF Start, forkServer, StartCluster, threadVars, RequestInv, RequestTypes
<1>3. CASE Start
  <2>1. RemoveAddresses({"net"})
    BY <1>3 DEF Start
  <2>2. /\ UNCHANGED <<listening, refused>> /\ stops' \subseteq {"net", "cluster"}
        /\ \A x \in stops' : listening'[x] # "none"
    BY <2>1, RemoveFacts
  <2>3. MainTypes'
    BY <1>3, <2>2 DEF Start, MainAt, MainTypes
  <2>4. AddInv' /\ ListenInv'
    BY <1>3, <2>2 DEF Start, MainAt, AddInv, ListenInv
  <2>5. QED
    BY <1>1, <1>2, <2>3, <2>4, MainStepInv
<1>4. CASE forkServer
  <2>1. listening["net"] = "none" /\ AddListeningAddress("net") /\ "net" \in {"net", "cluster"}
    BY <1>4 DEF forkServer
  <2>2. /\ listening' \in [{"net", "cluster"} -> {"none", "starting", "on", "closed"}]
        /\ refused' \subseteq {"net", "cluster"} /\ stops' = stops
        /\ \A y \in stops' : listening'[y] # "none"
        /\ Up("net")'
    BY <2>1, AddFacts
  <2>3. MainTypes'
    BY <1>4, <2>2 DEF forkServer, MainAt, MainTypes, Listed
  <2>4. AddInv'
    BY <1>1, <1>4 DEF forkServer, MainAt, AddInv, Listed
  <2>5. ListenInv'
    BY <1>4, <2>2 DEF forkServer, MainAt, ListenInv
  <2>6. QED
    BY <1>1, <1>2, <2>3, <2>4, <2>5, MainStepInv
<1>5. CASE StartCluster
  <2>1. /\ listening["cluster"] = "none" /\ AddListeningAddress("cluster")
        /\ "cluster" \in {"net", "cluster"} /\ "net" \in {"net", "cluster"}
    BY <1>5 DEF StartCluster
  <2>2. /\ listening' \in [{"net", "cluster"} -> {"none", "starting", "on", "closed"}]
        /\ refused' \subseteq {"net", "cluster"} /\ stops' = stops
        /\ \A y \in stops' : listening'[y] # "none"
        /\ Up("cluster")' /\ (Up("net") => Up("net")')
    BY <2>1, AddFacts
  <2>3. MainTypes'
    BY <1>5, <2>2 DEF StartCluster, MainAt, MainTypes
  <2>4. AddInv'
    BY <1>5 DEF StartCluster, MainAt, AddInv
  <2>5. ListenInv'
    BY <1>5, <2>2 DEF StartCluster, MainAt, ListenInv
  <2>6. QED
    BY <1>1, <1>2, <2>3, <2>4, <2>5, MainStepInv
<1>6. QED
  BY <1>3, <1>4, <1>5

LEMMA AddDatabaseInv ==
  ASSUME IInv, AddDatabase
  PROVE  IInv'
<1> USE ServerAssumption DEF IInv, MainInv
<1>1. /\ mainPc = "add" /\ UNCHANGED <<requestVars, life, action_Start_Stop, job>>
      /\ life' \in [Threads -> {"none", "running", "leaving", "finished", "collected"}]
  BY DEF AddDatabase, threadVars, requestVars, RequestInv, RequestTypes
<1>2. ASSUME NEW n \in toDo, NEW p \in Paras, addConnection(n, p), toDo' = toDo \ {n},
             UNCHANGED <<mainPc, listeners>>
      PROVE  IInv'
  <2>1. n \in Names /\ m_dbNames[n] = NoPara
    BY <1>1 DEF MainTypes, AddInv
  <2>2. PoolInv'
    BY <1>2, <2>1, AddPoolInv
  <2>3. MainTypes' /\ ListenInv'
    BY <1>1, <1>2 DEF MainTypes, ListenInv, Up, listeners
  <2>4. \A m \in toDo' : m_dbNames'[m] = m_dbNames[m]
    BY <1>2 DEF addConnection, PoolInv, PoolTypeOK, MainTypes
  <2>5. AddInv'
    BY <1>1, <1>2, <2>4 DEF AddInv
  <2>6. QED
    BY <1>1, <2>2, <2>3, <2>5, MainStepInv
<1>3. ASSUME RemoveAddresses({"cluster"}), MainAt("wait_cluster"),
             UNCHANGED <<poolVars, toDo>>
      PROVE  IInv'
  <2>1. "net" \in {"net", "cluster"} /\ "net" \notin {"cluster"}
    OBVIOUS
  <2>2. /\ UNCHANGED <<listening, refused>> /\ stops' \subseteq {"net", "cluster"}
        /\ \A x \in stops' : listening'[x] # "none"
        /\ Up("net")' <=> Up("net")
    BY <1>3, <2>1, RemoveFacts
  <2>3. MainTypes'
    BY <1>1, <1>3, <2>2 DEF MainTypes, MainAt
  <2>4. AddInv' /\ ListenInv'
    BY <1>1, <1>3, <2>2 DEF AddInv, ListenInv, MainAt
  <2>5. QED
    BY <1>1, <1>3, <2>3, <2>4, ElsewherePoolInv, MainStepInv
<1>4. QED
  BY <1>2, <1>3 DEF AddDatabase

\* All that were there are gone when names are added again.
LEMMA RemoveDatabaseInv ==
  ASSUME IInv, RemoveDatabase
  PROVE  IInv'
<1> USE ServerAssumption DEF IInv, MainInv
<1>1. mainPc = "remove" /\ UNCHANGED <<requestVars, action_Start_Stop, job>>
  BY DEF RemoveDatabase, threadVars, requestVars
<1>2. life' \in [Threads -> {"none", "running", "leaving", "finished", "collected"}]
  BY DEF RemoveDatabase, removeThreads, threadVars, RequestInv, RequestTypes
<1>3. ASSUME NEW n \in toDo, remove_connection(n), toDo' = toDo \ {n},
             UNCHANGED <<mainPc, listeners>>
      PROVE  IInv'
  <2>1. n \in Names
    BY DEF MainTypes
  <2>2. PoolInv'
    BY <1>3, <2>1, RemovePoolInv
  <2>3. MainTypes' /\ ListenInv'
    BY <1>1, <1>3 DEF MainTypes, ListenInv, Up, listeners
  <2>4. m_dbNames' = [m_dbNames EXCEPT ![n] = NoPara]
    BY <1>3 DEF remove_connection
  <2>5. AddInv'
    BY <1>1, <1>3, <2>1, <2>4 DEF AddInv, Listed, PoolInv, PoolTypeOK
  <2>6. QED
    BY <1>1, <1>2, <2>2, <2>3, <2>5, MainStepInv
<1>4. ASSUME toDo = {}, job = "start", toDo' = Names, MainAt("add"),
             UNCHANGED <<poolVars, listeners>>
      PROVE  IInv'
  <2>1. MainTypes' /\ ListenInv'
    BY <1>1, <1>4 DEF MainTypes, ListenInv, MainAt, Up, listeners
  <2>2. \A n \in Names : m_dbNames'[n] = NoPara
    BY <1>1, <1>4 DEF AddInv, Listed, poolVars
  <2>3. AddInv'
    BY <1>4, <2>2 DEF AddInv, MainAt
  <2>4. QED
    BY <1>1, <1>2, <1>4, <2>1, <2>3, ElsewherePoolInv, MainStepInv
<1>5. ASSUME NEW xs \in SUBSET {"net", "cluster"}, RemoveAddresses(xs),
             NEW at \in {"idle", "wait_exit"}, MainAt(at),
             at = "idle" => job = "stop", at = "wait_exit" => job = "exit",
             UNCHANGED <<poolVars, toDo>>
      PROVE  IInv'
  <2>1. /\ UNCHANGED <<listening, refused>> /\ stops' \subseteq {"net", "cluster"}
        /\ \A x \in stops' : listening'[x] # "none"
    BY <1>5, RemoveFacts
  <2>2. MainTypes'
    BY <1>1, <1>5, <2>1 DEF MainTypes, MainAt
  <2>3. AddInv' /\ ListenInv'
    BY <1>1, <1>5, <2>1 DEF AddInv, ListenInv, MainAt
  <2>4. QED
    BY <1>1, <1>2, <1>5, <2>2, <2>3, ElsewherePoolInv, MainStepInv
<1>6. CASE /\ job = "stop" /\ MainAt("idle") /\ UNCHANGED <<poolVars, toDo>>
           /\ RemoveAddresses(IF TermName = "clusterTerm" THEN {"cluster"} ELSE {})
  BY <1>5, <1>6
<1>7. CASE /\ job = "exit" /\ MainAt("wait_exit") /\ UNCHANGED <<poolVars, toDo>>
           /\ RemoveAddresses({"cluster"})
  BY <1>5, <1>7
<1>8. QED
  BY <1>3, <1>4, <1>6, <1>7 DEF RemoveDatabase

\* The stop, and the end of the program.
LEMMA StopInv ==
  ASSUME IInv, Stop \/ Exit \/ Delete
  PROVE  IInv'
<1> USE ServerAssumption DEF IInv, MainInv
<1>1. PoolInv' /\ UNCHANGED requestVars
  BY ElsewherePoolInv, TerminatePoolInv DEF Stop, Exit, Delete, threadVars, requestVars
<1>2. life' \in [Threads -> {"none", "running", "leaving", "finished", "collected"}]
  BY DEF Stop, Exit, Delete, removeThreads, threadVars, RequestInv, RequestTypes
<1>3. /\ UNCHANGED <<listening, refused>> /\ stops' \subseteq {"net", "cluster"}
      /\ \A x \in stops' : listening'[x] # "none"
  <2>1. ASSUME RemoveAddresses({"net"})
        PROVE  /\ UNCHANGED <<listening, refused>> /\ stops' \subseteq {"net", "cluster"}
               /\ \A x \in stops' : listening'[x] # "none"
    BY <2>1, RemoveFacts
  <2>2. CASE Stop \/ Exit
    BY <2>1, <2>2 DEF Stop, Exit
  <2>3. CASE Delete
    BY <2>3 DEF Delete, listeners, MainTypes, ListenInv
  <2>4. QED
    BY <2>2, <2>3
<1>4. MainTypes'
  BY <1>3 DEF Stop, Exit, Delete, MainTypes, MainAt, Listed
<1>5. AddInv'
  BY DEF Stop, Exit, Delete, AddInv, MainAt
<1>6. ListenInv'
  BY <1>3 DEF Stop, Exit, Delete, ListenInv, MainAt
<1>7. QED
  BY <1>1, <1>2, <1>4, <1>5, <1>6, MainStepInv

\* A listener whose start has not been in vain closes only if it reports so.
LEMMA ListenerInv ==
  ASSUME IInv, NEW x \in DOMAIN listening,
         on_ListenClosed(x) \/ startListen(x) \/ stopListen(x)
  PROVE  IInv'
<1> USE DEF IInv, MainInv
<1>1. PoolInv' /\ UNCHANGED <<requestVars, m_dbNames>>
  BY ElsewherePoolInv
     DEF on_ListenClosed, startListen, stopListen, threadVars, requestVars, poolVars
<1>2. life' \in [Threads -> {"none", "running", "leaving", "finished", "collected"}]
  BY DEF on_ListenClosed, startListen, stopListen, threadVars, RequestInv, RequestTypes
<1>3. UNCHANGED <<action_Start_Stop, mainPc, job, toDo>> /\ x \in {"net", "cluster"}
  BY DEF on_ListenClosed, startListen, stopListen, frameVars, MainTypes
<1>4. MainTypes'
  BY <1>3 DEF on_ListenClosed, startListen, stopListen, MainTypes
<1>5. /\ \A y \in stops' : listening'[y] # "none"
      /\ \A y \in {"net", "cluster"} : Up(y) => Up(y)'
  <2>1. CASE on_ListenClosed(x)
    BY <2>1 DEF on_ListenClosed, MainTypes, ListenInv, Up
  <2>2. CASE startListen(x)
    BY <2>2 DEF startListen, MainTypes, ListenInv, Up
  <2>3. CASE stopListen(x)
    BY <2>3 DEF stopListen, MainTypes, ListenInv, Up
  <2>4. QED
    BY <2>1, <2>2, <2>3
<1>6. AddInv' /\ ListenInv'
  BY <1>1, <1>3, <1>5 DEF AddInv, ListenInv, Listed
<1>7. QED
  BY <1>1, <1>2, <1>4, <1>6, MainStepInv

\* The pool's own steps, and a thread that ends, leave the names alone.
LEMMA PoolStepInv ==
  ASSUME IInv, PoolStep \/ \E w \in Threads : ThreadFinished(w)
  PROVE  IInv'
<1> USE DEF IInv, MainInv
<1>1. ASSUME UNCHANGED <<mainVars, m_dbNames>> PROVE MainInv'
  BY <1>1 DEF MainTypes, AddInv, ListenInv, Up, Listed, mainVars, frameVars, listeners
<1>2. CASE PoolStep
  <2>1. PoolInv' /\ UNCHANGED <<requestVars, life, mainVars>>
    BY <1>2, PoolItselfPoolInv DEF PoolStep, threadVars, requestVars
  <2>2. UNCHANGED m_dbNames
    BY <1>2 DEF PoolStep, PoolItself, StartRound, EndRound, ConfirmNext, Drop, Outage,
                Recover
  <2>3. QED
    BY <1>1, <2>1, <2>2, MainStepInv DEF RequestInv, RequestTypes
<1>3. ASSUME NEW w \in Threads, ThreadFinished(w) PROVE IInv'
  <2>1. PoolInv' /\ UNCHANGED m_dbNames
    BY <1>3, FinishedPoolInv DEF ThreadFinished, on_finishedThread
  <2>2. UNCHANGED <<requestVars, mainVars>>
    BY <1>3 DEF ThreadFinished, requestVars
  <2>3. life' \in [Threads -> {"none", "running", "leaving", "finished", "collected"}]
    BY <1>3 DEF ThreadFinished, RequestInv, RequestTypes
  <2>4. QED
    BY <1>1, <2>1, <2>2, <2>3, MainStepInv
<1>4. QED
  BY <1>2, <1>3

LEMMA ElsewhereInv ==
  ASSUME IInv, UNCHANGED vars
  PROVE  IInv'
<1>1. PoolInv' /\ UNCHANGED <<requestVars, life, mainVars, m_dbNames>>
  BY ElsewherePoolInv DEF IInv, vars, threadVars, requestVars, poolVars
<1>2. MainInv'
  BY <1>1 DEF IInv, MainInv, MainTypes, AddInv, ListenInv, Up, Listed, mainVars, frameVars, listeners
<1>3. QED
  BY <1>1, <1>2, MainStepInv DEF IInv, RequestInv, RequestTypes

\* The inductive invariant of the whole server.
THEOREM IInvCorrect == Spec => []IInv
<1>1. Init => IInv
  BY InitPoolInv, InitRequestInv, InitMainInv DEF Init, IInv
<1>2. ASSUME IInv, [Next]_vars PROVE IInv'
  <2>1. CASE MainThread
    BY <1>2, <2>1, StartInv, AddDatabaseInv, RemoveDatabaseInv, StopInv, ListenerInv,
       PoolStepInv, Zenon DEF MainThread
  <2>2. ASSUME NEW w \in Threads, WorkingThread(w) PROVE IInv'
    BY <1>2, <2>2, WorkingInv
  <2>3. ASSUME NEW x \in DOMAIN listening, startListen(x) \/ stopListen(x) PROVE IInv'
    BY <1>2, <2>3, ListenerInv
  <2>4. CASE PoolStep \/ Ended \/ UNCHANGED vars
    BY <1>2, <2>4, PoolStepInv, ElsewhereInv DEF Ended
  <2>5. QED
    BY <1>2, <2>1, <2>2, <2>3, <2>4, Zenon DEF Next
<1>3. QED
  BY <1>1, <1>2, PTL DEF Spec

\* Every variable keeps to its type.
THEOREM TypeCorrect == Spec => []TypeOK
<1>1. IInv => TypeOK
  BY DEF IInv, PoolInv, RequestInv, RequestTypes, MainInv, MainTypes, TypeOK
<1>2. QED
  BY <1>1, IInvCorrect, PTL

\* A connection the main thread has removed is not opened again by the checking
\* thread, which goes on with the names it has copied before.
THEOREM RemovedStaysRemovedCorrect == Spec => []RemovedStaysRemoved
<1>1. IInv => RemovedStaysRemoved
  BY DEF IInv, PoolInv
<1>2. QED
  BY <1>1, IInvCorrect, PTL

\* A thread's connection is on both ledgers and leads to the database of its
\* name, but for one that could not be opened or was missed by a removal.
THEOREM CloneAccountedCorrect == Spec => []CloneAccounted
<1>1. IInv => CloneAccounted
  BY DEF IInv, PoolInv
<1>2. QED
  BY <1>1, IInvCorrect, PTL

\* Relations a user has been told are stored are stored, whatever fails between
\* the deletion of the old ones and the insertion of the new, unless he has
\* been told of the failure.
THEOREM AckedKeptCorrect == Spec => []AckedKept
<1>1. IInv => AckedKept
  BY DEF IInv, RequestInv
<1>2. QED
  BY <1>1, IInvCorrect, PTL

\* A server that has been started listens at both addresses or is about to,
\* however soon after a stop it was started and whatever name its cluster address
\* goes by, unless the listener has reported that it cannot.
THEOREM StartedListensCorrect == Spec => []StartedListens
<1>1. IInv => StartedListens
  BY StartedInv DEF IInv
<1>2. QED
  BY <1>1, IInvCorrect, PTL
=============================================================================
