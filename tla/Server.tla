------------------------------- MODULE Server -------------------------------
(***************************************************************************)
(* The function server put together: the main frame, which starts and      *)
(* stops it and ends the program (zpmainframe), the working threads, the   *)
(* requests the application layer serves from the database                 *)
(* (smartlink/st_clientnode_applayer, st_clientnode_app_imp) and the pool  *)
(* of connections (DatabasePool).                                          *)
(*                                                                         *)
(* A session is a client node: at most one working thread runs it at a     *)
(* time (TaskEngine) and it is the only one of its user here.  How threads *)
(* get their work is TaskEngine, how sockets are served NetEngine; of      *)
(* these the model keeps when a thread ends, and when a listener starts,   *)
(* fails to, and closes.                                                   *)
(***************************************************************************)
EXTENDS DatabasePool

CONSTANTS
  Account,        \* Database_UserAcct, a name of the pool
  Users,          \* a user is known by the m_uuid he gets at the login
  NoUser,
  Friends,        \* what a user can put into his relations
  Lists,          \* the lists users upload
  PoolSize,       \* nWorkingThreads
  TermName,       \* strClusterPubName, the name the cluster listens under
  MayBeInUse,     \* the addresses that another program may have taken
  MaxRequests     \* bound on requests

ASSUME ServerAssumption ==
  /\ Account \in Names
  /\ NoUser \notin Users
  /\ Lists \subseteq SUBSET Friends
  /\ MayBeInUse \subseteq {"net", "cluster"}
  /\ Threads \subseteq Nat /\ PoolSize \in Nat /\ MaxRequests \in Nat

VARIABLES
  session,        \* user -> "offline", "in": logged in
  life,           \* thread -> "none", "running", "leaving", "finished", "collected"
  pc, request, serving,  \* what a thread does, for which request of which user
  handle,         \* the database its connection leads to, NoPara if it has none
  m_matched_nodes,       \* relations read, then those not yet written
  relations,      \* the table of that name: database -> user -> friends
  acked,          \* history: relations the user has been told are stored
  action_Start_Stop,     \* the button is down
  mainPc, job, toDo,     \* what the main thread does, and for which names
  listening,      \* the two listeners: "none", "starting", "on", "closed"
  stops,          \* those with a stopListen queued
  refused,        \* history: those that have reported "Can not start listen!"
  requests

threadVars == <<life, pc, request, serving, handle, m_matched_nodes>>
dataVars == <<session, relations, acked, requests>>
listeners == <<listening, stops, refused>>
frameVars == <<action_Start_Stop, mainPc, job, toDo>>
mainVars == <<frameVars, listeners>>
vars == <<poolVars, threadVars, dataVars, mainVars>>

Init ==
  /\ PoolInit
  /\ session = [u \in Users |-> "offline"]
  /\ life = [w \in Threads |-> "none"]
  /\ pc = [w \in Threads |-> "idle"]
  /\ request = [w \in Threads |-> "none"]
  /\ serving = [w \in Threads |-> NoUser]
  /\ handle = [w \in Threads |-> NoPara]
  /\ m_matched_nodes = [w \in Threads |-> {}]
  /\ relations = [p \in Paras |-> [u \in Users |-> {}]]
  /\ acked = [p \in Paras |-> [u \in Users |-> {}]]
  /\ action_Start_Stop = FALSE
  /\ mainPc = "idle" /\ job = "none" /\ toDo = {}
  /\ listening = [x \in {"net", "cluster"} |-> "none"]
  /\ stops = {} /\ refused = {}
  /\ requests = 0

-----------------------------------------------------------------------------
(* Requests.                                                               *)

Goto(w, label) == pc' = [pc EXCEPT ![w] = label]

\* The answer is sent.  Any other than "done" closes the connection.
Answer(w, ok) ==
  /\ Goto(w, "idle")
  /\ request' = [request EXCEPT ![w] = "none"]
  /\ serving' = [serving EXCEPT ![w] = NoUser]
  /\ handle' = [handle EXCEPT ![w] = NoPara]
  /\ m_matched_nodes' = [m_matched_nodes EXCEPT ![w] = {}]
  /\ session' = [session EXCEPT ![serving[w]] = IF ok THEN "in" ELSE "offline"]

\* A thread that has been told to stop may still have work before that.
deal_current_message_block(w, u, kind) ==
  /\ life[w] \in {"running", "leaving"} /\ pc[w] = "idle"
  /\ requests < MaxRequests /\ requests' = requests + 1
  /\ \A v \in Threads : serving[v] # u
  /\ (kind = "login") <=> (session[u] = "offline")
  /\ serving' = [serving EXCEPT ![w] = u]
  /\ request' = [request EXCEPT ![w] = kind]
  /\ Goto(w, IF kind = "login" THEN "login_db" ELSE "load_db")
  /\ UNCHANGED <<poolVars, life, handle, m_matched_nodes, session, relations,
                 acked, mainVars>>

Next_db == [login_db |-> "login", load_db |-> "load", save_db |-> "delete"]

\* A connection is asked for; without one the request fails.  If it leads to
\* another database than the one the relations have been read from, those to be
\* replaced have not been read, and nothing of them can be counted on.
AskForDatabase(w) ==
  /\ pc[w] \in DOMAIN Next_db
  /\ \E late \in BOOLEAN : databse(w, Account, late)
  /\ LET c == clone'[w][Account] IN
     \/ /\ template[Account] # None /\ c.state \in {"live", "stale"}
        /\ handle' = [handle EXCEPT ![w] = c.para]
        /\ Goto(w, Next_db[pc[w]])
        /\ acked' = IF pc[w] = "save_db" /\ handle[w] # c.para
                    THEN [acked EXCEPT ![c.para][serving[w]] = {}] ELSE acked
        /\ UNCHANGED <<request, serving, m_matched_nodes, session>>
     \/ /\ template[Account] = None \/ c.state = "closed"
        /\ Answer(w, FALSE) /\ UNCHANGED acked
  /\ UNCHANGED <<life, relations, requests, mainVars>>

\* Statements are executed while the connection is registered and alive.
Statement(w) ==
  /\ pc[w] \in {"login", "load", "delete", "insert"}
  /\ clone[w][Account].state = "live"

\* LoginClient: a known user is logged in before his relations are read.
LoginClient(w) ==
  /\ pc[w] = "login" /\ Statement(w)
  /\ \/ Goto(w, "load_db")
        /\ session' = [session EXCEPT ![serving[w]] = "in"]
        /\ UNCHANGED <<request, serving, handle, m_matched_nodes>>
     \/ Answer(w, FALSE)
  /\ UNCHANGED <<poolVars, life, relations, acked, requests, mainVars>>

\* mutant: what is stored is not read before it is replaced
loadRelations_OnlyList(w) ==
  /\ pc[w] = "load" /\ Statement(w)
  /\ \/ request[w] # "upload" /\ Answer(w, TRUE)
     \/ /\ request[w] = "upload"
        /\ \E list \in Lists :
             m_matched_nodes' = [m_matched_nodes EXCEPT ![w] = list]
        /\ Goto(w, "save_db")
        /\ UNCHANGED <<request, serving, handle, session>>
  /\ UNCHANGED <<poolVars, life, relations, acked, requests, mainVars>>

\* loadRelations, the end of a login and of Box2Svr_DownloadUserTable.  In
\* Box2Svr_UploadUserTable the list is added to what has been read.
loadRelations(w) ==
  /\ pc[w] = "load" /\ Statement(w)
  /\ \/ request[w] # "upload" /\ Answer(w, TRUE)
     \/ /\ request[w] = "upload"
        /\ \E list \in Lists :
             m_matched_nodes' = [m_matched_nodes EXCEPT ![w] =
                                   relations[handle[w]][serving[w]] \cup list]
        /\ Goto(w, "save_db")
        /\ UNCHANGED <<request, serving, handle, session>>
  /\ UNCHANGED <<poolVars, life, relations, acked, requests, mainVars>>

\* saveRelations: the old relations are deleted ...
DeleteRelations(w) ==
  /\ pc[w] = "delete" /\ Statement(w)
  /\ relations' = [relations EXCEPT ![handle[w]][serving[w]] = {}]
  /\ Goto(w, "insert")
  /\ UNCHANGED <<poolVars, life, request, serving, handle, m_matched_nodes,
                 session, acked, requests, mainVars>>

\* ... and inserted one by one, in no order and in no transaction.
InsertRelation(w) ==
  /\ pc[w] = "insert" /\ Statement(w)
  /\ \E f \in m_matched_nodes[w] :
       /\ m_matched_nodes' = [m_matched_nodes EXCEPT ![w] = @ \ {f}]
       /\ relations' = [relations EXCEPT ![handle[w]][serving[w]] = @ \cup {f}]
  /\ UNCHANGED <<poolVars, life, pc, request, serving, handle, session, acked,
                 requests, mainVars>>

\* All are inserted: the user is told that they are stored.
RelationsSaved(w) ==
  /\ pc[w] = "insert" /\ m_matched_nodes[w] = {}
  /\ acked' = [acked EXCEPT ![handle[w]][serving[w]] =
                 @ \cup relations[handle[w]][serving[w]]]
  /\ Answer(w, TRUE)
  /\ UNCHANGED <<poolVars, life, relations, requests, mainVars>>

\* A statement fails, or is refused by the database.  The connection is closed,
\* if the main thread has not taken it away, and the user told of the failure:
\* what he can count on after a failed save is what is left.
StatementFails(w) ==
  /\ pc[w] \in {"login", "load", "delete", "insert"}
  /\ pc[w] = "insert" => m_matched_nodes[w] # {}
  /\ \/ clone[w][Account].state # "live" /\ UNCHANGED faults
     \/ Statement(w) /\ faults < MaxFaults /\ faults' = faults + 1
  /\ clone' = IF clone[w][Account] = None THEN clone
              ELSE [clone EXCEPT ![w][Account].state = "closed"]
  /\ acked' = IF pc[w] # "insert" THEN acked
              ELSE [acked EXCEPT ![handle[w]][serving[w]] =
                      @ \cap relations[handle[w]][serving[w]]]
  /\ Answer(w, FALSE)
  /\ UNCHANGED <<m_dbNames, template, ledgers, checking, up, stray, life,
                 relations, requests, mainVars>>

\* setStopMark: the event loop of a removed thread ends.
setStopMark(w) ==
  /\ life[w] = "leaving" /\ pc[w] = "idle"
  /\ life' = [life EXCEPT ![w] = "finished"]
  /\ UNCHANGED <<poolVars, pc, request, serving, handle, m_matched_nodes,
                 dataVars, mainVars>>

-----------------------------------------------------------------------------
(* The main thread.                                                        *)

\* RemoveAllAddresses of an engine: the listeners xs in its map are told to
\* stop, each by an event to its own thread.
RemoveAddresses(xs) ==
  /\ stops' = stops \cup {x \in xs : listening[x] # "none"}
  /\ UNCHANGED <<listening, refused>>

\* AddListeningAddress ignores a name that is still in its map.  The listener
\* starts when its thread handles the event.
AddListeningAddress(x) ==
  /\ IF listening[x] = "none"
     THEN /\ listening' = [listening EXCEPT ![x] = "starting"]
          /\ refused' = refused \ {x}
     ELSE UNCHANGED <<listening, refused>>
  /\ UNCHANGED stops

removeThreads ==
  life' = [w \in Threads |-> IF life[w] = "running" THEN "leaving" ELSE life[w]]

\* The threads added are the first that have never been used.
Fresh == {w \in Threads : /\ life[w] = "none"
                          /\ Cardinality({v \in Threads : life[v] = "none" /\ v < w})
                             < PoolSize}

Listed == {n \in Names : m_dbNames[n] # NoPara}

MainAt(label) == mainPc' = label

\* The button is pressed: forkServer stops the listeners and waits for them.
Start ==
  /\ mainPc = "idle" /\ ~action_Start_Stop
  /\ Cardinality(Fresh) = PoolSize
  /\ action_Start_Stop' = TRUE /\ job' = "start"
  /\ RemoveAddresses({"net"})
  /\ MainAt("wait_net")
  /\ UNCHANGED <<poolVars, threadVars, dataVars, toDo>>

\* mutant: forkServer does not wait for the listeners to close
forkServer_NoWait ==
  /\ mainPc = "wait_net"
  /\ AddListeningAddress("net")
  /\ life' = [w \in Threads |-> IF w \in Fresh THEN "running" ELSE life[w]]
  /\ toDo' = Listed /\ MainAt("remove")
  /\ UNCHANGED <<poolVars, pc, request, serving, handle, m_matched_nodes,
                 dataVars, action_Start_Stop, job>>

\* forkServer goes on: it listens, adds threads, removes all connections ...
forkServer ==
  /\ mainPc = "wait_net" /\ listening["net"] = "none"
  /\ AddListeningAddress("net")
  /\ life' = [w \in Threads |-> IF w \in Fresh THEN "running" ELSE life[w]]
  /\ toDo' = Listed /\ MainAt("remove")
  /\ UNCHANGED <<poolVars, pc, request, serving, handle, m_matched_nodes,
                 dataVars, action_Start_Stop, job>>

\* ... adds those of the settings, which may have been changed ...
AddDatabase ==
  /\ mainPc = "add"
  /\ \/ /\ \E n \in toDo : /\ \E p \in Paras : addConnection(n, p)
                           /\ toDo' = toDo \ {n}
        /\ UNCHANGED <<mainPc, listeners>>
     \/ /\ toDo = {}
        /\ RemoveAddresses({"cluster"})
        /\ MainAt("wait_cluster")
        /\ UNCHANGED <<poolVars, toDo>>
  /\ UNCHANGED <<threadVars, dataVars, action_Start_Stop, job>>

\* ... and starts the cluster afresh.
StartCluster ==
  /\ mainPc = "wait_cluster" /\ listening["cluster"] = "none"
  /\ AddListeningAddress("cluster")
  /\ MainAt("idle")
  /\ UNCHANGED <<poolVars, threadVars, dataVars, action_Start_Stop, job, toDo>>

\* The button is released.
Stop ==
  /\ mainPc = "idle" /\ action_Start_Stop
  /\ action_Start_Stop' = FALSE /\ job' = "stop"
  /\ RemoveAddresses({"net"})
  /\ removeThreads
  /\ toDo' = Listed /\ MainAt("remove")
  /\ UNCHANGED <<poolVars, pc, request, serving, handle, m_matched_nodes, dataVars>>

\* The program ends: the destructor of the main frame.
Exit ==
  /\ mainPc = "idle"
  /\ job' = "exit"
  /\ RemoveAddresses({"net"})
  /\ TerminateMe
  /\ toDo' = Listed /\ MainAt("remove")
  /\ UNCHANGED <<threadVars, dataVars, action_Start_Stop>>

\* remove_connections goes through the names it has copied; what follows it
\* in forkServer, in on_action_Start_Stop_triggered and in the destructor.
RemoveDatabase ==
  /\ mainPc = "remove"
  /\ \/ /\ \E n \in toDo : remove_connection(n) /\ toDo' = toDo \ {n}
        /\ UNCHANGED <<threadVars, mainPc, listeners>>
     \/ /\ toDo = {} /\ job = "start"
        /\ toDo' = Names /\ MainAt("add")
        /\ UNCHANGED <<poolVars, threadVars, listeners>>
     \/ /\ toDo = {} /\ job = "stop"
        /\ RemoveAddresses(IF TermName = "clusterTerm" THEN {"cluster"} ELSE {})
        /\ MainAt("idle")
        /\ UNCHANGED <<poolVars, threadVars, toDo>>
     \/ /\ toDo = {} /\ job = "exit"
        /\ removeThreads
        /\ RemoveAddresses({"cluster"})
        /\ MainAt("wait_exit")
        /\ UNCHANGED <<poolVars, pc, request, serving, handle, m_matched_nodes, toDo>>
  /\ UNCHANGED <<dataVars, action_Start_Stop, job>>

\* Engines and pool are deleted when all of them have ended.
Delete ==
  /\ mainPc = "wait_exit"
  /\ \A x \in DOMAIN listening : listening[x] = "none"
  /\ \A w \in Threads : life[w] \notin {"running", "leaving"}
  /\ checker = "ended"
  /\ MainAt("gone")
  /\ UNCHANGED <<poolVars, threadVars, dataVars, action_Start_Stop, job, toDo,
                 listeners>>

\* Where the main thread handles events.
HandlesEvents == mainPc \in {"idle", "wait_net", "wait_cluster", "wait_exit"}

\* The listener is deleted, with what its thread has not handled.
on_ListenClosed(x) ==
  /\ HandlesEvents /\ listening[x] = "closed"
  /\ listening' = [listening EXCEPT ![x] = "none"]
  /\ stops' = stops \ {x}
  /\ UNCHANGED <<refused, poolVars, threadVars, dataVars, frameVars>>

ThreadFinished(w) ==
  /\ HandlesEvents /\ life[w] = "finished"
  /\ on_finishedThread(w)
  /\ life' = [life EXCEPT ![w] = "collected"]
  /\ UNCHANGED <<pc, request, serving, handle, m_matched_nodes, dataVars, mainVars>>

-----------------------------------------------------------------------------

\* A listening thread.  The address may be in use: then the listener reports
\* the failure and closes.
startListen(x) ==
  /\ listening[x] = "starting"
  /\ \/ listening' = [listening EXCEPT ![x] = "on"] /\ UNCHANGED refused
     \/ /\ x \in MayBeInUse
        /\ listening' = [listening EXCEPT ![x] = "closed"]
        /\ refused' = refused \cup {x}
  /\ UNCHANGED <<stops, poolVars, threadVars, dataVars, frameVars>>

\* Queued behind startListen: nothing for one that has closed already.
stopListen(x) ==
  /\ x \in stops /\ listening[x] # "starting"
  /\ stops' = stops \ {x}
  /\ listening' = IF listening[x] = "on" THEN [listening EXCEPT ![x] = "closed"]
                  ELSE listening
  /\ UNCHANGED <<refused, poolVars, threadVars, dataVars, frameVars>>

\* The checking thread and the databases, until the pool is deleted.
PoolStep ==
  /\ mainPc # "gone"
  /\ PoolItself
  /\ UNCHANGED <<threadVars, dataVars, mainVars>>

MainThread ==
  \/ Start \/ forkServer \/ AddDatabase \/ StartCluster \/ Stop \/ Exit
  \/ RemoveDatabase \/ Delete
  \/ \E x \in DOMAIN listening : on_ListenClosed(x)
  \/ \E w \in Threads : ThreadFinished(w)

WorkingThread(w) ==
  \/ \E u \in Users, kind \in {"login", "upload", "download"} :
       deal_current_message_block(w, u, kind)
  \/ AskForDatabase(w) \/ LoginClient(w) \/ loadRelations(w)
  \/ DeleteRelations(w) \/ InsertRelation(w) \/ RelationsSaved(w)
  \/ StatementFails(w) \/ setStopMark(w)

\* Nothing happens any more once the program has ended.
Ended == mainPc = "gone" /\ UNCHANGED vars

Next ==
  \/ MainThread \/ PoolStep \/ Ended
  \/ \E w \in Threads : WorkingThread(w)
  \/ \E x \in DOMAIN listening : startListen(x) \/ stopListen(x)

Spec == Init /\ [][Next]_vars

-----------------------------------------------------------------------------
(* Properties.                                                             *)

TypeOK ==
  /\ PoolTypeOK
  /\ session \in [Users -> {"offline", "in"}]
  /\ life \in [Threads -> {"none", "running", "leaving", "finished", "collected"}]
  /\ pc \in [Threads -> {"idle", "login_db", "login", "load_db", "load",
                         "save_db", "delete", "insert"}]
  /\ request \in [Threads -> {"none", "login", "upload", "download"}]
  /\ serving \in [Threads -> Users \cup {NoUser}]
  /\ handle \in [Threads -> Paras \cup {NoPara}]
  /\ m_matched_nodes \in [Threads -> SUBSET Friends]
  /\ relations \in [Paras -> [Users -> SUBSET Friends]]
  /\ acked \in [Paras -> [Users -> SUBSET Friends]]
  /\ action_Start_Stop \in BOOLEAN
  /\ mainPc \in {"idle", "wait_net", "remove", "add", "wait_cluster",
                 "wait_exit", "gone"}
  /\ job \in {"none", "start", "stop", "exit"} /\ toDo \subseteq Names
  /\ listening \in [{"net", "cluster"} -> {"none", "starting", "on", "closed"}]
  /\ stops \subseteq {"net", "cluster"} /\ refused \subseteq {"net", "cluster"}
  /\ requests \in Nat

\* What a user has been told is stored stays stored while nobody writes his
\* relations, through outages, lost connections, restarts of the server and
\* connections closed under a request, unless a later save of his has failed
\* and he has been told so, or went to another database than the one read.
AckedKept ==
  \A p \in Paras, u \in Users :
    \/ acked[p][u] \subseteq relations[p][u]
    \/ \E w \in Threads : serving[w] = u /\ handle[w] = p /\ pc[w] = "insert"

\* A server that has been started listens at both addresses, or is about to and
\* has no order to stop in its way, however soon it has been stopped before;
\* unless the start of this very listener has failed and been reported.
StartedListens ==
  action_Start_Stop /\ mainPc = "idle" =>
    \A x \in DOMAIN listening :
      \/ listening[x] \in {"starting", "on"} /\ x \notin stops
      \/ x \in refused
=============================================================================
