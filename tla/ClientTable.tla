---------------------------- MODULE ClientTable ----------------------------
(***************************************************************************)
(* The table of connected clients (smartlink/st_client_table) on top of    *)
(* the task engine: nodes are created when a socket connects, identified   *)
(* by the messages they process in the working threads, looked up by other *)
(* nodes that relay messages to them, taken out of the tables when the     *)
(* socket disconnects and deleted when nothing refers to them any more.    *)
(*                                                                         *)
(* m_hash_mutex guards both hashes.  The main thread holds it throughout   *)
(* on_evt_Data_recieved, that is, while mainPc is not "loop"; every other  *)
(* critical section is one step.                                           *)
(*                                                                         *)
(* A worker never steps on a node that has been deleted: what the program  *)
(* does from there on is undefined and not modelled.                       *)
(***************************************************************************)
EXTENDS TaskEngine

CONSTANTS Socks,      \* the addresses of client sockets, used again when free
          Users,      \* the valid user ids
          NoUser,     \* the invalid id 0xffffffff of a fresh node
          NullEntry   \* a null node pointer stored in m_hash_uuid2node

ASSUME TableAssumption == NoUser \notin Users /\ NullEntry \notin Tasks \cup {NoTask}

VARIABLES
  m_hash_sock2node,  \* per socket: its node, or NoTask when not in the hash
  m_hash_uuid2node,  \* per user: its node, NullEntry, or NoTask when absent
  m_uuid,            \* per node: its user; NoUser while m_bUUIDRecieved is false
  born,              \* the nodes created so far
  m_nodeToBeDel,     \* disconnected nodes waiting to be deleted
  deleteLaterQueue,  \* nodes whose deferred delete is queued to the main thread
  deleted,           \* nodes whose memory is gone
  remote,            \* per user: what the last broadcast told the other servers
  tablePc,           \* "reap" between the two halves of ClientDisconnected
  ipc, user, dest    \* per worker: locals while a message is interpreted

hashVars == <<m_hash_sock2node, m_hash_uuid2node, m_uuid>>
lifeVars == <<born, m_nodeToBeDel, deleteLaterQueue, deleted>>
msgVars == <<ipc, user, dest>>
tableVars == <<hashVars, lifeVars, remote, tablePc, msgVars>>
tvars == <<vars, tableVars>>

TableInit ==
  /\ Init
  /\ m_hash_sock2node = [s \in Socks |-> NoTask]
  /\ m_hash_uuid2node = [u \in Users |-> NoTask]
  /\ m_uuid = [t \in Tasks |-> NoUser]
  /\ born = {} /\ m_nodeToBeDel = {} /\ deleteLaterQueue = {} /\ deleted = {}
  /\ remote = [u \in Users |-> FALSE]
  /\ tablePc = "idle"
  /\ ipc = [w \in Workers |-> "none"]
  /\ user = [w \in Workers |-> NoUser]
  /\ dest = [w \in Workers |-> NoTask]

-----------------------------------------------------------------------------
(* The main thread.                                                        *)

\* The main thread is in its event loop.
MainIdle == mainPc = "loop" /\ tablePc = "idle"

\* on_evt_NewClientConnected and on_evt_ClientEncrypted: a node for a socket
\* that has none.
NewClientConnected(s) ==
  /\ MainIdle /\ m_hash_sock2node[s] = NoTask
  /\ \E t \in Tasks \ born :
       /\ m_hash_sock2node' = [m_hash_sock2node EXCEPT ![s] = t]
       /\ born' = born \cup {t}
  /\ UNCHANGED <<vars, m_hash_uuid2node, m_uuid, m_nodeToBeDel,
                 deleteLaterQueue, deleted, remote, tablePc, msgVars>>

\* on_evt_Data_recieved.  For a socket without a node it does first what
\* NewClientConnected does.
ClientData(s) ==
  /\ tablePc = "idle" /\ m_hash_sock2node[s] # NoTask
  /\ DataReceived(m_hash_sock2node[s])
  /\ UNCHANGED tableVars

OwnEntry_AnyNode(t) ==           \* mutant: whoever the entry belongs to
  {u \in Users : m_uuid[t] = u /\ m_hash_uuid2node[u] # NoTask}

\* The user whose entry ClientDisconnected removes for node t.
OwnEntry(t) == {u \in Users : m_uuid[t] = u /\ m_hash_uuid2node[u] = t}

ClientDisconnected_AlwaysTells(s) ==  \* mutant: broadcast before the comparison
  LET t == m_hash_sock2node[s] IN
    /\ tablePc = "idle" /\ t # NoTask
    /\ Terminate(t)
    /\ m_hash_sock2node' = [m_hash_sock2node EXCEPT ![s] = NoTask]
    /\ m_hash_uuid2node' = [u \in Users |-> IF u \in OwnEntry(t) THEN NoTask
                                            ELSE m_hash_uuid2node[u]]
    /\ remote' = [u \in Users |-> u # m_uuid[t] /\ remote[u]]
    /\ m_nodeToBeDel' = m_nodeToBeDel \cup {t}
    /\ tablePc' = "reap"
    /\ UNCHANGED <<m_uuid, born, deleteLaterQueue, deleted, msgVars>>

\* on_evt_ClientDisconnected, under m_hash_mutex: both hashes, the broadcast,
\* the mark and the list of dead nodes.
ClientDisconnected(s) ==
  LET t == m_hash_sock2node[s] IN
    /\ tablePc = "idle" /\ t # NoTask
    /\ Terminate(t)
    /\ m_hash_sock2node' = [m_hash_sock2node EXCEPT ![s] = NoTask]
    /\ m_hash_uuid2node' = [u \in Users |-> IF u \in OwnEntry(t) THEN NoTask
                                            ELSE m_hash_uuid2node[u]]
    /\ remote' = [u \in Users |-> u \notin OwnEntry(t) /\ remote[u]]
    /\ m_nodeToBeDel' = m_nodeToBeDel \cup {t}
    /\ tablePc' = "reap"
    /\ UNCHANGED <<m_uuid, born, deleteLaterQueue, deleted, msgVars>>

ReapDeadNodes_AnyRef ==          \* mutant: ref() is not asked
  /\ tablePc = "reap"
  /\ deleteLaterQueue' = deleteLaterQueue \cup m_nodeToBeDel
  /\ m_nodeToBeDel' = {}
  /\ tablePc' = "idle"
  /\ UNCHANGED <<vars, hashVars, born, deleted, remote, msgVars>>

ReapDeadNodes_Keep ==            \* mutant: a deleted node stays in the list
  /\ tablePc = "reap"
  /\ deleteLaterQueue' = deleteLaterQueue \cup {t \in m_nodeToBeDel : refCount[t] = 0}
  /\ tablePc' = "idle"
  /\ UNCHANGED <<vars, hashVars, born, m_nodeToBeDel, deleted, remote, msgVars>>

\* The rest of it, without the mutex: every dead node with ref() = 0 goes to
\* deleteLater.  No other event makes the list shorter.
ReapDeadNodes ==
  LET toBedel == {t \in m_nodeToBeDel : refCount[t] = 0} IN
    /\ tablePc = "reap"
    /\ deleteLaterQueue' = deleteLaterQueue \cup toBedel
    /\ m_nodeToBeDel' = m_nodeToBeDel \ toBedel
    /\ tablePc' = "idle"
    /\ UNCHANGED <<vars, hashVars, born, deleted, remote, msgVars>>

\* The event loop executes a deferred delete.
DeferredDelete(t) ==
  /\ MainIdle /\ t \in deleteLaterQueue
  /\ deleteLaterQueue' = deleteLaterQueue \ {t}
  /\ deleted' = deleted \cup {t}
  /\ UNCHANGED <<vars, hashVars, born, m_nodeToBeDel, remote, tablePc, msgVars>>

MainTable ==
  \/ \E s \in Socks : NewClientConnected(s) \/ ClientData(s) \/ ClientDisconnected(s)
  \/ ReapDeadNodes
  \/ \E t \in Tasks : DeferredDelete(t)
  \/ tablePc = "idle" /\ MainStep /\ UNCHANGED tableVars

-----------------------------------------------------------------------------
(* A working thread while filter_message interprets a block, which may     *)
(* hold any number of messages.                                            *)

HashMutexFree == mainPc = "loop"

\* Worker w is at the start of a message of its node.
AtMessage(w) == pc[w] = "deal" /\ ipc[w] = "none" /\ held[w] \notin deleted

MsgGoto(w, label) == ipc' = [ipc EXCEPT ![w] = label]

\* The first valid id in a header or a heart beat becomes the node's id.
ClaimIdentity(w, u) ==
  /\ AtMessage(w) /\ m_uuid[held[w]] = NoUser
  /\ m_uuid' = [m_uuid EXCEPT ![held[w]] = u]
  /\ MsgGoto(w, "register")
  /\ UNCHANGED <<vars, m_hash_sock2node, m_hash_uuid2node, lifeVars, remote,
                 tablePc, user, dest>>

\* LoginClient: the id the database gives replaces whatever the node had.
LoginClient(w, u) ==
  /\ AtMessage(w)
  /\ m_uuid' = [m_uuid EXCEPT ![held[w]] = u]
  /\ MsgGoto(w, "register")
  /\ UNCHANGED <<vars, m_hash_sock2node, m_hash_uuid2node, lifeVars, remote,
                 tablePc, user, dest>>

\* regisitClientUUID, under m_hash_mutex ...
RegisitClientUUID(w) ==
  /\ ipc[w] = "register" /\ held[w] \notin deleted /\ HashMutexFree
  /\ m_hash_uuid2node' = [m_hash_uuid2node EXCEPT ![m_uuid[held[w]]] = held[w]]
  /\ MsgGoto(w, "announce")
  /\ UNCHANGED <<vars, m_hash_sock2node, m_uuid, lifeVars, remote, tablePc,
                 user, dest>>

\* ... and, after the mutex is released, the broadcast to the other servers.
AnnounceUUID(w) ==
  /\ ipc[w] = "announce" /\ held[w] \notin deleted
  /\ remote' = [remote EXCEPT ![m_uuid[held[w]]] = TRUE]
  /\ MsgGoto(w, "none")
  /\ UNCHANGED <<vars, hashVars, lifeVars, tablePc, user, dest>>

\* clientNodeFromUUID for a message to user u: the search under the mutex ...
FindDestin(w, u) ==
  /\ AtMessage(w) /\ HashMutexFree
  /\ IF m_hash_uuid2node[u] = NoTask
     THEN MsgGoto(w, "none") /\ UNCHANGED user
     ELSE MsgGoto(w, "found") /\ user' = [user EXCEPT ![w] = u]
  /\ UNCHANGED <<vars, hashVars, lifeVars, remote, tablePc, dest>>

ReadDestin_NoNullCheck(w) ==     \* mutant: a null destination is sent to
  LET u == user[w]
      entry == IF m_hash_uuid2node[u] \in Tasks THEN m_hash_uuid2node[u] ELSE NullEntry
  IN
    /\ ipc[w] = "found"
    /\ m_hash_uuid2node' = [m_hash_uuid2node EXCEPT ![u] = entry]
    /\ dest' = [dest EXCEPT ![w] = entry]
    /\ MsgGoto(w, "send")
    /\ user' = [user EXCEPT ![w] = NoUser]
    /\ UNCHANGED <<vars, m_hash_sock2node, m_uuid, lifeVars, remote, tablePc>>

\* ... then m_hash_uuid2node[uuid] without it: operator[] inserts a null entry
\* when the user has been erased in between.
ReadDestin(w) ==
  LET u == user[w] IN
    /\ ipc[w] = "found"
    /\ IF m_hash_uuid2node[u] \in Tasks
       THEN /\ dest' = [dest EXCEPT ![w] = m_hash_uuid2node[u]]
            /\ MsgGoto(w, "send") /\ UNCHANGED m_hash_uuid2node
       ELSE /\ m_hash_uuid2node' = [m_hash_uuid2node EXCEPT ![u] = NullEntry]
            /\ MsgGoto(w, "none") /\ UNCHANGED dest
    /\ user' = [user EXCEPT ![w] = NoUser]
    /\ UNCHANGED <<vars, m_hash_sock2node, m_uuid, lifeVars, remote, tablePc>>

\* The relay itself reads destin_node->sock(), with no reference on the node.
RelayToDestin(w) ==
  /\ ipc[w] = "send" /\ dest[w] \notin deleted
  /\ dest' = [dest EXCEPT ![w] = NoTask]
  /\ MsgGoto(w, "none")
  /\ UNCHANGED <<vars, hashVars, lifeVars, remote, tablePc, user>>

\* No further message of the block is interpreted: it is used up and popped.
MessageDone(w) ==
  /\ ipc[w] = "none" /\ held[w] \notin deleted
  /\ FilterMessage(w)
  /\ UNCHANGED tableVars

Message(w) ==
  \/ \E u \in Users : ClaimIdentity(w, u) \/ LoginClient(w, u) \/ FindDestin(w, u)
  \/ RegisitClientUUID(w) \/ AnnounceUUID(w)
  \/ ReadDestin(w) \/ RelayToDestin(w) \/ MessageDone(w)

\* Every other step of a worker is the task engine's own.
EngineStep(w) ==
  /\ pc[w] # "deal" /\ held[w] \notin deleted
  /\ Worker(w)
  /\ UNCHANGED tableVars

TableNext == MainTable \/ \E w \in Workers : Message(w) \/ EngineStep(w)

TableSpec == TableInit /\ [][TableNext]_tvars

-----------------------------------------------------------------------------
(* Properties.                                                             *)

TableTypeOK ==
  /\ m_hash_sock2node \in [Socks -> Tasks \cup {NoTask}]
  /\ m_hash_uuid2node \in [Users -> Tasks \cup {NoTask, NullEntry}]
  /\ m_uuid \in [Tasks -> Users \cup {NoUser}]
  /\ born \subseteq Tasks /\ m_nodeToBeDel \subseteq Tasks
  /\ deleteLaterQueue \subseteq Tasks /\ deleted \subseteq Tasks
  /\ remote \in [Users -> BOOLEAN]
  /\ tablePc \in {"idle", "reap"}
  /\ ipc \in [Workers -> {"none", "register", "announce", "found", "send"}]
  /\ user \in [Workers -> Users \cup {NoUser}]
  /\ dest \in [Workers -> Tasks \cup {NoTask}]

\* The nodes that serve a connected socket.
Connected == {m_hash_sock2node[s] : s \in Socks} \ {NoTask}

\* The life of a node: connected (and not marked), dead and waiting, deferred
\* delete queued, deleted; never in two of these and never out of all of them,
\* so no node is leaked by the lists, deleted twice or served after its end.
LifeCycle ==
  /\ born = Connected \cup m_nodeToBeDel \cup deleteLaterQueue \cup deleted
  /\ \A s1, s2 \in Socks :
       m_hash_sock2node[s1] = m_hash_sock2node[s2] /\ s1 # s2
         => m_hash_sock2node[s1] = NoTask
  /\ \A t \in born : bTermSet[t] <=> t \notin Connected
  /\ m_nodeToBeDel \cap deleteLaterQueue = {}
  /\ (m_nodeToBeDel \cup deleteLaterQueue) \cap deleted = {}

\* A user's entry disappears only in the disconnect of the very node it points
\* to: the late disconnect of a user's former socket does not log out the user
\* who has already come back on a new one.
NewerLoginSurvives ==
  [][\A u \in Users :
       m_hash_uuid2node[u] \in Tasks /\ m_hash_uuid2node'[u] = NoTask
         => LET t == m_hash_uuid2node[u] IN ~bTermSet[t] /\ bTermSet'[t]]_tvars

\* At the moment a dead node is given to deleteLater it is neither queued nor
\* in the hands of a worker that still counts as a reference.
ReapedUnreferenced ==
  [][\A t \in deleteLaterQueue' \ deleteLaterQueue :
       /\ \A i \in 1..Len(m_list_tasks) : m_list_tasks[i] # t
       /\ \A w \in Workers : held[w] = t => pc[w] \notin Carrying]_tvars

\* No worker is about to use a deleted node: not the one it runs, queues again
\* or unlocks, and not the destination of a relayed message.
NoUseAfterDelete ==
  \A w \in Workers :
    /\ held[w] \in deleted => pc[w] = "done"
    /\ ipc[w] = "send" => dest[w] \notin deleted

\* The other servers know of every user who can be reached here, or are about to
\* be told: the disconnect of a user's former socket does not make them forget
\* the user who has come back on another one.
LoggedInKnown ==
  \A u \in Users :
    m_hash_uuid2node[u] \in Tasks =>
      remote[u] \/ \E w \in Workers : ipc[w] = "announce" /\ m_uuid[held[w]] = u
=============================================================================
