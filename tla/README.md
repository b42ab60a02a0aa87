# zpserver, verified with TLA+

zpserver ("ZoomPipeline") is a Qt server. Clients keep TCP or SSL connections to it; what they send is cut into
messages by a pool of working threads and relayed to other clients, on this server or on another one of a cluster.
This directory holds TLA+ modules that model it, TLC runs that check them on small instances, and theorems that the
TLA+ proof system checks for instances of any size. Paths below are relative to `src/ZoomPipeline_FuncSvr/`.
`PROJECT.json` maps every definition to the lines it models and lists runs, mutants, findings, hazards and theorems.

## 1. The system

| Component | State | Operations | Talks to |
|---|---|---|---|
| Task engine `pipeline/` | FIFO of tasks under `m_mutex_protect`, reference count and run lock of each task, the vector of working threads, an unlocked busy flag of each, counter of existing threads | `pushTask`, `popTask`, `on_finished_task`, `addThreads`, `removeThreads`, `canClose`; `FetchNewTask`, `setStopMark` in each worker | its tasks (client nodes, cluster nodes): `run()`, `addRef`/`delRef`, `LockRun`/`UnlockRun`; queued signals between workers and main thread |
| Client node, transport level `smartlink/st_clientnode_basetrans` | list of received blocks, parser state (offset, current message), user id, "disconnected" mark | `push_new_data` (main thread), `run`, `filter_message` (worker) | client table, application level |
| Client node, application level `smartlink/st_clientnode_applayer`, `_app_imp` | login state, relations of the user, current message as far as it has arrived | login, upload and download of relations, relay piece by piece | client table, database |
| Client table `smartlink/st_client_table` | hash socket to node, hash user to node, list of dead nodes, one mutex | connected, data, disconnected, `regisitClientUUID`, `clientNodeFromUUID`, sending to a node, `KickDeadClients` | network engine's signals, task engine, cluster |
| Directory of remote users `smartlink/st_cross_svr_node`, `cross_svr_*` of the table | hash user to server | messages 0x01 (users are here), 0x02 (a user has left), 0x03 (data for a user) between servers, purge of a lost server | cluster, client table |
| Cluster `cluster/` | hash socket to node, hash name to node, dead nodes; per node its name, addresses, last answer | join, hello, registration, rejection, broadcast of the servers, heart beats, disconnect | a network engine and a task engine of its own |
| Network engine `network/` | listeners, vector of transfer threads; per thread its clients, two sending lists per client, a rubbish can | listen, choose a thread for a client, send, kick, deactivate, remove threads, `CanExit` | sockets; signals to table and cluster |
| Database pool `database/databaseresource` | parameters of the named connections, a clone of each per thread, two ledgers of the clones | `databse`, `addConnection`, `remove_connection`, `on_finishedThread`, a checking thread | application level, main frame |
| Main frame `zpmainframe` | the start/stop button, timers, settings | `on_action_Start_Stop_triggered`, `forkServer`, heart beat and rejoin timer, the destructor's shutdown | everything |
| Logger, forms, test clients | | | |

Three kinds of threads meet: the **main thread**, which receives every network event and owns all vectors; the
**working threads**, which run one node at a time; the **transfer threads** and listeners, which own sockets. Except for
the two table mutexes, the task list's and the nodes' own, everything between threads is a queued Qt event.

What is hard here: the busy flags are read without a lock; a node is queued again while it runs; the reference count is
given back before the worker is done with the node; disconnects happen in the main thread while a worker registers,
looks up or relays; streams are cut anywhere; signals queued by one thread are handled after other threads have gone
on; cluster messages overtake one another because they are sent from two threads; threads are removed from vectors
inside loops over them; a directory on one server is kept by messages about what happens on others; connections are
closed under the request that uses them; a save is several statements; shutdown waits for counters that others must
bring down. `PROJECT.json` "hazards" has each of
them at its line.

What makes each component correct:

* task engine: one runner per node, no received block forgotten, blocks in order, exact reference counts, no lost
  wakeup, no starvation, `canClose` only when nobody holds or takes a task any more, and it becomes true;
* client node: no byte lost or made up however the stream is cut;
* client table: a node is in exactly one stage of its life and is not freed while somebody uses it; a late disconnect
  does not log out a newer login, here or at other servers;
* cluster: registered names lead to live servers of that name, both sides agree, and the servers get together;
* network engine: data in order and complete, the end of a client reported once and last, the pool of threads is what
  runs, no client dropped with its thread, shutdown ends;
* directory of users: when everything has been dealt with each server knows where a user is and nowhere else, and the
  users of a lost server vanish;
* relay: a receiver gets each message without gap or repetition, and what arrived before him is held;
* database pool: what is removed stays removed, a thread's connection leads where its name leads now;
* the server as a whole: what a user is told is stored is kept, start and stop can follow one another at once, and the
  end of the program is reached.

## 2. The modules

| Module | Models | Built on |
|---|---|---|
| `TaskEngine` | task engine and `run()` of a node | |
| `SerialDelivery` | abstract: what the engine promises to one node | |
| `ClientTable` | client table, login and relay | extends `TaskEngine` |
| `MessageFraming` | `filter_message` of a client node | |
| `Cluster` | cluster membership | |
| `TransThread` | a transfer thread and one socket with its sending buffer | |
| `NetEngine` | listeners, pool of transfer threads, shutdown | |
| `UserDirectory` | messages 0x01 and 0x02, users of other servers | |
| `Relay` | messages between clients, message 0x03 | |
| `DatabasePool` | connections, clones, ledgers, the checking thread | |
| `Server` | start, stop and end of the server, working threads, requests served from the database | extends `DatabasePool` |
| `TaskEngine_proofs` (also of `SerialDelivery` and `ClientTable`), `Cluster_proofs`, `NetEngine_proofs`, `TransThread_proofs`, `MessageFraming_proofs`, `UserDirectory_proofs`, `Relay_proofs`, `Server_proofs` (also of `DatabasePool`) | theorems | the modules they name |
| `MC...` | sets and symmetry for TLC | the modules they name |

### TaskEngine

A step of a worker is one critical section, one racy read or write of a shared flag, or one emitted signal. `pc[w]`
follows `FetchNewTask`: `FetchNewTask` (fetch of the event and `popTask`), `SetBusy`, `LockRun`, then `run()` as
`RunEntry`, `Peek`, `FilterMessage` or `PopEmpty`, `ReadSize`, `FinalSize`, then `DelRef`, `RePush`, `UnlockRun` and
`Finish`. The main thread is in its event loop or inside `pushTask` (`MainPush`, `Scan` of one busy flag at a time,
`Fire`), started by `DataReceived` (`on_evt_Data_recieved` of the table) or `HandleFinished` (`on_finished_task`).
`AddThreads` and `RemoveThreads` change the pool, `Terminate` is a disconnect. A worker told to stop counts itself out
(`SetStopMark`, "leaving") and then releases the mutex and quits its thread (`QuitThread`, "stopped"). Every other
critical section of `m_mutex_protect` is one step and waits for the release (`Unlocked`); this one is two because
`canClose` reads the counter without the mutex and sees what is in between.
Decisions: workers are named in the order of creation. `pushTask`'s append and `addRef` are one step, as nobody can
observe the list in between without the mutex; `on_finished_task`'s reading of the list's size and its signal are one;
so are `filter_message` and the pop behind it, since only the holder of the run lock touches the front of the list. A
received block is never empty. Bounds: `MaxWorkers`, `MaxBlocks`.

### SerialDelivery

A node sees an inbox, one runner at a time, and blocks taken from the front. `TaskEngine`'s `DeliverySpec` is this
specification with `inbox <- m_list_RawData, runner <- m_mutex_run`. It allows a block to be taken without being dealt
with, as the code does in one branch (section 6).

### ClientTable

Extends the engine: nodes are created for sockets, claim an identity when they process a login message
(`ClaimIdentity`, `LoginClient`, `RegisitClientUUID`, `AnnounceUUID`), look up a destination
(`FindDestin`, `ReadDestin`, which searches under the mutex and reads again without it) and relay (`RelayToDestin`).
The main thread connects, delivers, disconnects (`ClientDisconnected`, then `ReapDeadNodes`) and runs deferred deletes.
Decisions: what a worker does with a deleted node is undefined behaviour and not followed further. The two racy writes
of `m_bUUIDRecieved` and `m_uuid` are one; the hash read without the mutex is taken as an atomic access.
`on_evt_Data_recieved` for an unknown socket is `NewClientConnected` followed by `ClientData`. `remote` is what the last
broadcast said, with at least one other server connected.

### MessageFraming

Bytes are positions in the stream, so a byte lost, repeated or invented shows. One action is one turn of
`filter_message`'s loop: `PartOfMark`, `HeartBeat`, `PartOfHeader`, `TransMessage`, `UnknownMark`, then `PopBlock`. The
hook that deals with data takes its bytes or waits for more; after a kick the rest of the block is dropped; the check of
the user id is in `ClientTable`. Data may have any length, also none, as the code asks for no minimum. `HeartBeatsWhole`
excludes the cuts of the finding in section 5, to show that nothing else goes wrong. The cluster node has a parser of
the same shape (`cluster/zp_clusternode.cpp`), not modelled a second time.

### Cluster

A connection has two ends, each a node of its server. Main thread: `JoinCluster`, `Rejoin`, `NewClientConnected`,
`SendHelloPackage`, `ClientDisconnected`. Workers: `TakeHello`, `RegisitNewServer`, `Reject`, `Announce`,
`CollectServers`, `TellServers`, `TakeServers`, `ScanName`, `ScanDone`. Faults: `Break`, `Crash`. What the client table
is told goes through the queue of the main thread (`events`): the report of a connection twice, from the worker to the
term (`PassOn`) and from the term to the table (`on_evt_NewSvrConnected`), that of a loss once
(`on_evt_NewSvrDisconnected`), so either may overtake the other. `Tables` are the servers whose table is looked at. Two
variables are history: `known`, the servers the table may keep users of, and `misled`, those reported lost in spite of
a registered node (section 6).
Decisions: dialling and TCP's acceptance are one step and a refused dial is a dial that breaks at once; a kick takes the
link down at once and what is in flight is lost; time is abstracted (the 120 s of the rejoin timer have passed or not,
a peer that is silent for too long is `Break`); the eight messages a node handles in a turn are a turn that may end at
any message; there are as many workers as nodes. Names are numbers, for the code compares them.

### TransThread

One socket of a transfer thread, whose slots are all queued events: `SendDataToClient` writes a first piece and stores
the rest; `some_data_sended` and `WritePiece` write on when bytes have gone; `client_closed`, `displayError` and
`KickClient` end it. `write()` keeps every byte of a socket that is not unconnected and returns -1 for one that is, and
`sender()` is null for an event whose connection has been cut: two facts of Qt the slots rely on. Bounds: `MaxMessages`,
`MaxArrivals`.

### NetEngine

The main thread executes the engine's calls and events; the loops of `on_New_Arrived_Client`, `connectTo` and `CanExit`
are steps of their own, because `TransThreadDel` inside them (`Quit`, `Removed`) waits for a thread that may still
handle events. `pool` is the vector's memory, with the stale elements behind its end that a loop to the former size
reads. `Shutdown` and `AskCanExit` are the destructor of the main frame. Decisions: the number of clients of all
threads is read in one step when a thread is chosen; a call adds one thread; a listening object is used once (a name
added again is another one). `late` marks clients that a thread has taken after it was deactivated. Bounds:
`MaxThreads`, `MaxClients`.

### UserDirectory

Every server has the table of its users (`m_hash_uuid2node`) and the directory of the others'. Workers: `LoginClient`,
`regisitClientUUID` enters the user, also when his client has gone meanwhile, and `AnnounceUUID` tells the others after
the mutex is released; `regisitNewServer`, `TakeMessage`, then `cross_svr_add_uuids` or `cross_svr_del_uuids`;
`LateMessage` of a worker that still runs the node of a connection that has ended. Main thread:
`on_evt_ClientDisconnected`, `ServerDisconnected`, `on_evt_NewSvrConnected` (sends all users to a server that has
registered) and `on_evt_NewSvrDisconnected` (purge), both queued events that may be handled late and in either order.
Faults: `Break`, `Crash`. Decisions: a connection is made anew only after both ends have forgotten the former one and
the hello is the first message on it (`Cluster` has the other orders); taking the names of the registered servers and
sending to them is one step. `run` of the node reads `bTermSet` once, before its turn: when a disconnect is handled,
`StillApplied` is what the worker has in hand and any number of the messages behind it (the most a turn takes is a
constant of the code), the others are dropped. What is still applied goes to `late`, one sequence for each former
connection, and is applied side by side with the messages of a new connection and with the purge. `latest`, `overdue`
and `spoilt` are history: `overdue` has the sessions entered behind their end, `spoilt` the entries hit by a race the
code has (section 6), so that the properties can say that nothing else goes wrong.

### Relay

Senders on one server, receivers on it, on another one, or nowhere. Each block of a message brings its next piece
(`filter_message`); the receiver is looked for anew (`clientNodeFromUUID`); what is held is handed on here (`SendHere`,
after which it is held no longer) or to the other server (`SendThere`, after which it still is). The base class's
`deal_current_message_block`, which comes last, drops what is held of a message with a bad source id (`Kept`); the close
it asks for is queued, and a sender that has been closed is one that sends no more. `deal_user_data` is the
other server's end of message 0x03, which may itself arrive in several blocks. `Directory` brings the knowledge of who is
there up to date at any moment; that it is late is the point. Bounds: `MaxPieces`, `MaxMessages`, `MaxBad`, `MaxMoves`.

### DatabasePool

`m_mutex_reg` serialises everything, so an action is one critical section: `addConnection`, `remove_connection`,
`on_finishedThread`, `databse` (with its test, `Reuse` or `Clone`), and the checking thread's `StartRound`,
`ConfirmNext`, `EndRound`. A connection leads to a database (its parameters) and is closed, live, or stale: open as far
as Qt knows, though the database has dropped it. QSqlDatabase is external: `database()` opens what is closed. That it
may be called from any thread was so in the versions of Qt 5 this code was written for. `stray` is history: clones that
could not be opened at first or that a removal has missed (section 6). Bounds: `MaxFaults`.

### Server

Extends the pool by those who call it. Main thread: `Start`, `forkServer`, `AddDatabase`, `StartCluster`, `Stop`,
`Exit`, `RemoveDatabase`, `Delete`, which stop where the code handles events while it waits (`HandlesEvents`), so that a
finished thread or a closed listener is noticed only there. A working thread serves a request statement by statement:
`AskForDatabase`, `LoginClient`, `loadRelations`, `DeleteRelations`, `InsertRelation`, `RelationsSaved`, or
`StatementFails` at any of them. Decisions: a node runs on one thread at a time, as `TaskEngine` shows; a thread is used
once; one session of a user at a time; a listener starts, fails to start or stops when its thread handles the event
(`startListen`, `stopListen`; `MayBeInUse` has the addresses where the start may fail) and leaves the map when the main
thread hears that it has closed; threads only end (`NetEngine` has the rest); the user answers "yes" when asked whether
to end the program; redirection to another server is left out. `acked` is history: what a user has been told is stored;
so is `refused`: the listeners that have reported a failed start. Bounds: `MaxRequests`, `MaxFaults` and the number of
threads.

## 3. The runs

Every property of a passing run has a mutant: a definition changed the way a mistake in that code would, which TLC
finds.

| Run | Instance | Shows |
|---|---|---|
| `te_safety` | 2 nodes, pool of 0 to 2 workers, 2 blocks, 1 block a turn | one runner, exact counts, nothing forgotten, order, `canClose` only when no task is held or taken, refinement |
| `te_live` | 1 node, up to 3 workers, 2 blocks, pools that grow and shrink, fair | no lost wakeup; removed workers stop; a pool of two left alone serves to the end |
| `table_safety` | 2 nodes, sockets and users, 2 workers, 1 block | life of a node, newer logins survive, no early reaping, other servers know who is here |
| `table_uaf` (violation) | 2 nodes and sockets, 1 user, 1 worker | a worker still uses a deleted node |
| `cluster_safety` | 2 servers, the greater joining the other and itself and with a client table, 2 connections, 1 fault | registered names lead to the right server, the first connection stays, both ends agree at rest; the table is told of every server lost, and hears last of a registered one that it is connected |
| `framing_cuts` | all streams of 2 messages, of 0, 1 or 4 bytes of data, blocks of up to 9 bytes | nothing lost, in step, prompt but for an empty message, closed only for an unknown mark |
| `framing_heartbeat` (violation) | the same, blocks of up to 4 bytes | a heart beat cut by a block's end is read beyond it |
| `trans_safety` | 2 messages, pieces of 2 bytes, messages of 2 and 5, fair | order, the end reported once and last, nothing waits at rest, completeness |
| `net_threads` | 3 transfer threads, 1 listener, 2 clients, fair | pool sound, clients served to the end, `CanExit` means empty, the shutdown has asked for all it waits for and ends |
| `user_directory` | 3 servers, 1 user, 2 sessions, 1 fault | the directory is right at rest, no ghosts, lost servers' users vanish |
| `server` | 2 threads of which one runs at a time, 1 connection, 2 databases, 1 user, 1 fault, 3 requests, a cluster listener that may fail to start | what is acknowledged is kept, removed stays removed, clones accounted for, a started server listens or has said that it cannot, no deadlock |
| `relay` | 2 senders with 2 messages of up to 2 pieces, 1 receiver with 2 logins, a bad source id at one sender at a time | no gap, no repetition, held for the receiver |

Why these bounds are enough to see something: two workers and one node are what every race of the engine needs, the
second node is needed for the queue's order and for starvation, two blocks for a block that arrives while another is
handled, and one block a turn makes a node with two blocks come back. The table's races are between one old and one new
node of the same user. A cluster of two already has crossing dials, duplicates, rejection and rejoining, also if only
one is told to join: the other dials back for a broadcast that overtakes the hello, and each may then be about to reject
what the other has dialled. Two servers that stay apart for good need a third (section 6). Two connections are a former
and a next one, or a first and a duplicate, which is what misleads a table. A directory entry is between two servers,
and a user who moves needs a third that hears of both. A stop followed at once by a start needs two generations of a
thread; a save needs two relations to be half done, and three requests are a login and two saves; a fault is an outage,
a lost connection or a refused statement. A message longer than two pieces has a first, a middle and a last one. What a
bad source id changes is what its sender holds, so that one such sender beside another is enough. The clean-up loop
reads a stale element of a removed thread only from three threads on.

Symmetry (`TaskSymmetry`, `TableSymmetry`) is used in runs of safety properties only. Deadlock is not checked because
the environment's input is bounded: when everything has been handled the system rests; that it does not rest too early
is what the liveness properties and `NoForgottenData`, `NoLostWakeup`, `OpenMeansRegistered`, `Settled`,
`OnlyClosingLeft`, `NoGhost` and `LatestKnown` say. The runs of `Server` check it: there a state without successors
would be a server that cannot end (`Ended` is its only rest). `ClientTable` with two workers and two blocks a node has
more than 15 million states and was not exhausted. `Cluster`'s liveness (every connection dialled is registered at both
ends or forgotten by both) takes longer than a run may with a fault and a self-join; its form at rest,
`OpenMeansRegistered`, is what is checked. Of the type invariants only `TableTypeOK` is run (a null pointer in a hash is
a matter of types there). The `TypeOK` of the other modules hold in their runs (`INVARIANT TypeOK` in the `.cfg` checks
them); those of `TaskEngine`, `Cluster`, `NetEngine`, `UserDirectory` and `Server` are proved (section 4).

**Fairness.** Weak fairness of every worker, of the main thread, of each slot of a transfer thread: threads are
scheduled and event loops turn. None for clients, networks, faults or calls of the main frame, except: in `TransThread`
the client takes what it is sent (or the connection ends), and in `NetEngine` a connection being closed gets closed.
`NetEngine` has strong fairness for the main thread's queued events, because the destructor handles queued events after
every `CanExit` but while `CanExit` is executed they have to wait. `te_live` states liveness for a pool that is left
alone (`PoolKept`), since a worker that is being removed keeps the wakeup of what it puts back for itself.

## 4. What is proved

For any number of nodes, workers and blocks, from `EngineAssumption` of `TaskEngine` alone (`TaskEngine_proofs`):

* `TypeCorrect`, `RunExclusiveCorrect`. Neither is inductive. `IInv` adds who holds which task at which position
  (`HeldInv`), that the run lock belongs to the worker inside (`LockInv`), that a worker about to pop the list finds
  something there (`DealInv`, which needs exclusion, since another runner could have popped it), the locals of `run()`'s
  loop and the main thread's place in `pushTask`. One lemma per action shows that it keeps `IInv`.
* `NoForgottenDataCorrect`. On top of `IInv`, `OwnerInv` (the run lock belongs to a worker between taking and giving it
  back), with which `KeptInv`, the property split into "queued", "to be pushed" and "kept by a worker", is inductive.
  Each step of a worker is followed from each of the three: what others keep stays kept, what is queued stays queued or
  becomes held. The heart is that `FinalSize`, the reading of the list's length at the end of `run()`, decides on the
  repeated push, and that the main thread pushes a node when its list was empty.
* `DeliveryCorrect`, `DealtInOrderCorrect`: every step of the engine maps to a step of `SerialDelivery` or to none. The
  order is proved in `SerialDelivery` (`InboxCorrect`, `InOrderCorrect`: an inbox is a run of consecutive numbers above
  the last one dealt with) and carried over by the refinement.
* `NoLostWakeupCorrect`, for `Spec` and a pool that is not empty, while it is the one made at the start
  (`PoolUntouched`). `SizeInv` shows that a pool which has been changed never looks untouched again: threads are only
  ever created, and the vector is never longer than their number. `WInv` adds that a worker that looks busy is
  (`BusyInv`) and that while the main thread scans the flags, as soon as it has passed a busy one, somebody is at work
  or has emitted `taskFinished` (`ScanInv`): the main thread cannot have heard the signal yet, since it is scanning, and
  `on_finished_task` will look at the list again.
* `RefCountExactCorrect`. The two cardinalities are followed through every step that puts an entry into the queue,
  takes it out, or moves a worker past `delRef`; all other steps leave both sets alone.
* `CanCloseMeansQuietCorrect`. The property says nothing of a count that is not 0. `CountInv` does: the count is the
  number of workers that have been created and not counted out; `CreatedInv`, that only created workers are in the
  vector, in a queue or awake, is what keeps a stop from being counted twice or for nobody. That they hold no task is
  in `HeldInv`.

For any number of sockets, nodes, workers and users (also in `TaskEngine_proofs`):

* `TableImplementsEngine`: every step of `ClientTable` is a step of the engine or leaves it alone, so that the table has
  all the engine's theorems, and `IInv`, for nothing.
* `TableTypeCorrect`, `LifeCycleCorrect`, `LoggedInKnownCorrect`. `TableInv` adds to them that a worker interprets a
  message only while it deals with a block (`MsgInv`, since `run()` does not return in between) and what `LifeCycle`
  leaves open: nodes not yet created are unmarked, and connected ones are in no list of the dead.
* `NewerLoginSurvivesCorrect`, `ReapedUnreferencedCorrect` follow step by step; the second rests on `RefCountExact`,
  since the code looks at the number only: if it is 0 both sets are empty.

For any servers, any configuration of who joins whom, any number of connections and faults (`Cluster_proofs`):

* `TypeCorrect`, `RegisteredPeerCorrect`, `OpenMeansRegisteredCorrect`. The invariant `IInv` follows an end of a
  connection: in use exactly when the connection has been dialled (`UseOf`); not heard of by a worker before it has
  entered the table (`StageOf`); named, if at all, after the other side (`NameOf`); one hello at most in flight, and no
  name before it has been read (`HelloOf`); what a worker is about to announce is registered (`AnnounceOf`); and of a
  connection that is up the hello is to be sent, in flight, being registered, or registered (`ServedOf`). The last is
  what gives `OpenMeansRegistered` when all is quiet. That `regist` finds nobody of its own there is `EntryInv`.
* `TableToldCorrect`. The invariant `TableInv` follows the news of a registered server (`ToldOf`): the worker is about to
  announce it, or it is in the first queue, or in the second with no report of a loss behind it (`Joining`), or the
  table has heard of it and no report of a loss is queued. The first place cannot be missed, because an entry is made
  and announced by the worker of one node; the last one cannot be undone, because a report of a loss either goes with
  the entry or misleads the table. Of a server lost `LossInv` says that the report is queued until it is handled.
* `FirstKeptCorrect`, step by step from `IInv`: the disconnect of a duplicate finds another node under its name.

For any number of transfer threads, listeners and clients (`NetEngine_proofs`):

* `ServedToTheEndCorrect`. The inductive invariant `EndingInv` speaks of the thread from the moment it is told to quit,
  not only when it has finished: it is then inactive, and its clients are all late. `Quit` starts it with no clients at
  all (that is what `CanExit` has seen), and what the thread takes while it quits it takes inactive.
* `PoolSoundCorrect`, `ExitMeansEmptyCorrect`. `PoolInv` adds that threads are numbered as they are started, so that a
  new one is never in the vector already (`StartedInv`), and what the main thread holds in its hands: the thread it
  waits for is the only one that quits, and `CanExit` removes at the last place only (`MainInv`).
* `TypeCorrect`. What is not obvious of it is that the loops stay inside the vector's memory although they run to its
  former size (`LoopInv`), and that a thread is found whenever one is looked for (`ChosenFits`: an active one of the
  kind asked for, with no fewer clients on any other).
* `OnlyClosingLeftCorrect`, the safety core of `ShutdownEnds`: the shutdown need not ask for anything a second time. Of
  a listener `ListenInv` says that once `closing` is set it has been asked to stop, or never was there, or its
  `listenClosed` is queued. Of a thread `LeavingInv` says that it has still to handle its deactivation (`Told`), or is
  inactive with all its clients kicked or late (`Leaving`). A client that leaves is taken out of `kicked` wherever he
  was, so `OnceInv` is needed: a client is in one place at a time, on the way to a thread or with one thread. A thread
  may end with its deactivation still queued, but no longer counts then (`EndingInv`).

For any number and sizes of messages and any piece size, from `PayLoadAssumption` (`TransThread_proofs`):

* `WrittenInOrder`. `InOrder` says nothing of what waits. The invariant adds that the two lists are as long as each
  other and hold the last messages taken, only the first of them written in part (`ListsInv`), and that as long as
  anything can be written, the next byte to be written is the one behind the last (`NextInv`, with `EndsAt`). A failed
  write spoils the offset (-1), but only on a socket that is unconnected, and it stays so; that the slots which empty
  the lists find it so is `SockInv`. `PieceGoesOn` and `TakeMessage` are the two facts about sequences of bytes the
  steps rest on.
* `SettledCorrect`, the safety core of `EverythingWritten`. `WakeInv` is why sending goes on: while a message waits, the
  loop that writes runs, or bytes given to the socket are not sent yet, or their `bytesWritten` is queued, so some step
  comes back to what waits. It rests on every piece being positive (`PayLoadAssumption`). `ClosingInv` has the end of
  an unconnected socket queued as long as the thread has it; and `EndsAt` turns "nothing waits" into "the last byte of
  the last message has been written".
* `LastWordCorrect`. `GoneInv`: who is gone is not in the list and has had its socket. Events of it may still be queued,
  but each slot looks it up in the list first.

For any stream of messages of any sizes and any cuts of it but those inside a heart beat, from `FramingAssumption` and
`HeartBeatsWhole` (`MessageFraming_proofs`); `framing_heartbeat` shows that the second is needed:

* `ConservedCorrect`, `InStepCorrect`, `PromptCorrect`, `UsedWithinBlockCorrect`. `IInv` has the blocks of the list
  follow one another up to the last byte that has come, each ending where the stream may be cut (`BlocksInv`), and the
  parser in one message (`MessageInv`): what it has read is given away or held, the whole of it until its header is
  complete, since the application takes bytes only behind that; the mark it has read is the message's, as is the length;
  it holds all of a message only if this is a header without data (`Within`). `Reads` is the same of the parser in the
  midst of a turn; `CopyReads` and `CopyUpToReads` are the one argument for mark, header and data. `BeatWhole` is where
  the hypothesis comes in: the block that holds one byte of a heart beat behind its mark holds them all, so that the
  wrong length does no harm.
* The positions where messages end are defined by recursion. That they are numbers, grow, and are defined at all
  (`EndsExist`, `EndsGrow`, `Located`) is proved by looking at the first message for which it might fail (`NatMin`, from
  the library's theorem on well-founded relations), as a rule of induction cannot be cited.

For any senders, receivers and messages of any number of pieces, from `RelayAssumption` (`Relay_proofs`):

* `ContinuousCorrect`. What a receiver has got last from a sender (`Last`) fits what the sender is at (`LastInv`): it is
  the last piece of a former message, or the sender is between blocks and has read as far as that, or holds the next
  piece and looks for the receiver. The next piece handed on is then the next one, whatever others put in between.
* `ShortIntactCorrect`. `ShortInv` also orders what is on its way to the other server behind what the receiver has got
  there, and `KnownInv` says that nothing handed on is newer than the sender's message, of its size and to its receiver.
* `KeptForReceiverCorrect`. `KeptInv`: as long as a receiver has not come, or has come for the first time and got
  nothing, whoever sends to him holds all of his message, from the first piece, or uses a bad source id.

For any number of databases, names, threads, users, requests and faults, from `PoolAssumption` and `ServerAssumption`
(`Server_proofs`):

* `PoolInvCorrect` for `PoolSpec`, that is for whatever calls the pool gets, as long as a name is added only when it is
  not there. `CloneAccounted` is inductive only together with `RemovedStaysRemoved`: a fresh clone leads where the
  template leads, and has to lead where the name does.
* `RemovedStaysRemovedCorrect` and `CloneAccountedCorrect` carry both over to `Server`. The condition on adding is what
  has to be shown of it: `AddInv` says that while a start removes connections all names there are are on its list, so
  that none is there when it adds.
* `AckedKeptCorrect`. `AckedKept` says nothing of a thread between reading and writing. `HoldsInv` does: from
  `loadRelations` on the thread holds all the user counts on, and while it inserts, what it still holds together with
  what is in the table; an insertion moves one from the first to the second. It stays true because nobody else serves
  that user (`ServingInv`), and because a save that is led to another database gives up what was told about that one.
  `OwnStepRequestInv` and `AnswerRequestInv` state once what a step within a request and its end have to show.
* `StartedListensCorrect`. `ListenInv` follows the start: at which point which listener is `Up`, that is listening or
  starting with no stop queued, or has reported its failure. Each is added only when the old one has gone from the map,
  and a stop is queued only for one that is in it: no order given to the old listener can reach the new one.
* `TypeCorrect`.

For any number of servers, users, sessions and faults, from `DirectoryAssumption` and `MessageAssumption`
(`UserDirectory_proofs`):

* `EntryAccountedCorrect`. An entry is made by a worker that has taken the message before: `DealingInv` says that the
  one of the present connection works for a server still registered. The loss of a server hands over what is in hand to
  `late` and queues `on_evt_NewSvrDisconnected` for the entries already made; a late message finds that event still
  queued, or its users are known to be spoilt. `ApplyInv` is the one argument for all messages. `LoginInv` (who is
  spoken of has logged in) is needed for the types and for where a session is entered.
* `NoGhostCorrect`, `LatestKnownCorrect`. Both speak of a state at rest only. `KnownInvCorrect` says what is true at any
  moment, for each way from one server to another and each user whom no race of the code has hit (`WayInv`). A message
  is judged by what comes behind it: a user *comes* when a greeting has no farewell behind it, and *goes* when a farewell
  is on the way. `Silent`: nothing is sent to a server that has not registered. `Ghost`: who is not at the server does
  not come, and an entry of his goes or is about to be purged. `Told`: who is there is about to be announced, or is
  coming, or is entered and does not go. `SessionInv` says that an entered session has logged in there, so a login
  elsewhere is another session, `EnteredInv` that it is connected or was entered behind its end, and `DealingInv` and
  `EntryAccounted` give what is left of a former connection when a new one is made. `LateWay` is the argument for late
  messages: an entry they make is about to be purged, one they take had no reason left, or the user is spoilt. The
  lemmas on `Comes` and `Goes` (a message put behind, one taken, one applied) carry all steps.

Only model-checked: the liveness properties (`ServedWhilePoolKept`, `RemovedWorkerStops`, `EverythingWritten`,
`ShutdownEnds`), which are outside the prover's reach, as is ENABLED. Of each but the second, what a state of rest has
to look like is proved: `NoForgottenData` with `NoLostWakeup`, `Settled`, `OnlyClosingLeft`.

## 5. Deviations that a run shows

* `table_uaf`: the dead node list is there "avoiding crash", but `delRef` precedes `pushTask` and `UnlockRun`, so a node
  without references is deleted under the worker that still holds it.
* `framing_heartbeat`: a length is computed as `offset - blocklen`, negative; a heart beat cut by a block's end is
  completed with bytes behind the end.

## 6. Deviations without a run of their own

Met while modelling, and reproduced with TLC or evident from the modelled lines:

* `run()`'s else branch pops the front block on the strength of a copy made under an earlier lock: a block that has
  arrived since is dropped unseen. `SerialDelivery`'s `Discard` allows it.
* `canClose` may be true before the last worker has released the engine's mutex and quit its thread: the counter goes
  down inside the critical section (`pipeline/zp_plworkingthread.cpp:29`), and `canClose` reads it without the mutex
  (`pipeline/zp_pipeline.cpp:8`). The main frame, which deletes the engine next, does not wait for that.
  `CanCloseMeansQuiet` says what holds: no task is held and none will be taken.
* A task put back by a worker that has been removed is announced to that worker only, and waits for the next push.
  Therefore `ServedWhilePoolKept` asks for a pool that is left alone (`PoolKept`).
* A node that registers after its disconnect leaves an entry to a dead node in the user hash; a registration's broadcast
  can be overtaken by the disconnect's.
* "As soon as connection established, more existing terms will be sent to this term, an p2p connection will start"
  (`cluster/zp_clusterterm.h:138`): a term dials for every broadcast that names a server it has not registered yet.
  `BroadcastServers` sends from the working thread while the hello waits in the main thread's queue, so a server that
  hears of another one before its hello dials a second time. With three servers, each side may then keep another of the
  two connections and close the other's, and the two stay apart without any failure.
* In the cluster, a hello interpreted while its node disconnects registers a node of the delete list, and a server of
  that name is then rejected; the disconnect of a duplicate between storing and clearing its name reports a
  live server as gone, and the table forgets its users (`misled`).
* The report that a server is connected takes two queues and that of its loss one: of a connection that ends early the
  table hears of the loss first and sends its users to nobody afterwards. `TableTold` says that nothing worse follows.
* A message without data is dealt with when the parser finds bytes behind its header
  (`smartlink/st_clientnode_basetrans.cpp:186`). If the header ends its block the message waits for the next block,
  however long that takes. `st_message.h` asks for two bytes of data, but no line of the parser does. `Prompt` names
  this case.
* `NetEngine`: the index of the chosen thread is computed before old threads are removed and used afterwards, so a client
  can be given to another thread, also one of the other kind, or to none. `CanExit` of a thread holds while the event
  that gives it a client is queued: the thread then quits with that client, although it should be terminated "after its
  last client socket exited" (`network/zp_net_threadpool.cpp:344`); `ServedToTheEnd` holds for clients taken before the
  deactivation. A client given to a thread before it has handled `DeactivateImmediately` is accepted behind it and never
  kicked; this is why `ShutdownEnds` has an exception.
* `UserDirectory`, what `spoilt` stands for: the announcement of a user is sent after the mutex is released and may
  follow the farewell of the same user; messages of two servers about one user are applied in the order they arrive, so
  an older login may overwrite a newer one, and a farewell erases the entry whatever server it names
  (`smartlink/st_client_table.cpp:412`); the purge of a lost server also takes entries the server has sent since it came
  back (355). A worker that runs the node of a connection when its end is handled goes on to the end of its turn
  (`cluster/zp_clusternode.cpp:60`): a greeting applied behind the purge stays for ever, and greetings and farewells of
  the former connection may be applied behind those of a new one.
* `UserDirectory`: `regisitClientUUID` (`smartlink/st_client_table.cpp:106`) enters and announces a node whose end has
  been handled already. Nobody takes this entry away but the next login of the user there, and servers that connect
  later are told of him. `overdue` has these sessions, and `NoGhost` counts their users as there.
* `Relay`: a message of several pieces to a user of another server is sent as all that has arrived, again with every
  piece, since only `SendHere` lets go of it; message 0x03 in several blocks reaches the receiver with its first block
  only; a connection made while a message is relayed piece by piece gets the rest of it; pieces of two senders
  interleave at a receiver. A message whose source id is invalid or another than before is relayed like any other if the
  receiver is there; if not, what is held of it is dropped (`smartlink/st_clientnode_basetrans.cpp:271`, 284, 291), and
  as the close is only queued a receiver who logs in meanwhile gets its rest alone. `KeptForReceiver` excepts it.
* `DatabasePool`: "when a QThread finished, the database for this thread should be removed"
  (`database/databaseresource.cpp:16`), but a clone that could not be opened (77) stays registered with Qt; a later
  `QSqlDatabase::database` opens it, and as it then is entered in one ledger only, `remove_connection` does not know it:
  the thread goes on with the former parameters. So does a clone whose template the checking thread had taken out
  when the name was removed.
* `Server`: a save whose statement fails has lost the relations not yet inserted again (the user is told of the failure
  and disconnected); a connection that changes to another database between reading and writing replaces relations
  there that were never read. `LoginClient` reads the column behind the one it needs for the user's number
  (`smartlink/st_clientnode_app_imp.cpp:67`).
* `Stop` asks for the listener named "clusterTerm" (`zpmainframe.cpp:440`), which was started under the server's own
  name: the cluster goes on listening. The next start copes, as it stops all listeners first.

## 7. Not modelled

Redirection to the server with the least pay load, pay load figures and heart beat clocks, host registration and logout
(which only answers), the rubbish can of closed sockets, `extraData`, the encryption handshake, byte counters, the
address dialogue, other forms, logger and test clients. Input/output and display have no state a property could be about;
heart beats only decide when a connection ends, which the modules allow at any moment. The time for which the destructor
waits is not bounded: `Server` shows that it can always go on, `ShutdownEnds` that a network engine's part of it ends.

## 8. Plan

Done: all modules of section 2 and a theorem for every invariant and action property a run checks. Next, proofs of what
no run states yet: the type invariants of `MessageFraming` and `TransThread` as theorems of their own, and for
`DatabasePool` and `RemovedWorkerStops` what a state of rest looks like, as `Settled` does it for `EverythingWritten`.
