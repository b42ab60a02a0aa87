----------------------------- MODULE NetEngine ------------------------------
(***************************************************************************)
(* The network engine (network/zp_net_threadpool) with its listeners and   *)
(* transfer threads.  The engine lives in the main thread and is called    *)
(* there only; listeners and transfer threads each have a thread of their  *)
(* own, and all calls between threads are queued events.  The pool of      *)
(* transfer threads is a QVector: when an element is removed the ones      *)
(* behind it move down, and the place behind the new end keeps a stale     *)
(* copy of the last one, which the loops that run to the former size read. *)
(*                                                                         *)
(* The destructor of the main frame shuts the engine down and then asks    *)
(* CanExit until it holds, handling queued events in between.              *)
(***************************************************************************)
EXTENDS Integers, Sequences, FiniteSets

CONSTANTS MaxThreads, \* bound on the transfer threads ever added
          MaxClients, \* bound on the clients that arrive or are dialled
          Listeners,  \* the listening objects, each used once
          Secure,     \* those that listen for SSL connections
          Kinds       \* the values of bSSL that calls pass

ASSUME EngineAssumption ==
  /\ MaxThreads \in Nat /\ MaxClients \in Nat
  /\ Secure \subseteq Listeners /\ Kinds \subseteq BOOLEAN

Threads == 1..MaxThreads
Clients == 1..MaxClients
Nothing == 0

VARIABLES
  pool,         \* m_vec_NetTransThreads: its memory, element by element
  size,         \* and its size
  bSSL,         \* per thread: m_bSSLConnection
  m_bActivated, \* per thread
  loop,         \* per thread: "none", "running", "quitting", "finished"
  inbox,        \* per thread: its queued events, oldest first
  m_clientList, \* per thread: the clients it serves
  kicked,       \* clients whose connection is being closed
  late,         \* clients taken by a thread that was no longer active
  listener,     \* "none", "starting", "listening", "closed", "over"
  stops,        \* listeners with a stopListen queued
  backlog,      \* per listener: accepted clients not yet reported
  queue,        \* the queued events of the main thread, oldest first
  clients,      \* how many clients there have been
  main,         \* what the main thread is doing
  answer,       \* the last result of CanExit
  closing       \* the main frame is being destroyed

threads == <<bSSL, m_bActivated, loop, inbox, m_clientList>>
listening == <<listener, stops, backlog>>
vars == <<pool, size, threads, kicked, late, listening, queue, clients, main, answer, closing>>

\* op: what is executed; i: the index its loop is at, of a loop to n; thread:
\* the one being removed; minIdx: the index chosen for a client.
Idle == [op |-> "idle", i |-> 0, n |-> 0, thread |-> Nothing, back |-> "idle",
         minIdx |-> 0, client |-> Nothing]

Init ==
  /\ pool = [i \in Threads |-> Nothing] /\ size = 0
  /\ bSSL = [t \in Threads |-> FALSE]
  /\ m_bActivated = [t \in Threads |-> FALSE]
  /\ loop = [t \in Threads |-> "none"]
  /\ inbox = [t \in Threads |-> <<>>]
  /\ m_clientList = [t \in Threads |-> {}]
  /\ kicked = {} /\ late = {}
  /\ listener = [l \in Listeners |-> "none"] /\ stops = {}
  /\ backlog = [l \in Listeners |-> {}]
  /\ queue = <<>> /\ clients = 0
  /\ main = Idle /\ answer = FALSE /\ closing = FALSE

Event(k) == [kind |-> k, client |-> Nothing]
Establish(c) == [kind |-> "establish", client |-> c]
Arrived(l, c) == [kind |-> "arrived", listener |-> l, client |-> c]
ListenClosed(l) == [kind |-> "closed", listener |-> l, client |-> Nothing]

Live == {pool[i] : i \in 1..size}
Queued(t) == {inbox[t][i] : i \in 1..Len(inbox[t])}
Alive == {l \in Listeners : listener[l] \in {"starting", "listening", "closed"}}

-----------------------------------------------------------------------------
(* Listeners.                                                              *)

\* startListen; the address may be in use.
startListen(l) ==
  /\ listener[l] = "starting"
  /\ \/ listener' = [listener EXCEPT ![l] = "listening"] /\ UNCHANGED queue
     \/ /\ listener' = [listener EXCEPT ![l] = "closed"]
        /\ queue' = Append(queue, ListenClosed(l))
  /\ UNCHANGED <<pool, size, threads, kicked, late, stops, backlog, clients, main, answer, closing>>

stopListen_Overtakes(l) ==       \* mutant: need not come behind startListen
  /\ l \in stops
  /\ stops' = stops \ {l}
  /\ IF listener[l] = "listening"
     THEN /\ listener' = [listener EXCEPT ![l] = "closed"]
          /\ queue' = Append(queue, ListenClosed(l))
     ELSE UNCHANGED <<listener, queue>>
  /\ UNCHANGED <<pool, size, threads, kicked, late, backlog, clients, main, answer, closing>>

\* stopListen, queued behind startListen: nothing for one that has closed.
stopListen(l) ==
  /\ l \in stops /\ listener[l] # "starting"
  /\ stops' = stops \ {l}
  /\ IF listener[l] = "listening"
     THEN /\ listener' = [listener EXCEPT ![l] = "closed"]
          /\ queue' = Append(queue, ListenClosed(l))
     ELSE UNCHANGED <<listener, queue>>
  /\ UNCHANGED <<pool, size, threads, kicked, late, backlog, clients, main, answer, closing>>

\* incomingConnection of the server socket; the listening object passes it on by
\* an event of its own thread.
Accept(l) ==
  /\ listener[l] = "listening" /\ clients < MaxClients
  /\ clients' = clients + 1
  /\ backlog' = [backlog EXCEPT ![l] = @ \cup {clients'}]
  /\ UNCHANGED <<pool, size, threads, kicked, late, listener, stops, queue, main, answer, closing>>

evt_NewClientArrived(l) ==
  \E c \in backlog[l] :
    /\ backlog' = [backlog EXCEPT ![l] = @ \ {c}]
    /\ queue' = Append(queue, Arrived(l, c))
    /\ UNCHANGED <<pool, size, threads, kicked, late, listener, stops, clients, main, answer, closing>>

Listener(l) == startListen(l) \/ stopListen(l) \/ evt_NewClientArrived(l)

-----------------------------------------------------------------------------
(* Transfer threads.  One that has been told to quit may still handle what *)
(* is queued.                                                              *)

Running(t) == loop[t] \in {"running", "quitting"}
NextEvent(t, k) == Running(t) /\ inbox[t] # <<>> /\ Head(inbox[t]).kind = k
Handled(t) == inbox' = [inbox EXCEPT ![t] = Tail(@)]

\* incomingConnection and startConnection; a socket that is already broken is
\* not listed.
incomingConnection(t) ==
  LET c == Head(inbox[t]).client IN
    /\ NextEvent(t, "establish") /\ Handled(t)
    /\ \/ /\ m_clientList' = [m_clientList EXCEPT ![t] = @ \cup {c}]
          /\ late' = IF m_bActivated[t] THEN late ELSE late \cup {c}
       \/ UNCHANGED <<m_clientList, late>>
    /\ UNCHANGED <<pool, size, bSSL, m_bActivated, loop, kicked, listening, queue,
                   clients, main, answer, closing>>

\* KickAllClients.
KickAllClients(t) ==
  /\ NextEvent(t, "kickAll") /\ Handled(t)
  /\ kicked' = kicked \cup m_clientList[t]
  /\ UNCHANGED <<pool, size, bSSL, m_bActivated, loop, m_clientList, late, listening,
                 queue, clients, main, answer, closing>>

DeactivateImmediately_OnlyKicks(t) ==   \* mutant: the flag is left alone
  /\ NextEvent(t, "deactivate") /\ Handled(t)
  /\ kicked' = kicked \cup m_clientList[t]
  /\ UNCHANGED <<pool, size, bSSL, m_bActivated, loop, m_clientList, late, listening,
                 queue, clients, main, answer, closing>>

DeactivateImmediately(t) ==
  /\ NextEvent(t, "deactivate") /\ Handled(t)
  /\ m_bActivated' = [m_bActivated EXCEPT ![t] = FALSE]
  /\ kicked' = kicked \cup m_clientList[t]
  /\ UNCHANGED <<pool, size, bSSL, loop, m_clientList, late, listening, queue,
                 clients, main, answer, closing>>

\* client_closed or displayError: the connection of a client has ended.
ClientClosed(t, c) ==
  /\ Running(t) /\ c \in m_clientList[t]
  /\ m_clientList' = [m_clientList EXCEPT ![t] = @ \ {c}]
  /\ kicked' = kicked \ {c}
  /\ UNCHANGED <<pool, size, bSSL, m_bActivated, loop, inbox, late, listening, queue,
                 clients, main, answer, closing>>

\* The event loop ends; what is still queued is lost.
ThreadEnds(t) ==
  /\ loop[t] = "quitting"
  /\ loop' = [loop EXCEPT ![t] = "finished"]
  /\ inbox' = [inbox EXCEPT ![t] = <<>>]
  /\ UNCHANGED <<pool, size, bSSL, m_bActivated, m_clientList, kicked, late, listening,
                 queue, clients, main, answer, closing>>

TransThread(t) == incomingConnection(t) \/ KickAllClients(t)
                    \/ DeactivateImmediately(t) \/ ThreadEnds(t)

-----------------------------------------------------------------------------
(* The engine: calls of the main frame.                                    *)

Ready == main.op = "idle"

AddListeningAddress(l) ==
  /\ Ready /\ ~closing /\ listener[l] = "none"
  /\ listener' = [listener EXCEPT ![l] = "starting"]
  /\ UNCHANGED <<pool, size, threads, kicked, late, stops, backlog, queue, clients, main, answer, closing>>

RemoveAllAddresses ==
  /\ Ready /\ ~closing /\ Alive \ stops # {}
  /\ stops' = stops \cup Alive
  /\ UNCHANGED <<pool, size, threads, kicked, late, listener, backlog, queue, clients, main, answer, closing>>

Post(ts, es) == inbox' = [t \in Threads |-> IF t \in ts THEN inbox[t] \o es ELSE inbox[t]]

\* KickAllClients of the engine, when the cluster is joined again.  It is left
\* out while nobody would be kicked.
KickAll ==
  /\ Ready /\ ~closing
  /\ \E t \in Live : m_clientList[t] \ kicked # {} \/ inbox[t] # <<>>
  /\ \A t \in Live : \A e \in Queued(t) : e.kind # "kickAll"
  /\ Post(Live, <<Event("kickAll")>>)
  /\ UNCHANGED <<pool, size, bSSL, m_bActivated, loop, m_clientList, kicked, late,
                 listening, queue, clients, main, answer, closing>>

\* AddClientTransThreads, one of its threads.
AddClientTransThreads(ssl) ==
  LET started == {t \in Threads : loop[t] # "none"}
      t == Cardinality(started) + 1
  IN
    /\ Ready /\ ~closing /\ t \in Threads
    /\ pool' = [pool EXCEPT ![size + 1] = t] /\ size' = size + 1
    /\ bSSL' = [bSSL EXCEPT ![t] = ssl]
    /\ m_bActivated' = [m_bActivated EXCEPT ![t] = TRUE]
    /\ loop' = [loop EXCEPT ![t] = "running"]
    /\ UNCHANGED <<inbox, m_clientList, kicked, late, listening, queue, clients, main,
                   answer, closing>>

\* RemoveClientTransThreads: the first n of the kind, active or not, are
\* deactivated, then CanExit is called.
RemoveClientTransThreads(n, ssl) ==
  LET ofKind == {i \in 1..size : bSSL[pool[i]] = ssl}
      first == {i \in ofKind : Cardinality({j \in ofKind : j <= i}) <= n}
  IN
    /\ Ready /\ ~closing /\ size > 0
    /\ m_bActivated' = [t \in Threads |-> m_bActivated[t] /\ t \notin {pool[i] : i \in first}]
    /\ main' = [Idle EXCEPT !.op = "exit", !.i = size]
    /\ UNCHANGED <<pool, size, bSSL, loop, inbox, m_clientList, kicked, late, listening,
                   queue, clients, answer, closing>>

\* The first lines of ~ZPMainFrame: RemoveAllAddresses, KickAllClients and
\* DeactiveImmediately.
Shutdown ==
  /\ Ready /\ ~closing
  /\ closing' = TRUE /\ answer' = FALSE
  /\ stops' = stops \cup Alive
  /\ Post(Live, <<Event("kickAll"), Event("deactivate")>>)
  /\ UNCHANGED <<pool, size, bSSL, m_bActivated, loop, m_clientList, kicked, late,
                 listener, backlog, queue, clients, main>>

\* The loop of the destructor asks until the answer is yes.
AskCanExit ==
  /\ Ready /\ closing /\ ~answer
  /\ main' = [Idle EXCEPT !.op = "exit", !.i = size]
  /\ UNCHANGED <<pool, size, threads, kicked, late, listening, queue, clients, answer, closing>>

-----------------------------------------------------------------------------
(* The choice of a thread for a client.                                    *)

\* The index of the first active thread of the kind with the fewest clients.
Chosen(ssl) ==
  LET fit == {i \in 1..size : m_bActivated[pool[i]] /\ bSSL[pool[i]] = ssl}
      pay(i) == Cardinality(m_clientList[pool[i]])
  IN IF fit = {} THEN 0
     ELSE CHOOSE i \in fit : \A j \in fit : pay(i) < pay(j) \/ (pay(i) = pay(j) /\ i <= j)

Choose(ssl, c) ==
  main' = [Idle EXCEPT !.op = "clean", !.i = 1, !.n = size,
                       !.minIdx = Chosen(ssl), !.client = c]

\* on_New_Arrived_Client, up to the loop that removes old threads.  The sender
\* of the event of a deleted listener is null.
on_New_Arrived_Client ==
  /\ Ready /\ queue # <<>> /\ Head(queue).kind = "arrived"
  /\ queue' = Tail(queue)
  /\ IF listener[Head(queue).listener] = "over" THEN UNCHANGED main
     ELSE Choose(Head(queue).listener \in Secure, Head(queue).client)
  /\ UNCHANGED <<pool, size, threads, kicked, late, listening, clients, answer, closing>>

\* connectTo, up to the same place.
connectTo(ssl) ==
  /\ Ready /\ ~closing /\ clients < MaxClients
  /\ clients' = clients + 1
  /\ Choose(ssl, clients')
  /\ UNCHANGED <<pool, size, threads, kicked, late, listening, queue, answer, closing>>

\* on_ListenClosed.
on_ListenClosed ==
  LET l == Head(queue).listener IN
    /\ Ready /\ queue # <<>> /\ Head(queue).kind = "closed"
    /\ queue' = Tail(queue)
    /\ listener' = [listener EXCEPT ![l] = "over"]
    /\ stops' = stops \ {l} /\ backlog' = [backlog EXCEPT ![l] = {}]
    /\ UNCHANGED <<pool, size, threads, kicked, late, clients, main, answer, closing>>

-----------------------------------------------------------------------------
(* The removal of threads.                                                 *)

CanExit_ClientsOrNot(t) == ~m_bActivated[t]   \* mutant: clients are not counted

\* CanExit of a transfer thread.
CanExit(t) == ~m_bActivated[t] /\ m_clientList[t] = {}

\* The first half of TransThreadDel: the thread is told to quit, and waited for.
Quit(t) ==
  /\ loop' = [loop EXCEPT ![t] = "quitting"]
  /\ main' = [main EXCEPT !.op = "wait", !.thread = t, !.back = main.op]
  /\ UNCHANGED <<pool, size, bSSL, m_bActivated, inbox, m_clientList, kicked, late,
                 listening, queue, clients, answer, closing>>

\* Where TransThreadDel finds the thread.
Place(t) == CHOOSE j \in 1..size : pool[j] = t

\* The second half of TransThreadDel: QVector::remove, and back to the loop.
Removed ==
  LET idx == Place(main.thread) IN
    /\ main.op = "wait" /\ loop[main.thread] = "finished"
    /\ pool' = [j \in Threads |-> IF j >= idx /\ j < size THEN pool[j + 1] ELSE pool[j]]
    /\ size' = size - 1
    /\ main' = [main EXCEPT !.op = main.back, !.thread = Nothing,
                            !.i = IF main.back = "clean" THEN @ + 1 ELSE @ - 1]
    /\ UNCHANGED <<threads, kicked, late, listening, queue, clients, answer, closing>>

CleanNext_NotSearched ==            \* mutant: the vector is not searched for it
  /\ main.op = "clean" /\ main.i <= main.n
  /\ IF CanExit(pool[main.i]) THEN Quit(pool[main.i])
     ELSE /\ main' = [main EXCEPT !.i = @ + 1]
          /\ UNCHANGED <<pool, size, threads, kicked, late, listening, queue, clients,
                         answer, closing>>

\* "remove old threads", to the size the vector had: TransThreadDel finds nothing
\* to do for a thread it has removed already.
CleanNext ==
  LET t == pool[main.i] IN
    /\ main.op = "clean" /\ main.i <= main.n
    /\ IF CanExit(t) /\ t \in Live THEN Quit(t)
       ELSE /\ main' = [main EXCEPT !.i = @ + 1]
            /\ UNCHANGED <<pool, size, threads, kicked, late, listening, queue, clients,
                           answer, closing>>

\* The client is given to whatever thread the chosen index names now.  A removed
\* one is no longer connected, and without a thread the client is left alone.
EmitEstablish ==
  LET t == pool[main.minIdx] IN
    /\ main.op = "clean" /\ main.i > main.n
    /\ main' = Idle
    /\ inbox' = IF main.minIdx > 0 /\ t \in Live
                THEN [inbox EXCEPT ![t] = Append(@, Establish(main.client))] ELSE inbox
    /\ UNCHANGED <<pool, size, bSSL, m_bActivated, loop, m_clientList, kicked, late,
                   listening, queue, clients, answer, closing>>

Return(res) ==
  /\ main' = Idle /\ answer' = res
  /\ UNCHANGED <<pool, size, threads, kicked, late, listening, queue, clients, closing>>

ExitNext_GoesOn ==                  \* mutant: a thread that stays is passed over
  /\ main.op = "exit"
  /\ IF main.i = 0 THEN Return(Alive = {})
     ELSE IF CanExit(pool[main.i]) THEN Quit(pool[main.i])
     ELSE /\ main' = [main EXCEPT !.i = @ - 1]
          /\ UNCHANGED <<pool, size, threads, kicked, late, listening, queue, clients,
                         answer, closing>>

\* The loop of CanExit of the engine, from the last thread to the first that
\* has to stay; a listener is reason enough to stay.
ExitNext ==
  /\ main.op = "exit"
  /\ IF main.i = 0 THEN Return(Alive = {})
     ELSE IF CanExit(pool[main.i]) THEN Quit(pool[main.i]) ELSE Return(FALSE)

-----------------------------------------------------------------------------
MainThread == on_New_Arrived_Client \/ on_ListenClosed \/ AskCanExit \/ CleanNext
                \/ EmitEstablish \/ ExitNext \/ Removed

Calls ==
  \/ \E l \in Listeners : AddListeningAddress(l)
  \/ RemoveAllAddresses \/ KickAll
  \/ \E ssl \in Kinds : AddClientTransThreads(ssl) \/ connectTo(ssl)
  \/ \E ssl \in Kinds, n \in 1..size : RemoveClientTransThreads(n, ssl)
  \/ Shutdown

Next ==
  \/ MainThread \/ Calls
  \/ \E l \in Listeners : Listener(l) \/ Accept(l)
  \/ \E t \in Threads : TransThread(t) \/ \E c \in Clients : ClientClosed(t, c)

Spec == Init /\ [][Next]_vars

\* Every thread keeps running, and a connection that is being closed gets closed.
\* The destructor handles queued events after every CanExit: a strong fairness,
\* for they have to wait while CanExit is executed.
FairSpec ==
  /\ Spec
  /\ SF_vars(on_New_Arrived_Client \/ on_ListenClosed)
  /\ WF_vars(AskCanExit) /\ WF_vars(CleanNext \/ EmitEstablish \/ ExitNext \/ Removed)
  /\ \A l \in Listeners : WF_vars(Listener(l))
  /\ \A t \in Threads : WF_vars(TransThread(t))
  /\ \A t \in Threads, c \in Clients : WF_vars(c \in kicked /\ ClientClosed(t, c))

-----------------------------------------------------------------------------
(* Properties.                                                             *)

TypeOK ==
  /\ pool \in [Threads -> 0..MaxThreads] /\ size \in 0..MaxThreads
  /\ bSSL \in [Threads -> BOOLEAN] /\ m_bActivated \in [Threads -> BOOLEAN]
  /\ loop \in [Threads -> {"none", "running", "quitting", "finished"}]
  /\ inbox \in [Threads -> Seq([kind : {"establish", "kickAll", "deactivate"},
                                client : 0..MaxClients])]
  /\ m_clientList \in [Threads -> SUBSET Clients]
  /\ kicked \subseteq Clients /\ late \subseteq Clients
  /\ listener \in [Listeners -> {"none", "starting", "listening", "closed", "over"}]
  /\ stops \subseteq Listeners /\ backlog \in [Listeners -> SUBSET Clients]
  /\ queue \in Seq([kind : {"arrived", "closed"}, listener : Listeners, client : 0..MaxClients])
  /\ clients \in 0..MaxClients
  /\ main \in [op : {"idle", "clean", "exit", "wait"}, i : 0..(MaxThreads + 1),
               n : 0..MaxThreads, thread : 0..MaxThreads, back : {"idle", "clean", "exit"},
               minIdx : 0..MaxThreads, client : 0..MaxClients]
  /\ answer \in BOOLEAN /\ closing \in BOOLEAN

\* The pool holds every thread that runs, and none that is deleted or held twice,
\* however many are removed in one loop over indices that have moved.
PoolSound ==
  /\ \A i, j \in 1..size : i # j => pool[i] # pool[j]
  /\ Live = {t \in Threads : loop[t] = "running" \/ t = main.thread}

\* A client that an active thread has taken is served until it leaves: when the
\* thread is removed meanwhile it does not end before.
ServedToTheEnd == \A t \in Threads : loop[t] = "finished" => m_clientList[t] \subseteq late

\* When CanExit says yes no transfer thread is left and no listener: the main
\* frame deletes the engine next.
ExitMeansEmpty ==
  [][~answer /\ answer' => Alive = {} /\ \A t \in Threads : loop[t] \in {"none", "finished"}]_vars

\* The shutdown has asked for all it waits for: when what it has queued has been
\* handled no listener is left, no thread is active, and whoever is still served
\* is being closed or came in behind the deactivation of his thread.
OnlyClosingLeft ==
  closing /\ queue = <<>> /\ stops = {} /\ (\A t \in Live : inbox[t] = <<>>) =>
    /\ Alive = {}
    /\ \A t \in Live : ~m_bActivated[t] /\ m_clientList[t] \subseteq kicked \cup late

\* The shutdown of the main frame ends, unless a client has come in behind its
\* back: one that was given to a thread before this had been deactivated.
ShutdownEnds == closing ~> (answer \/ \E t \in Threads : m_clientList[t] \cap late # {})
=============================================================================
