-------------------------- MODULE NetEngine_proofs --------------------------
(* Theorems about NetEngine for any number of threads, listeners and       *)
(* clients: clients are served to their end, the pool is sound whatever is *)
(* removed from it, and the engine says yes to CanExit only when empty.    *)
EXTENDS NetEngine, FiniteSetTheorems, SequenceTheorems, WellFoundedInduction, TLAPS

-----------------------------------------------------------------------------
(* Who is served.                                                          *)

\* What the argument needs of the types.
ThreadTypes ==
  /\ m_bActivated \in [Threads -> BOOLEAN]
  /\ loop \in [Threads -> {"none", "running", "quitting", "finished"}]
  /\ m_clientList = [t \in Threads |-> m_clientList[t]]

Ending(t) == loop[t] \in {"quitting", "finished"}

\* A thread that has been told to quit is no longer active, and serves none but
\* clients it has taken since: CanExit has seen it without any.
EndingInv == \A t \in Threads : Ending(t) => ~m_bActivated[t] /\ m_clientList[t] \subseteq late

IInv == ThreadTypes /\ EndingInv

LEMMA InitIInv == Init => IInv
BY DEF Init, IInv, ThreadTypes, EndingInv, Ending

\* A step that leaves the threads' state alone keeps the invariant.
LEMMA Elsewhere ==
  ASSUME IInv, UNCHANGED <<m_bActivated, loop, m_clientList, late>>
  PROVE  IInv'
BY DEF IInv, ThreadTypes, EndingInv, Ending

\* Only a thread without clients is told to quit.
LEMMA QuitIInv ==
  ASSUME IInv, NEW t, CanExit(t), Quit(t)
  PROVE  IInv'
BY DEF IInv, ThreadTypes, EndingInv, Ending, CanExit, Quit

\* The steps of a transfer thread.
LEMMA TransThreadIInv ==
  ASSUME IInv, NEW t \in Threads, TransThread(t) \/ \E c \in Clients : ClientClosed(t, c)
  PROVE  IInv'
<1> USE DEF IInv, ThreadTypes, EndingInv, Ending
<1>1. CASE incomingConnection(t)
  <2> DEFINE c == Head(inbox[t]).client
  <2>1. CASE UNCHANGED <<m_clientList, late>>
    BY <1>1, <2>1 DEF incomingConnection
  <2>2. CASE /\ m_clientList' = [m_clientList EXCEPT ![t] = @ \cup {c}]
             /\ late' = IF m_bActivated[t] THEN late ELSE late \cup {c}
    <3>1. m_bActivated' = m_bActivated /\ loop' = loop
      BY <1>1 DEF incomingConnection
    <3> HIDE DEF c
    <3>2. QED
      BY <2>2, <3>1
  <2>3. QED
    BY <1>1, <2>1, <2>2 DEF incomingConnection
<1>2. CASE KickAllClients(t)
  BY <1>2 DEF KickAllClients
<1>3. CASE DeactivateImmediately(t)
  BY <1>3 DEF DeactivateImmediately
<1>4. CASE ThreadEnds(t)
  BY <1>4 DEF ThreadEnds
<1>5. ASSUME NEW c \in Clients, ClientClosed(t, c) PROVE IInv'
  BY <1>5 DEF ClientClosed
<1>6. QED
  BY <1>1, <1>2, <1>3, <1>4, <1>5 DEF TransThread

\* The steps of listeners.
LEMMA ListenerIInv ==
  ASSUME IInv, NEW l \in Listeners, Listener(l) \/ Accept(l)
  PROVE  IInv'
BY Elsewhere DEF Listener, startListen, stopListen, evt_NewClientArrived, Accept, threads

\* The steps of the main thread.
LEMMA MainThreadIInv ==
  ASSUME IInv, MainThread
  PROVE  IInv'
<1>1. CASE on_New_Arrived_Client \/ on_ListenClosed \/ AskCanExit \/ EmitEstablish \/ Removed
  BY <1>1, Elsewhere DEF on_New_Arrived_Client, on_ListenClosed, AskCanExit, EmitEstablish,
                         Removed, threads
<1>2. CASE CleanNext
  BY <1>2, Elsewhere, QuitIInv DEF CleanNext, threads
<1>3. CASE ExitNext
  BY <1>3, Elsewhere, QuitIInv DEF ExitNext, Return, threads
<1>4. QED
  BY <1>1, <1>2, <1>3 DEF MainThread

\* The calls: threads are added running, and removed by making them inactive.
LEMMA CallsIInv ==
  ASSUME IInv, Calls
  PROVE  IInv'
<1>1. ASSUME NEW l \in Listeners, AddListeningAddress(l) PROVE IInv'
  BY <1>1, Elsewhere DEF AddListeningAddress, threads
<1>2. CASE RemoveAllAddresses
  BY <1>2, Elsewhere DEF RemoveAllAddresses, threads
<1>3. CASE KickAll
  BY <1>3, Elsewhere DEF KickAll
<1>4. ASSUME NEW ssl \in Kinds, AddClientTransThreads(ssl) PROVE IInv'
  BY <1>4 DEF AddClientTransThreads, IInv, ThreadTypes, EndingInv, Ending
<1>5. ASSUME NEW ssl \in Kinds, connectTo(ssl) PROVE IInv'
  BY <1>5, Elsewhere DEF connectTo, threads
<1>6. ASSUME NEW ssl \in Kinds, NEW n \in 1..size, RemoveClientTransThreads(n, ssl)
      PROVE  IInv'
  BY <1>6 DEF RemoveClientTransThreads, IInv, ThreadTypes, EndingInv, Ending
<1>7. CASE Shutdown
  BY <1>7, Elsewhere DEF Shutdown
<1>8. QED
  BY <1>1, <1>2, <1>3, <1>4, <1>5, <1>6, <1>7 DEF Calls

\* The invariant for any number of threads and clients.
THEOREM EndingCorrect == Spec => []IInv
<1>1. ASSUME IInv, [Next]_vars PROVE IInv'
  <2>1. CASE UNCHANGED vars
    BY <1>1, <2>1, Elsewhere DEF vars, threads
  <2>2. CASE Next
    BY <1>1, <2>2, MainThreadIInv, CallsIInv, ListenerIInv, TransThreadIInv DEF Next
  <2>3. QED
    BY <1>1, <2>1, <2>2
<1>2. QED
  BY InitIInv, <1>1, PTL DEF Spec

\* TransThreadDel ends a thread only when every client that the thread had
\* taken before its deactivation has left, whatever is queued for it meanwhile.
THEOREM ServedToTheEndCorrect == Spec => []ServedToTheEnd
<1>1. IInv => ServedToTheEnd
  BY DEF IInv, EndingInv, Ending, ServedToTheEnd
<1>2. QED
  BY <1>1, EndingCorrect, PTL

-----------------------------------------------------------------------------
(* The pool.                                                               *)

Started == {t \in Threads : loop[t] # "none"}

\* Threads are numbered as they are started, and the pool has no more places
\* than there have been threads: there is room for the next one.
StartedInv ==
  /\ Started = 1..Cardinality(Started)
  /\ size <= Cardinality(Started)

\* What the main thread is doing: CanExit, also while it waits for a thread, is
\* always at the last place of the vector, and only the thread that is waited
\* for has been told to quit and has not ended.
MainInv ==
  /\ main = [op |-> main.op, i |-> main.i, n |-> main.n, thread |-> main.thread,
             back |-> main.back, minIdx |-> main.minIdx, client |-> main.client]
  /\ main.op \in {"idle", "clean", "exit", "wait"}
  /\ main.op # "wait" => main.thread = Nothing
  /\ main.op = "wait" => main.thread \in Threads /\ main.back \in {"clean", "exit"}
  /\ main.op = "exit" \/ (main.op = "wait" /\ main.back = "exit") => main.i = size
  /\ \A t \in Threads : loop[t] = "quitting" => t = main.thread

PoolInv ==
  /\ pool \in [Threads -> 0..MaxThreads] /\ size \in 0..MaxThreads
  /\ loop \in [Threads -> {"none", "running", "quitting", "finished"}]
  /\ StartedInv /\ PoolSound /\ MainInv

LEMMA StartedFinite == IsFiniteSet(Started) /\ Cardinality(Started) \in Nat
<1>1. IsFiniteSet(Threads)
  BY FS_Interval, EngineAssumption DEF Threads
<1>2. Started \subseteq Threads
  BY DEF Started
<1>3. QED
  BY <1>1, <1>2, FS_Subset, FS_CardinalityType

LEMMA InitPoolInv == Init => PoolInv
<1> SUFFICES ASSUME Init PROVE PoolInv
  OBVIOUS
<1> USE EngineAssumption DEF Init, Threads, Nothing
<1>1. Started = {} /\ Cardinality(Started) = 0
  BY FS_EmptySet DEF Started
<1>2. StartedInv
  BY <1>1 DEF StartedInv
<1>3. PoolSound
  BY DEF PoolSound, Live, Idle
<1>4. MainInv
  BY DEF MainInv, Idle
<1>5. QED
  BY <1>2, <1>3, <1>4 DEF PoolInv

\* A step that leaves the pool, the loops and the main thread where they are.
LEMMA PoolFrame ==
  ASSUME PoolInv, UNCHANGED <<pool, size, loop, main>>
  PROVE  PoolInv'
BY DEF PoolInv, StartedInv, Started, PoolSound, Live, MainInv

\* The main thread goes on without a change of the pool, at the last place of
\* the vector when it executes CanExit.
LEMMA MainMoves ==
  ASSUME PoolInv, main.op # "wait", UNCHANGED <<pool, size, loop>>,
         main' = [op |-> main'.op, i |-> main'.i, n |-> main'.n, thread |-> main'.thread,
                  back |-> main'.back, minIdx |-> main'.minIdx, client |-> main'.client],
         main'.thread = Nothing,
         main'.op \in {"idle", "clean"} \/ (main'.op = "exit" /\ main'.i = size)
  PROVE  PoolInv'
<1>1. StartedInv' /\ Started' = Started /\ Live' = Live
  BY DEF PoolInv, StartedInv, Started, Live
<1>2. main'.thread = main.thread
  BY DEF PoolInv, MainInv
<1>3. PoolSound'
  BY <1>1, <1>2 DEF PoolInv, PoolSound
<1>4. MainInv'
  BY <1>2 DEF PoolInv, MainInv
<1>5. QED
  BY <1>1, <1>3, <1>4 DEF PoolInv

\* A thread of the pool is told to quit, and remains in the pool.
LEMMA QuitPoolInv ==
  ASSUME PoolInv, NEW t \in Live, main.op \in {"clean", "exit"}, Quit(t)
  PROVE  PoolInv'
<1>1. /\ main.thread = Nothing /\ Nothing \notin Threads
      /\ main = [op |-> main.op, i |-> main.i, n |-> main.n, thread |-> main.thread,
                 back |-> main.back, minIdx |-> main.minIdx, client |-> main.client]
  BY EngineAssumption DEF PoolInv, MainInv, Threads, Nothing
<1>2. t \in Threads /\ loop[t] = "running"
  BY <1>1 DEF PoolInv, PoolSound
<1>3. /\ UNCHANGED <<pool, size>>
      /\ loop' = [loop EXCEPT ![t] = "quitting"]
      /\ main' = [main EXCEPT !.op = "wait", !.thread = t, !.back = main.op]
  BY DEF Quit
<1>4. loop' \in [Threads -> {"none", "running", "quitting", "finished"}]
  BY <1>3 DEF PoolInv
<1>5. Started' = Started /\ Live' = Live
  BY <1>2, <1>3 DEF Started, Live, PoolInv
<1>6. StartedInv'
  BY <1>3, <1>5 DEF PoolInv, StartedInv
<1>7. main' = [op |-> "wait", i |-> main.i, n |-> main.n, thread |-> t,
               back |-> main.op, minIdx |-> main.minIdx, client |-> main.client]
  BY <1>1, <1>3
<1>8. \A r \in Threads : (loop[r] = "running" \/ r = main.thread)
                           <=> (loop'[r] = "running" \/ r = main'.thread)
  BY <1>1, <1>2, <1>3, <1>7 DEF PoolInv
<1>9. PoolSound'
  BY <1>3, <1>5, <1>8 DEF PoolInv, PoolSound
<1>10. \A r \in Threads : loop'[r] = "quitting" => r = t
  BY <1>1, <1>2, <1>3 DEF PoolInv, MainInv
<1>11. MainInv'
  BY <1>2, <1>3, <1>7, <1>10 DEF PoolInv, MainInv
<1>12. QED
  BY <1>3, <1>4, <1>6, <1>9, <1>11 DEF PoolInv

\* QVector::remove: the thread that is waited for leaves the pool, the others
\* stay, each once, whatever loop the main thread is in.
LEMMA RemovedPoolInv ==
  ASSUME PoolInv, Removed
  PROVE  PoolInv'
<1> DEFINE t == main.thread
           idx == Place(t)
<1>1. /\ main.op = "wait" /\ t \in Threads /\ loop[t] = "finished"
      /\ main.back \in {"clean", "exit"} /\ Nothing \notin Threads
  BY EngineAssumption DEF Removed, PoolInv, MainInv, Threads, Nothing
<1>2. /\ pool' = [j \in Threads |-> IF j >= idx /\ j < size THEN pool[j + 1] ELSE pool[j]]
      /\ size' = size - 1 /\ loop' = loop
      /\ main' = [main EXCEPT !.op = main.back, !.thread = Nothing,
                              !.i = IF main.back = "clean" THEN @ + 1 ELSE @ - 1]
  BY DEF Removed, threads
<1>3. t \in Live
  BY <1>1 DEF PoolInv, PoolSound
<1>4. idx \in 1..size /\ pool[idx] = t
  BY <1>3 DEF Live, Place
<1>5. size \in 1..MaxThreads /\ Threads = 1..MaxThreads /\ MaxThreads \in Nat
  BY <1>4, EngineAssumption DEF PoolInv, Threads
<1> HIDE DEF idx
<1>6. \A j \in 1..size' : /\ j < idx => pool'[j] = pool[j]
                          /\ j >= idx => pool'[j] = pool[j + 1]
  BY <1>2, <1>4, <1>5
<1>7. pool' \in [Threads -> 0..MaxThreads] /\ size' \in 0..MaxThreads
  <2>1. ASSUME NEW j \in Threads PROVE pool'[j] \in 0..MaxThreads
    <3>1. CASE j >= idx /\ j < size
      <4>1. j + 1 \in Threads /\ pool'[j] = pool[j + 1]
        BY <1>2, <1>5, <3>1
      <4>2. QED
        BY <4>1 DEF PoolInv
    <3>2. CASE ~(j >= idx /\ j < size)
      BY <1>2, <3>2 DEF PoolInv
    <3>3. QED
      BY <3>1, <3>2
  <2>2. QED
    BY <1>2, <1>5, <2>1
<1>8. ASSUME NEW j \in 1..size', NEW k \in 1..size', j # k PROVE pool'[j] # pool'[k]
  <2>1. \A a, b \in 1..size : a # b => pool[a] # pool[b]
    BY DEF PoolInv, PoolSound
  <2>2. /\ j \in 1..size /\ k \in 1..size /\ j + 1 \in 1..size /\ k + 1 \in 1..size
        /\ j + 1 # k + 1
    BY <1>2, <1>5, <1>8
  <2>3. CASE j < idx /\ k < idx
    BY <1>6, <2>1, <2>2, <2>3, <1>8
  <2>4. CASE j < idx /\ k >= idx
    <3>1. j # k + 1
      BY <1>4, <1>5, <2>2, <2>4
    <3>2. QED
      BY <1>6, <2>1, <2>2, <2>4, <3>1
  <2>5. CASE j >= idx /\ k < idx
    <3>1. j + 1 # k
      BY <1>4, <1>5, <2>2, <2>5
    <3>2. QED
      BY <1>6, <2>1, <2>2, <2>5, <3>1
  <2>6. CASE j >= idx /\ k >= idx
    BY <1>6, <2>1, <2>2, <2>6
  <2>7. QED
    BY <1>4, <2>2, <2>3, <2>4, <2>5, <2>6
<1>9. Live' = Live \ {t}
  <2>1. \A a, b \in 1..size : a # b => pool[a] # pool[b]
    BY DEF PoolInv, PoolSound
  <2>2. ASSUME NEW j \in 1..size' PROVE pool'[j] \in Live \ {t}
    <3>1. j \in 1..size /\ j + 1 \in 1..size
      BY <1>2, <1>5
    <3>2. CASE j < idx
      <4>1. pool'[j] = pool[j] /\ j # idx
        BY <1>4, <1>6, <3>1, <3>2
      <4>2. QED
        BY <1>4, <2>1, <3>1, <4>1 DEF Live
    <3>3. CASE j >= idx
      <4>1. pool'[j] = pool[j + 1] /\ j + 1 # idx
        BY <1>4, <1>6, <3>1, <3>3
      <4>2. QED
        BY <1>4, <2>1, <3>1, <4>1 DEF Live
    <3>4. QED
      BY <1>4, <3>1, <3>2, <3>3
  <2>3. ASSUME NEW j \in 1..size, pool[j] # t PROVE \E k \in 1..size' : pool'[k] = pool[j]
    <3>1. j # idx
      BY <1>4, <2>3
    <3>2. CASE j < idx
      <4>1. j \in 1..size'
        BY <1>2, <1>4, <1>5, <3>2
      <4>2. QED
        BY <1>6, <3>2, <4>1
    <3>3. CASE j > idx
      <4>1. j - 1 \in 1..size' /\ j - 1 >= idx /\ (j - 1) + 1 = j
        BY <1>2, <1>4, <1>5, <3>3
      <4>2. QED
        BY <1>6, <4>1
    <3>4. QED
      BY <1>4, <3>1, <3>2, <3>3
  <2>4. QED
    BY <2>2, <2>3 DEF Live
<1>10. main' = [op |-> main.back, i |-> IF main.back = "clean" THEN main.i + 1 ELSE main.i - 1,
                n |-> main.n, thread |-> Nothing, back |-> main.back,
                minIdx |-> main.minIdx, client |-> main.client]
  BY <1>2 DEF PoolInv, MainInv
<1>11. StartedInv'
  <2>1. Started' = Started
    BY <1>2 DEF Started
  <2>2. QED
    BY <1>2, <1>5, <2>1, StartedFinite DEF PoolInv, StartedInv
<1>12. PoolSound'
  <2>1. \A r \in Threads : (loop'[r] = "running" \/ r = main'.thread)
                             <=> (loop[r] = "running" \/ r = t) /\ r # t
    BY <1>1, <1>2, <1>10
  <2>2. Live' = {r \in Threads : loop'[r] = "running" \/ r = main'.thread}
    BY <1>9, <2>1 DEF PoolInv, PoolSound
  <2>3. QED
    BY <1>8, <2>2 DEF PoolSound
<1>13. MainInv'
  <2>1. main.back = "exit" => main'.i = size'
    BY <1>1, <1>2, <1>10 DEF PoolInv, MainInv
  <2>2. \A r \in Threads : loop'[r] # "quitting"
    BY <1>1, <1>2 DEF PoolInv, MainInv
  <2>3. QED
    BY <1>1, <1>10, <2>1, <2>2 DEF MainInv
<1>14. QED
  BY <1>2, <1>7, <1>11, <1>12, <1>13 DEF PoolInv

\* AddClientTransThreads takes a number nobody has and the first free place.
LEMMA AddPoolInv ==
  ASSUME PoolInv, NEW ssl \in Kinds, AddClientTransThreads(ssl)
  PROVE  PoolInv'
<1> DEFINE k == Cardinality(Started)
           t == k + 1
<1>1. IsFiniteSet(Started) /\ k \in Nat
  BY StartedFinite
<1>2. Started = 1..k /\ size <= k /\ size \in 0..MaxThreads
  BY DEF PoolInv, StartedInv
<1>3. /\ main.op = "idle" /\ t \in Threads
      /\ pool' = [pool EXCEPT ![size + 1] = t] /\ size' = size + 1
      /\ loop' = [loop EXCEPT ![t] = "running"] /\ main' = main
  BY DEF AddClientTransThreads, Ready, Started
<1> HIDE DEF k
<1>4. Threads = 1..MaxThreads /\ MaxThreads \in Nat /\ k + 1 <= MaxThreads
  BY <1>1, <1>3, EngineAssumption DEF Threads
<1>5. size + 1 \in Threads /\ size + 1 \in 1..MaxThreads
  BY <1>2, <1>4, <1>1
<1>6. t \notin Started /\ loop[t] = "none"
  BY <1>1, <1>2, <1>3 DEF Started
<1>7. Started' = 1..(k + 1)
  <2>1. Started' = Started \cup {t}
    BY <1>3 DEF Started, PoolInv
  <2>2. QED
    BY <1>1, <1>2, <2>1
<1>8. StartedInv'
  <2>1. Cardinality(Started') = k + 1
    BY <1>1, <1>7, FS_Interval
  <2>2. QED
    BY <1>1, <1>2, <1>3, <1>7, <2>1 DEF StartedInv
<1>9. /\ \A j \in 1..size : pool'[j] = pool[j]
      /\ pool'[size + 1] = t
      /\ 1..size' = (1..size) \cup {size + 1}
  BY <1>2, <1>3, <1>5 DEF PoolInv
<1>10. Live' = Live \cup {t}
  BY <1>9 DEF Live
<1>11. t \notin Live
  <2>1. main.thread = Nothing /\ t # Nothing
    BY <1>1, <1>3 DEF PoolInv, MainInv, Nothing
  <2>2. QED
    BY <1>6, <2>1 DEF PoolInv, PoolSound
<1>12. \A i, j \in 1..size' : i # j => pool'[i] # pool'[j]
  BY <1>9, <1>11 DEF PoolInv, PoolSound, Live
<1>13. \A r \in Threads : loop'[r] = "running" <=> loop[r] = "running" \/ r = t
  BY <1>3 DEF PoolInv
<1>14. PoolSound'
  <2>1. Live' = {r \in Threads : loop'[r] = "running" \/ r = main'.thread}
    BY <1>3, <1>10, <1>13 DEF PoolInv, PoolSound
  <2>2. QED
    BY <1>12, <2>1 DEF PoolSound
<1>15. MainInv'
  BY <1>3 DEF PoolInv, MainInv
<1>16. pool' \in [Threads -> 0..MaxThreads] /\ size' \in 0..MaxThreads
  <2>1. t \in 0..MaxThreads
    BY <1>1, <1>4
  <2>2. QED
    BY <1>3, <1>5, <2>1 DEF PoolInv
<1>17. QED
  BY <1>3, <1>8, <1>14, <1>15, <1>16 DEF PoolInv

LEMMA StepPoolInv ==
  ASSUME PoolInv, [Next]_vars
  PROVE  PoolInv'
<1>1. CASE UNCHANGED vars
  BY <1>1, PoolFrame DEF vars, threads
<1>2. ASSUME NEW l \in Listeners, Listener(l) \/ Accept(l) PROVE PoolInv'
  BY <1>2, PoolFrame DEF Listener, startListen, stopListen, evt_NewClientArrived, Accept,
                         threads
<1>3. ASSUME NEW t \in Threads, TransThread(t) \/ \E c \in Clients : ClientClosed(t, c)
      PROVE  PoolInv'
  <2>1. CASE ThreadEnds(t)
    <3>1. /\ UNCHANGED <<pool, size, main>> /\ loop[t] = "quitting"
          /\ loop' = [loop EXCEPT ![t] = "finished"]
      BY <2>1 DEF ThreadEnds
    <3>2. /\ loop' \in [Threads -> {"none", "running", "quitting", "finished"}]
          /\ Started' = Started /\ Live' = Live
      BY <3>1 DEF PoolInv, Started, Live
    <3>3. \A r \in Threads : loop'[r] = "running" <=> loop[r] = "running"
      BY <3>1 DEF PoolInv
    <3>4. StartedInv' /\ PoolSound'
      BY <3>1, <3>2, <3>3 DEF PoolInv, StartedInv, PoolSound
    <3>5. MainInv'
      BY <3>1 DEF PoolInv, MainInv
    <3>6. QED
      BY <3>1, <3>2, <3>4, <3>5 DEF PoolInv
  <2>2. CASE ~ThreadEnds(t)
    BY <1>3, <2>2, PoolFrame DEF TransThread, incomingConnection, KickAllClients,
                                 DeactivateImmediately, ClientClosed
  <2>3. QED
    BY <2>1, <2>2
<1>4. CASE on_New_Arrived_Client \/ on_ListenClosed \/ AskCanExit \/ EmitEstablish
  <2>1. CASE on_New_Arrived_Client
    <3>1. main' = main \/ \E ssl, c : Choose(ssl, c)
      BY <2>1 DEF on_New_Arrived_Client
    <3>2. main.op = "idle" /\ UNCHANGED <<pool, size, loop>>
      BY <2>1 DEF on_New_Arrived_Client, Ready, threads
    <3>3. QED
      BY <3>1, <3>2, MainMoves, PoolFrame DEF Choose, Idle
  <2>2. CASE on_ListenClosed
    BY <2>2, PoolFrame DEF on_ListenClosed, threads
  <2>3. CASE AskCanExit
    BY <2>3, MainMoves DEF AskCanExit, Ready, Idle, threads
  <2>4. CASE EmitEstablish
    BY <2>4, MainMoves DEF EmitEstablish, Idle
  <2>5. QED
    BY <1>4, <2>1, <2>2, <2>3, <2>4
<1>5. CASE CleanNext
  <2>1. CASE CanExit(pool[main.i]) /\ pool[main.i] \in Live
    BY <1>5, <2>1, QuitPoolInv DEF CleanNext
  <2>2. CASE ~(CanExit(pool[main.i]) /\ pool[main.i] \in Live)
    <3>1. /\ main' = [main EXCEPT !.i = @ + 1] /\ main.op = "clean"
          /\ UNCHANGED <<pool, size, loop>>
      BY <1>5, <2>2 DEF CleanNext, threads
    <3>2. main' = [op |-> main.op, i |-> main.i + 1, n |-> main.n, thread |-> main.thread,
                   back |-> main.back, minIdx |-> main.minIdx, client |-> main.client]
      BY <3>1 DEF PoolInv, MainInv
    <3>3. main.thread = Nothing
      BY <3>1 DEF PoolInv, MainInv
    <3>4. QED
      BY <3>1, <3>2, <3>3, MainMoves
  <2>3. QED
    BY <2>1, <2>2
<1>6. CASE ExitNext
  <2>1. main.op = "exit" /\ main.i = size /\ size \in 0..MaxThreads
    BY <1>6 DEF ExitNext, PoolInv, MainInv
  <2>2. CASE \E res : Return(res)
    BY <2>1, <2>2, MainMoves DEF Return, Idle, threads
  <2>3. CASE main.i # 0 /\ Quit(pool[main.i])
    <3>1. pool[main.i] \in Live
      BY <2>1, <2>3 DEF Live
    <3>2. QED
      BY <2>1, <2>3, <3>1, QuitPoolInv
  <2>4. QED
    BY <1>6, <2>2, <2>3 DEF ExitNext
<1>7. CASE Removed
  BY <1>7, RemovedPoolInv
<1>8. CASE Calls
  <2>1. ASSUME NEW l \in Listeners, AddListeningAddress(l) PROVE PoolInv'
    BY <2>1, PoolFrame DEF AddListeningAddress, threads
  <2>2. CASE RemoveAllAddresses \/ KickAll \/ Shutdown
    BY <2>2, PoolFrame DEF RemoveAllAddresses, KickAll, Shutdown, threads
  <2>3. ASSUME NEW ssl \in Kinds, AddClientTransThreads(ssl) PROVE PoolInv'
    BY <2>3, AddPoolInv
  <2>4. ASSUME NEW ssl \in Kinds, connectTo(ssl) PROVE PoolInv'
    BY <2>4, MainMoves DEF connectTo, Ready, Choose, Idle, threads
  <2>5. ASSUME NEW ssl \in Kinds, NEW n \in 1..size, RemoveClientTransThreads(n, ssl)
        PROVE  PoolInv'
    BY <2>5, MainMoves DEF RemoveClientTransThreads, Ready, Idle
  <2>6. QED
    BY <1>8, <2>1, <2>2, <2>3, <2>4, <2>5 DEF Calls
<1>9. QED
  BY <1>1, <1>2, <1>3, <1>4, <1>5, <1>6, <1>7, <1>8 DEF Next, MainThread

THEOREM PoolInvCorrect == Spec => []PoolInv
<1>1. QED
  BY InitPoolInv, StepPoolInv, PTL DEF Spec

\* The pool holds exactly the threads that run and the one that is being removed,
\* each once, although the loops that remove threads go over indices that have
\* moved and places that are stale.
THEOREM PoolSoundCorrect == Spec => []PoolSound
<1>1. PoolInv => PoolSound
  BY DEF PoolInv
<1>2. QED
  BY <1>1, PoolInvCorrect, PTL

\* CanExit says yes only when no listener is left and every thread that was ever
\* started has ended.
THEOREM ExitMeansEmptyCorrect == Spec => ExitMeansEmpty
<1> DEFINE Empty == Alive = {} /\ \A t \in Threads : loop[t] \in {"none", "finished"}
<1>1. ASSUME PoolInv, [Next]_vars PROVE [~answer /\ answer' => Empty]_vars
  <2> SUFFICES ASSUME ~answer, answer' PROVE Empty
    OBVIOUS
  <2>1. ExitNext /\ main.i = 0 /\ Alive = {}
    BY <1>1 DEF Next, MainThread, Calls, vars, Listener, startListen, stopListen, Accept,
       evt_NewClientArrived, TransThread, incomingConnection, KickAllClients,
       DeactivateImmediately, ThreadEnds, ClientClosed, on_New_Arrived_Client, on_ListenClosed,
       AskCanExit, EmitEstablish, CleanNext, Quit, ExitNext, Return, Removed,
       AddListeningAddress, RemoveAllAddresses, KickAll, AddClientTransThreads, connectTo,
       RemoveClientTransThreads, Shutdown
  <2>2. size = 0 /\ main.thread = Nothing /\ Nothing \notin Threads
    BY <1>1, <2>1, EngineAssumption DEF ExitNext, PoolInv, MainInv, Threads, Nothing
  <2>3. Live = {}
    BY <2>2 DEF Live
  <2>4. ASSUME NEW t \in Threads PROVE loop[t] \in {"none", "finished"}
    BY <1>1, <2>2, <2>3 DEF PoolInv, PoolSound, MainInv
  <2>5. QED
    BY <2>1, <2>4
<1>2. QED
  BY <1>1, PoolInvCorrect, PTL DEF Spec, ExitMeansEmpty

-----------------------------------------------------------------------------
(* Types.                                                                  *)

InboxEvents == [kind : {"kickAll", "deactivate"}, client : {Nothing}]
                 \cup [kind : {"establish"}, client : Clients]
MainEvents == [kind : {"closed"}, listener : Listeners, client : {Nothing}]
                \cup [kind : {"arrived"}, listener : Listeners, client : Clients]

MainStates ==
  [op : {"idle", "clean", "exit", "wait"}, i : 0..(MaxThreads + 1), n : 0..MaxThreads,
   thread : 0..MaxThreads, back : {"idle", "clean", "exit"}, minIdx : 0..MaxThreads,
   client : 0..MaxClients]

\* The loop of on_New_Arrived_Client does not leave the memory of the vector, and
\* is for a client.
LoopInv ==
  /\ main.op = "clean" \/ (main.op = "wait" /\ main.back = "clean") => main.client \in Clients
  /\ main.op = "clean" => main.i \in 1..(main.n + 1)
  /\ main.op = "wait" /\ main.back = "clean" => main.i \in 1..main.n

ThreadsOK ==
  /\ bSSL \in [Threads -> BOOLEAN] /\ m_bActivated \in [Threads -> BOOLEAN]
  /\ loop \in [Threads -> {"none", "running", "quitting", "finished"}]
  /\ inbox \in [Threads -> Seq(InboxEvents)]
  /\ m_clientList \in [Threads -> SUBSET Clients]

ListenersOK ==
  /\ listener \in [Listeners -> {"none", "starting", "listening", "closed", "over"}]
  /\ stops \subseteq Listeners /\ backlog \in [Listeners -> SUBSET Clients]
  /\ queue \in Seq(MainEvents) /\ clients \in 0..MaxClients

MainOK ==
  /\ pool \in [Threads -> 0..MaxThreads] /\ size \in 0..MaxThreads
  /\ kicked \subseteq Clients /\ late \subseteq Clients
  /\ main \in MainStates /\ answer \in BOOLEAN /\ closing \in BOOLEAN

TypeInv == ThreadsOK /\ ListenersOK /\ MainOK /\ LoopInv

\* Sequences over a part are sequences over the whole.
LEMMA SeqPart ==
  ASSUME NEW S, NEW T, S \subseteq T, NEW q \in Seq(S)
  PROVE  q \in Seq(T)
<1>1. Len(q) \in Nat /\ q = [i \in 1..Len(q) |-> q[i]] /\ \A i \in 1..Len(q) : q[i] \in T
  OBVIOUS
<1>2. QED
  BY <1>1

\* What is queued is more than TypeOK says: clients are named where they are needed.
LEMMA TypeInvType == TypeInv => TypeOK
<1> SUFFICES ASSUME TypeInv PROVE TypeOK
  OBVIOUS
<1> DEFINE I == [kind : {"establish", "kickAll", "deactivate"}, client : 0..MaxClients]
           M == [kind : {"arrived", "closed"}, listener : Listeners, client : 0..MaxClients]
<1>1. InboxEvents \subseteq I /\ MainEvents \subseteq M
  BY EngineAssumption DEF InboxEvents, MainEvents, Clients, Nothing
<1> HIDE DEF I, M
<1>2. inbox \in [Threads -> Seq(I)] /\ queue \in Seq(M)
  <2>1. queue \in Seq(MainEvents) /\ inbox \in [Threads -> Seq(InboxEvents)]
    BY DEF TypeInv, ThreadsOK, ListenersOK
  <2>2. queue \in Seq(M)
    BY <1>1, <2>1, SeqPart
  <2>3. ASSUME NEW t \in Threads PROVE inbox[t] \in Seq(I)
    <3>1. inbox[t] \in Seq(InboxEvents)
      BY <2>1
    <3>2. QED
      BY <1>1, <3>1, SeqPart
  <2>4. QED
    BY <2>1, <2>2, <2>3
<1>3. /\ pool \in [Threads -> 0..MaxThreads] /\ size \in 0..MaxThreads
      /\ kicked \subseteq Clients /\ late \subseteq Clients
      /\ answer \in BOOLEAN /\ closing \in BOOLEAN
      /\ main \in MainStates
  BY DEF TypeInv, MainOK
<1>4. ThreadsOK /\ ListenersOK
  BY DEF TypeInv
<1>5. QED
  BY <1>2, <1>3, <1>4, Zenon DEF ThreadsOK, ListenersOK, MainStates, TypeOK, I, M

LEMMA EventTypes ==
  /\ \A k \in {"kickAll", "deactivate"} : Event(k) \in InboxEvents
  /\ \A c \in Clients : Establish(c) \in InboxEvents
  /\ \A l \in Listeners : ListenClosed(l) \in MainEvents
  /\ \A l \in Listeners, c \in Clients : Arrived(l, c) \in MainEvents
BY EngineAssumption DEF Event, Establish, ListenClosed, Arrived, InboxEvents, MainEvents,
                        Clients, Nothing

\* Events put behind those that are queued for some threads.
LEMMA PostType ==
  ASSUME inbox \in [Threads -> Seq(InboxEvents)], NEW ts, NEW es \in Seq(InboxEvents),
         Post(ts, es)
  PROVE  inbox' \in [Threads -> Seq(InboxEvents)]
BY DEF Post

\* Only threads are in the pool.
LEMMA PoolMembers == PoolInv => Live \subseteq Threads
BY DEF PoolInv, PoolSound

\* A set of numbers has a smallest one.
LEMMA NatMin ==
  ASSUME NEW T \in SUBSET Nat, T # {}
  PROVE  \E n \in T : \A m \in T : n <= m
<1> DEFINE R == OpToRel(<, Nat)
<1>1. IsWellFoundedOn(R, Nat)
  BY NatLessThanWellFounded
<1>2. \A m, n \in Nat : m < n => <<m, n>> \in R
  BY DEF OpToRel
<1> HIDE DEF R
<1>3. PICK n \in T : \A m \in T : ~ (<<m, n>> \in R)
  BY <1>1, WFMin
<1>4. n \in Nat /\ \A m \in T : m \in Nat /\ ~(m < n)
  BY <1>2, <1>3
<1>5. QED
  BY <1>4

Fit(ssl) == {i \in 1..size : m_bActivated[pool[i]] /\ bSSL[pool[i]] = ssl}
Pay(i) == Cardinality(m_clientList[pool[i]])

\* A client is given to an active thread of its kind that has the fewest
\* clients, if there is one.
LEMMA ChosenFits ==
  ASSUME TypeInv, PoolInv, NEW ssl
  PROVE  /\ Fit(ssl) = {} => Chosen(ssl) = 0
         /\ Fit(ssl) # {} => /\ Chosen(ssl) \in Fit(ssl)
                            /\ \A j \in Fit(ssl) : Pay(Chosen(ssl)) <= Pay(j)
<1> DEFINE P(i) == \A j \in Fit(ssl) : Pay(i) < Pay(j) \/ (Pay(i) = Pay(j) /\ i <= j)
<1>1. Chosen(ssl) = IF Fit(ssl) = {} THEN 0 ELSE CHOOSE i \in Fit(ssl) : P(i)
  BY DEF Chosen, Fit, Pay
<1>2. \A i \in Fit(ssl) : i \in Nat /\ Pay(i) \in Nat
  <2> SUFFICES ASSUME NEW i \in Fit(ssl) PROVE i \in Nat /\ Pay(i) \in Nat
    OBVIOUS
  <2>1. i \in 1..size /\ size \in Nat
    BY DEF Fit, TypeInv, MainOK
  <2>2. pool[i] \in Threads
    BY <2>1, PoolMembers DEF Live
  <2>3. m_clientList[pool[i]] \subseteq Clients
    BY <2>2 DEF TypeInv, ThreadsOK
  <2>4. IsFiniteSet(Clients)
    BY FS_Interval, EngineAssumption DEF Clients
  <2>5. QED
    BY <2>1, <2>3, <2>4, FS_Subset, FS_CardinalityType DEF Pay
<1>3. ASSUME Fit(ssl) # {} PROVE \E i \in Fit(ssl) : P(i)
  <2> DEFINE V == {Pay(i) : i \in Fit(ssl)}
  <2>1. V \in SUBSET Nat /\ V # {}
    BY <1>2, <1>3
  <2>2. PICK v \in V : \A w \in V : v <= w
    BY <2>1, NatMin
  <2> DEFINE T == {i \in Fit(ssl) : Pay(i) = v}
  <2>3. T \in SUBSET Nat /\ T # {}
    BY <1>2, <2>2
  <2>4. PICK i \in T : \A j \in T : i <= j
    BY <2>3, NatMin
  <2>5. ASSUME NEW j \in Fit(ssl) PROVE Pay(i) < Pay(j) \/ (Pay(i) = Pay(j) /\ i <= j)
    <3>1. Pay(i) = v /\ v <= Pay(j) /\ Pay(i) \in Nat /\ Pay(j) \in Nat
      BY <1>2, <2>2, <2>4
    <3>2. Pay(j) = v => i <= j
      BY <2>4
    <3>3. QED
      BY <3>1, <3>2
  <2>6. QED
    BY <2>4, <2>5
<1>4. ASSUME Fit(ssl) # {} PROVE Chosen(ssl) \in Fit(ssl) /\ P(Chosen(ssl))
  BY <1>1, <1>3, <1>4
<1>5. \A i \in Fit(ssl) : P(i) => \A j \in Fit(ssl) : Pay(i) <= Pay(j)
  BY <1>2
<1>6. QED
  BY <1>1, <1>4, <1>5

\* What a choice puts into the hands of the main thread.
LEMMA ChooseType ==
  ASSUME TypeInv, PoolInv, NEW ssl, NEW c \in Clients, Choose(ssl, c)
  PROVE  main' \in MainStates /\ LoopInv'
<1>1. size \in 0..MaxThreads /\ MaxThreads \in Nat
  BY EngineAssumption DEF TypeInv, MainOK
<1>2. Chosen(ssl) \in 0..MaxThreads
  <2>1. Fit(ssl) \subseteq 1..size
    BY DEF Fit
  <2>2. QED
    BY <1>1, <2>1, ChosenFits
<1>3. main' = [op |-> "clean", i |-> 1, n |-> size, thread |-> Nothing, back |-> "idle",
               minIdx |-> Chosen(ssl), client |-> c]
  BY DEF Choose, Idle
<1>4. c \in 0..MaxClients /\ Nothing \in 0..MaxThreads /\ 1 \in 0..(MaxThreads + 1)
      /\ 1 \in 1..(size + 1)
  BY <1>1, EngineAssumption DEF Clients, Nothing
<1>5. main' \in MainStates
  BY <1>1, <1>2, <1>3, <1>4 DEF MainStates
<1>6. LoopInv'
  BY <1>3, <1>4 DEF LoopInv
<1>7. QED
  BY <1>5, <1>6

\* The main thread is idle or begins CanExit at the last place.
LEMMA IdleType ==
  ASSUME TypeInv
  PROVE  Idle \in MainStates /\ [Idle EXCEPT !.op = "exit", !.i = size] \in MainStates
<1>1. /\ size \in 0..MaxThreads /\ 0 \in 0..(MaxThreads + 1) /\ 0 \in 0..MaxThreads
      /\ 0 \in 0..MaxClients /\ size \in 0..(MaxThreads + 1)
  BY EngineAssumption DEF TypeInv, MainOK
<1>2. QED
  BY <1>1 DEF Idle, Nothing, MainStates

\* The steps of listeners.
LEMMA ListenersType ==
  ASSUME TypeInv, NEW l \in Listeners, Listener(l) \/ Accept(l)
  PROVE  TypeInv'
<1>1. UNCHANGED <<pool, size, threads, kicked, late, main, answer, closing>>
  BY DEF Listener, startListen, stopListen, evt_NewClientArrived, Accept
<1>2. LoopInv' /\ ThreadsOK' /\ MainOK'
  BY <1>1 DEF TypeInv, LoopInv, ThreadsOK, MainOK, threads
<1>3. ListenersOK /\ ListenClosed(l) \in MainEvents
  BY EventTypes DEF TypeInv
<1>4. ASSUME startListen(l) PROVE ListenersOK'
  <2>1. queue' = queue \/ queue' = Append(queue, ListenClosed(l))
    BY <1>4 DEF startListen
  <2>2. queue' \in Seq(MainEvents)
    BY <1>3, <2>1 DEF ListenersOK
  <2>3. QED
    BY <1>3, <1>4, <2>2 DEF startListen, ListenersOK
<1>5. ASSUME stopListen(l) PROVE ListenersOK'
  BY <1>3, <1>5 DEF stopListen, ListenersOK
<1>6. ASSUME evt_NewClientArrived(l) PROVE ListenersOK'
  <2>1. PICK c \in backlog[l] : /\ backlog' = [backlog EXCEPT ![l] = @ \ {c}]
                                /\ queue' = Append(queue, Arrived(l, c))
                                /\ UNCHANGED <<listener, stops, clients>>
    BY <1>6 DEF evt_NewClientArrived
  <2>2. Arrived(l, c) \in MainEvents
    BY <1>3, EventTypes DEF ListenersOK
  <2>3. QED
    BY <1>3, <2>1, <2>2 DEF ListenersOK
<1>7. ASSUME Accept(l) PROVE ListenersOK'
  <2>1. clients + 1 \in Clients /\ clients + 1 \in 0..MaxClients
    BY <1>3, <1>7, EngineAssumption DEF Accept, Clients, ListenersOK
  <2>2. QED
    BY <1>3, <1>7, <2>1 DEF Accept, ListenersOK
<1>8. ListenersOK'
  BY <1>4, <1>5, <1>6, <1>7 DEF Listener
<1>9. QED
  BY <1>2, <1>8 DEF TypeInv

\* The steps of a transfer thread.
LEMMA TransThreadType ==
  ASSUME TypeInv, NEW t \in Threads, TransThread(t) \/ \E c \in Clients : ClientClosed(t, c)
  PROVE  TypeInv'
<1>1. UNCHANGED <<pool, size, listening, queue, clients, main, answer, closing, bSSL>>
  BY DEF TransThread, incomingConnection, KickAllClients, DeactivateImmediately, ThreadEnds,
         ClientClosed
<1>2. LoopInv' /\ ListenersOK'
  BY <1>1 DEF TypeInv, LoopInv, ListenersOK, listening
<1>3. ThreadsOK /\ MainOK
  BY DEF TypeInv
<1>4. /\ inbox' = inbox \/ inbox' = [inbox EXCEPT ![t] = <<>>] \/ (inbox[t] # <<>> /\ Handled(t))
      /\ loop' = loop \/ loop' = [loop EXCEPT ![t] = "finished"]
      /\ m_bActivated' = m_bActivated \/ m_bActivated' = [m_bActivated EXCEPT ![t] = FALSE]
  BY DEF TransThread, incomingConnection, KickAllClients, DeactivateImmediately, ThreadEnds,
         ClientClosed, NextEvent
<1>5. inbox' \in [Threads -> Seq(InboxEvents)]
  <2>1. inbox[t] \in Seq(InboxEvents)
    BY <1>3 DEF ThreadsOK
  <2>2. ASSUME inbox[t] # <<>>, Handled(t) PROVE inbox' \in [Threads -> Seq(InboxEvents)]
    <3>1. Tail(inbox[t]) \in Seq(InboxEvents)
      BY <2>1, <2>2
    <3>2. QED
      BY <1>3, <2>2, <3>1 DEF ThreadsOK, Handled
  <2>3. ASSUME inbox' = inbox \/ inbox' = [inbox EXCEPT ![t] = <<>>]
        PROVE  inbox' \in [Threads -> Seq(InboxEvents)]
    <3>1. <<>> \in Seq(InboxEvents)
      OBVIOUS
    <3>2. QED
      BY <1>3, <2>3, <3>1 DEF ThreadsOK
  <2>4. QED
    BY <1>4, <2>2, <2>3
<1>6. /\ m_bActivated' \in [Threads -> BOOLEAN] /\ bSSL' \in [Threads -> BOOLEAN]
      /\ loop' \in [Threads -> {"none", "running", "quitting", "finished"}]
  BY <1>1, <1>3, <1>4 DEF ThreadsOK
<1>7. /\ m_clientList' \in [Threads -> SUBSET Clients]
      /\ kicked' \subseteq Clients /\ late' \subseteq Clients
  <2>1. CASE incomingConnection(t)
    <3> DEFINE e == Head(inbox[t])
    <3>1. /\ e.kind = "establish" /\ inbox[t] # <<>> /\ kicked' = kicked
          /\ \/ /\ m_clientList' = [m_clientList EXCEPT ![t] = @ \cup {e.client}]
                /\ late' = IF m_bActivated[t] THEN late ELSE late \cup {e.client}
             \/ UNCHANGED <<m_clientList, late>>
      BY <2>1 DEF incomingConnection, NextEvent
    <3>2. e \in InboxEvents
      BY <1>3, <3>1 DEF ThreadsOK
    <3>3. e.client \in Clients
      BY <3>1, <3>2 DEF InboxEvents
    <3> HIDE DEF e
    <3>4. QED
      BY <1>3, <3>1, <3>3 DEF ThreadsOK, MainOK
  <2>2. CASE KickAllClients(t) \/ DeactivateImmediately(t) \/ ThreadEnds(t)
    BY <1>3, <2>2 DEF KickAllClients, DeactivateImmediately, ThreadEnds, ThreadsOK, MainOK
  <2>3. ASSUME NEW c \in Clients, ClientClosed(t, c)
        PROVE  /\ m_clientList' \in [Threads -> SUBSET Clients]
               /\ kicked' \subseteq Clients /\ late' \subseteq Clients
    BY <1>3, <2>3 DEF ClientClosed, ThreadsOK, MainOK
  <2>4. QED
    BY <2>1, <2>2, <2>3 DEF TransThread
<1>8. ThreadsOK' /\ MainOK'
  BY <1>1, <1>3, <1>5, <1>6, <1>7 DEF ThreadsOK, MainOK
<1>9. QED
  BY <1>2, <1>8 DEF TypeInv

\* The steps of the main thread.
LEMMA MainThreadType ==
  ASSUME TypeInv, PoolInv, PoolInv', MainThread
  PROVE  TypeInv'
<1> USE DEF TypeInv
<1>1. CASE on_New_Arrived_Client
  <2>1. /\ queue # <<>> /\ Head(queue).kind = "arrived" /\ queue' = Tail(queue)
        /\ main' = main \/ \E ssl : Choose(ssl, Head(queue).client)
        /\ UNCHANGED <<pool, size, threads, kicked, late, listening, clients, answer, closing>>
    BY <1>1 DEF on_New_Arrived_Client
  <2>2. Head(queue) \in MainEvents /\ queue' \in Seq(MainEvents)
    BY <2>1 DEF ListenersOK
  <2>3. Head(queue).client \in Clients
    BY <2>1, <2>2 DEF MainEvents
  <2>4. main' \in MainStates /\ LoopInv'
    BY <2>1, <2>3, ChooseType DEF MainOK, LoopInv
  <2>5. QED
    BY <2>1, <2>2, <2>4 DEF ThreadsOK, ListenersOK, MainOK, threads, listening
<1>2. CASE on_ListenClosed
  <2>1. /\ queue # <<>> /\ queue' = Tail(queue)
        /\ listener' = [listener EXCEPT ![Head(queue).listener] = "over"]
        /\ stops' = stops \ {Head(queue).listener}
        /\ backlog' = [backlog EXCEPT ![Head(queue).listener] = {}]
        /\ UNCHANGED <<pool, size, threads, kicked, late, clients, main, answer, closing>>
    BY <1>2 DEF on_ListenClosed
  <2>2. queue' \in Seq(MainEvents)
    BY <2>1 DEF ListenersOK
  <2>3. ListenersOK'
    BY <2>1, <2>2 DEF ListenersOK
  <2>4. QED
    BY <2>1, <2>3 DEF ThreadsOK, MainOK, LoopInv, threads
<1>3. CASE AskCanExit
  <2>1. /\ main' = [Idle EXCEPT !.op = "exit", !.i = size]
        /\ UNCHANGED <<pool, size, threads, kicked, late, listening, queue, clients, answer, closing>>
    BY <1>3 DEF AskCanExit
  <2>2. main' \in MainStates /\ LoopInv'
    BY <2>1, IdleType DEF LoopInv, Idle
  <2>3. QED
    BY <2>1, <2>2 DEF ThreadsOK, ListenersOK, MainOK, threads, listening
<1>4. ASSUME NEW t \in Live, main.op \in {"clean", "exit"},
             main.op = "clean" => main.i \in 1..main.n, Quit(t)
      PROVE  TypeInv'
  <2>1. /\ loop' = [loop EXCEPT ![t] = "quitting"]
        /\ main' = [main EXCEPT !.op = "wait", !.thread = t, !.back = main.op]
        /\ UNCHANGED <<pool, size, bSSL, m_bActivated, inbox, m_clientList, kicked, late,
                       listening, queue, clients, answer, closing>>
    BY <1>4 DEF Quit
  <2>2. t \in Threads /\ t \in 0..MaxThreads
    BY <1>4, PoolMembers, EngineAssumption DEF Threads
  <2>3. main' = [op |-> "wait", i |-> main.i, n |-> main.n, thread |-> t, back |-> main.op,
                 minIdx |-> main.minIdx, client |-> main.client]
    BY <2>1 DEF MainOK, MainStates
  <2>4. main' \in MainStates
    BY <1>4, <2>2, <2>3 DEF MainOK, MainStates
  <2>5. LoopInv'
    BY <1>4, <2>3 DEF LoopInv
  <2>6. QED
    BY <2>1, <2>2, <2>4, <2>5 DEF ThreadsOK, ListenersOK, MainOK, listening
<1>5. CASE CleanNext
  <2>1. main.op = "clean" /\ main.i \in 1..main.n /\ main.n \in 0..MaxThreads
    BY <1>5 DEF CleanNext, LoopInv, MainOK, MainStates
  <2>2. CASE CanExit(pool[main.i]) /\ pool[main.i] \in Live
    BY <1>4, <1>5, <2>1, <2>2 DEF CleanNext
  <2>3. CASE ~(CanExit(pool[main.i]) /\ pool[main.i] \in Live)
    <3>1. /\ main' = [main EXCEPT !.i = @ + 1]
          /\ UNCHANGED <<pool, size, threads, kicked, late, listening, queue, clients, answer,
                         closing>>
      BY <1>5, <2>3 DEF CleanNext
    <3>2. main.i + 1 \in 0..(MaxThreads + 1) /\ main.i + 1 \in 1..(main.n + 1)
      BY <2>1, EngineAssumption
    <3>3. main' = [op |-> "clean", i |-> main.i + 1, n |-> main.n, thread |-> main.thread,
                   back |-> main.back, minIdx |-> main.minIdx, client |-> main.client]
      BY <2>1, <3>1 DEF MainOK, MainStates
    <3>4. main' \in MainStates
      BY <3>2, <3>3 DEF MainOK, MainStates
    <3>5. LoopInv'
      BY <2>1, <3>2, <3>3 DEF LoopInv
    <3>6. QED
      BY <3>1, <3>4, <3>5 DEF ThreadsOK, ListenersOK, MainOK, threads, listening
  <2>4. QED
    BY <2>2, <2>3
<1>6. CASE EmitEstablish
  <2> DEFINE t == pool[main.minIdx]
             e == Establish(main.client)
  <2>1. /\ main.op = "clean" /\ main' = Idle
        /\ \/ t \in Live /\ inbox' = [inbox EXCEPT ![t] = Append(@, e)]
           \/ inbox' = inbox
        /\ UNCHANGED <<pool, size, bSSL, m_bActivated, loop, m_clientList, kicked, late,
                       listening, queue, clients, answer, closing>>
    BY <1>6 DEF EmitEstablish
  <2>2. e \in InboxEvents
    BY <2>1, EventTypes DEF LoopInv
  <2> HIDE DEF t, e
  <2>3. t \in Live => t \in Threads
    BY PoolMembers
  <2>4. inbox' \in [Threads -> Seq(InboxEvents)]
    <3>1. \A r \in Threads : Append(inbox[r], e) \in Seq(InboxEvents)
      BY <2>2 DEF ThreadsOK
    <3>2. QED
      BY <2>1, <2>3, <3>1 DEF ThreadsOK
  <2>5. main' \in MainStates /\ LoopInv'
    BY <2>1, IdleType DEF LoopInv, Idle
  <2>6. QED
    BY <2>1, <2>4, <2>5 DEF ThreadsOK, ListenersOK, MainOK, listening
<1>7. CASE ExitNext
  <2>1. main.op = "exit" /\ main.i = size /\ size \in 0..MaxThreads
    BY <1>7 DEF ExitNext, PoolInv, MainInv
  <2>2. CASE Return(Alive = {}) \/ Return(FALSE)
    <3>1. /\ main' = Idle /\ answer' \in BOOLEAN
          /\ UNCHANGED <<pool, size, threads, kicked, late, listening, queue, clients, closing>>
      BY <2>2 DEF Return
    <3>2. main' \in MainStates /\ LoopInv'
      BY <3>1, IdleType DEF LoopInv, Idle
    <3>3. QED
      BY <3>1, <3>2 DEF ThreadsOK, ListenersOK, MainOK, threads, listening
  <2>3. CASE main.i # 0 /\ Quit(pool[main.i])
    <3>1. pool[main.i] \in Live
      BY <2>1, <2>3 DEF Live
    <3>2. QED
      BY <1>4, <2>1, <2>3, <3>1
  <2>4. QED
    BY <1>7, <2>2, <2>3 DEF ExitNext
<1>8. CASE Removed
  <2>1. /\ main.op = "wait"
        /\ main' = [main EXCEPT !.op = main.back, !.thread = Nothing,
                                !.i = IF main.back = "clean" THEN @ + 1 ELSE @ - 1]
        /\ UNCHANGED <<threads, kicked, late, listening, queue, clients, answer, closing>>
    BY <1>8 DEF Removed
  <2>2. main.back \in {"clean", "exit"} /\ main.thread \in Live
    BY <1>8, <2>1 DEF PoolInv, MainInv, PoolSound
  <2>3. size \in 1..MaxThreads /\ MaxThreads \in Nat
    BY <2>2, EngineAssumption DEF PoolInv, Live
  <2> DEFINE i == IF main.back = "clean" THEN main.i + 1 ELSE main.i - 1
  <2>4. /\ i \in 0..(MaxThreads + 1)
        /\ main.back = "clean" => i \in 1..(main.n + 1) /\ main.client \in Clients
    <3>1. CASE main.back = "clean"
      <4>1. main.i \in 1..main.n /\ main.n \in 0..MaxThreads /\ main.client \in Clients
        BY <2>1, <3>1 DEF LoopInv, MainOK, MainStates
      <4>2. QED
        BY <2>3, <3>1, <4>1
    <3>2. CASE main.back = "exit"
      <4>1. main.i = size
        BY <2>1, <3>2 DEF PoolInv, MainInv
      <4>2. QED
        BY <2>3, <3>2, <4>1
    <3>3. QED
      BY <2>2, <3>1, <3>2
  <2>5. main' = [op |-> main.back, i |-> i, n |-> main.n, thread |-> Nothing,
                 back |-> main.back, minIdx |-> main.minIdx, client |-> main.client]
    BY <2>1 DEF MainOK, MainStates
  <2> HIDE DEF i
  <2>6. Nothing \in 0..MaxThreads
    BY <2>3 DEF Nothing
  <2>7. main' \in MainStates
    BY <2>2, <2>4, <2>5, <2>6 DEF MainOK, MainStates
  <2>8. LoopInv'
    BY <2>2, <2>4, <2>5 DEF LoopInv
  <2>9. pool' \in [Threads -> 0..MaxThreads] /\ size' \in 0..MaxThreads
    BY DEF PoolInv
  <2>10. QED
    BY <2>1, <2>7, <2>8, <2>9 DEF ThreadsOK, ListenersOK, MainOK, threads, listening
<1>9. QED
  BY <1>1, <1>2, <1>3, <1>5, <1>6, <1>7, <1>8 DEF MainThread

\* The calls of the main frame.
LEMMA CallsType ==
  ASSUME TypeInv, PoolInv, PoolInv', Calls
  PROVE  TypeInv'
<1> USE DEF TypeInv
<1>1. ASSUME NEW l \in Listeners, AddListeningAddress(l) PROVE TypeInv'
  BY <1>1 DEF AddListeningAddress, ThreadsOK, ListenersOK, MainOK, LoopInv, threads
<1>2. CASE RemoveAllAddresses
  BY <1>2 DEF RemoveAllAddresses, Alive, ThreadsOK, ListenersOK, MainOK, LoopInv, threads
<1>3. CASE KickAll \/ Shutdown
  <2>1. /\ \E es \in Seq(InboxEvents) : Post(Live, es)
        /\ stops' \in {stops, stops \cup Alive} /\ answer' \in BOOLEAN /\ closing' \in BOOLEAN
        /\ UNCHANGED <<pool, size, bSSL, m_bActivated, loop, m_clientList, kicked, late,
                       listener, backlog, queue, clients, main>>
    <3>1. <<Event("kickAll")>> \in Seq(InboxEvents)
      BY EventTypes
    <3>2. <<Event("kickAll"), Event("deactivate")>> \in Seq(InboxEvents)
      BY EventTypes
    <3>3. CASE KickAll
      BY <3>1, <3>3 DEF KickAll, MainOK, listening
    <3>4. CASE Shutdown
      BY <3>2, <3>4 DEF Shutdown, MainOK
    <3>5. QED
      BY <1>3, <3>3, <3>4
  <2>2. inbox' \in [Threads -> Seq(InboxEvents)]
    BY <2>1, PostType DEF ThreadsOK
  <2>3. stops' \subseteq Listeners
    BY <2>1 DEF ListenersOK, Alive
  <2>4. QED
    BY <2>1, <2>2, <2>3 DEF ThreadsOK, ListenersOK, MainOK, LoopInv
<1>4. ASSUME NEW ssl \in Kinds, AddClientTransThreads(ssl) PROVE TypeInv'
  <2> DEFINE t == Cardinality({r \in Threads : loop[r] # "none"}) + 1
  <2>1. /\ t \in Threads /\ ssl \in BOOLEAN
        /\ bSSL' = [bSSL EXCEPT ![t] = ssl]
        /\ m_bActivated' = [m_bActivated EXCEPT ![t] = TRUE]
        /\ loop' = [loop EXCEPT ![t] = "running"]
        /\ UNCHANGED <<inbox, m_clientList, kicked, late, listening, queue, clients, main,
                       answer, closing>>
    BY <1>4, EngineAssumption DEF AddClientTransThreads
  <2> HIDE DEF t
  <2>2. ThreadsOK'
    BY <2>1 DEF ThreadsOK
  <2>3. pool' \in [Threads -> 0..MaxThreads] /\ size' \in 0..MaxThreads
    BY DEF PoolInv
  <2>4. QED
    BY <2>1, <2>2, <2>3 DEF ListenersOK, MainOK, LoopInv, listening
<1>5. ASSUME NEW ssl \in Kinds, connectTo(ssl) PROVE TypeInv'
  <2>1. /\ clients' = clients + 1 /\ clients < MaxClients /\ Choose(ssl, clients')
        /\ UNCHANGED <<pool, size, threads, kicked, late, listening, queue, answer, closing>>
    BY <1>5 DEF connectTo
  <2>2. clients' \in Clients /\ clients' \in 0..MaxClients
    BY <2>1, EngineAssumption DEF ListenersOK, Clients
  <2>3. main' \in MainStates /\ LoopInv'
    BY <2>1, <2>2, ChooseType
  <2>4. QED
    BY <2>1, <2>2, <2>3 DEF ThreadsOK, ListenersOK, MainOK, threads, listening
<1>6. ASSUME NEW ssl \in Kinds, NEW n \in 1..size, RemoveClientTransThreads(n, ssl)
      PROVE  TypeInv'
  <2>1. /\ m_bActivated' \in [Threads -> BOOLEAN]
        /\ main' = [Idle EXCEPT !.op = "exit", !.i = size]
        /\ UNCHANGED <<pool, size, bSSL, loop, inbox, m_clientList, kicked, late, listening,
                       queue, clients, answer, closing>>
    BY <1>6 DEF RemoveClientTransThreads, ThreadsOK
  <2>2. main' \in MainStates /\ LoopInv'
    BY <2>1, IdleType DEF LoopInv, Idle
  <2>3. QED
    BY <2>1, <2>2 DEF ThreadsOK, ListenersOK, MainOK, listening
<1>7. QED
  BY <1>1, <1>2, <1>3, <1>4, <1>5, <1>6 DEF Calls

LEMMA InitType == Init => TypeInv
<1> SUFFICES ASSUME Init PROVE TypeInv
  OBVIOUS
<1>1. /\ 0 \in 0..MaxThreads /\ 0 \in 0..MaxClients /\ 0 \in 0..(MaxThreads + 1)
  BY EngineAssumption
<1>2. main \in MainStates /\ LoopInv
  BY <1>1 DEF Init, Idle, Nothing, MainStates, LoopInv
<1>3. ThreadsOK /\ ListenersOK
  BY <1>1 DEF Init, ThreadsOK, ListenersOK
<1>4. QED
  BY <1>1, <1>2, <1>3 DEF Init, TypeInv, MainOK, Nothing

LEMMA StepType ==
  ASSUME TypeInv, PoolInv, PoolInv', [Next]_vars
  PROVE  TypeInv'
<1>1. CASE UNCHANGED vars
  BY <1>1 DEF vars, threads, listening, TypeInv, ThreadsOK, ListenersOK, MainOK, LoopInv
<1>2. CASE Next
  BY <1>2, MainThreadType, CallsType, ListenersType, TransThreadType DEF Next
<1>3. QED
  BY <1>1, <1>2

THEOREM TypeInvCorrect == Spec => []TypeInv
<1>1. QED
  BY InitType, StepType, PoolInvCorrect, PTL DEF Spec

\* Every variable keeps its type for any number of threads, listeners and clients;
\* in particular the loops that remove threads stay inside the vector's memory, also
\* the one that goes on to the size it had, and only clients are given to threads.
THEOREM TypeCorrect == Spec => []TypeOK
<1>1. QED
  BY TypeInvCorrect, TypeInvType, PTL

-----------------------------------------------------------------------------
(* A client is in one place at a time, from the listener that accepts him  *)
(* to the thread that serves him.                                          *)

Reported(i, c) == queue[i].kind = "arrived" /\ queue[i].client = c
Owns(t, c) == c \in m_clientList[t] \/ \E i \in 1..Len(inbox[t]) : inbox[t][i] = Establish(c)

Once(c) ==
  /\ c > clients =>
       /\ \A l \in Listeners : c \notin backlog[l]
       /\ \A i \in 1..Len(queue) : ~Reported(i, c)
       /\ main.client # c
       /\ \A t \in Threads : ~Owns(t, c)
  /\ \A l \in Listeners : c \in backlog[l] =>
       /\ \A m \in Listeners : c \in backlog[m] => m = l
       /\ \A i \in 1..Len(queue) : ~Reported(i, c)
       /\ main.client # c
       /\ \A t \in Threads : ~Owns(t, c)
  /\ \A i \in 1..Len(queue) : Reported(i, c) =>
       /\ \A j \in 1..Len(queue) : Reported(j, c) => j = i
       /\ main.client # c
       /\ \A t \in Threads : ~Owns(t, c)
  /\ main.client = c => \A t \in Threads : ~Owns(t, c)
  /\ \A t, r \in Threads : Owns(t, c) /\ Owns(r, c) => t = r

OnceInv == \A c \in Clients : Once(c)

\* A client who gets to no new place, though the queue may have moved up.
LEMMA StaysOnce ==
  ASSUME NEW c \in Clients, Once(c), NEW d \in Nat,
         clients \in Nat, clients' \in Nat, clients' >= clients,
         \A l \in Listeners : c \in backlog'[l] => c \in backlog[l],
         \A i \in 1..Len(queue') : Reported(i, c)' =>
           i \in Nat /\ i + d \in 1..Len(queue) /\ Reported(i + d, c),
         main'.client = c => main.client = c,
         \A t \in Threads : Owns(t, c)' => Owns(t, c)
  PROVE  Once(c)'
<1>1. c \in Nat /\ (c > clients' => c > clients)
  BY EngineAssumption DEF Clients
<1>2. \A i \in 1..Len(queue) : Reported(i, c) =>
        \A j \in 1..Len(queue) : Reported(j, c) => j = i
  BY DEF Once
<1>3. \A i, j \in 1..Len(queue') : Reported(i, c)' /\ Reported(j, c)' => j = i
  <2> SUFFICES ASSUME NEW i \in 1..Len(queue'), NEW j \in 1..Len(queue'),
                      Reported(i, c)', Reported(j, c)'
               PROVE  j = i
    OBVIOUS
  <2>1. j + d = i + d /\ i \in Nat /\ j \in Nat
    BY <1>2
  <2>2. QED
    BY <2>1
<1>4. QED
  BY <1>1, <1>3 DEF Once

\* An event is queued for a thread.
LEMMA OwnsPosted ==
  ASSUME TypeInv, NEW t \in Threads, NEW c, NEW e,
         inbox'[t] = Append(inbox[t], e), m_clientList'[t] = m_clientList[t]
  PROVE  Owns(t, c)' <=> Owns(t, c) \/ e = Establish(c)
<1>1. inbox[t] \in Seq(InboxEvents)
  BY DEF TypeInv, ThreadsOK
<1>2. /\ Len(inbox'[t]) = Len(inbox[t]) + 1 /\ Len(inbox[t]) \in Nat
      /\ inbox'[t][Len(inbox[t]) + 1] = e
      /\ \A i \in 1..Len(inbox[t]) : inbox'[t][i] = inbox[t][i]
  BY <1>1
<1>3. \A i \in 1..(Len(inbox[t]) + 1) : i \in 1..Len(inbox[t]) \/ i = Len(inbox[t]) + 1
  BY <1>2
<1>4. QED
  BY <1>2, <1>3 DEF Owns, Establish

\* One has been handled, a client has left, or nothing has happened.
LEMMA OwnsFacts ==
  ASSUME TypeInv, NEW t \in Threads, NEW c
  PROVE  /\ inbox'[t] = inbox[t] /\ m_clientList'[t] \subseteq m_clientList[t] =>
              (Owns(t, c)' => Owns(t, c))
         /\ inbox[t] # <<>> /\ inbox'[t] = Tail(inbox[t])
              /\ (c \in m_clientList'[t] => c \in m_clientList[t] \/ Head(inbox[t]) = Establish(c))
              => (Owns(t, c)' => Owns(t, c))
<1>1. inbox[t] \in Seq(InboxEvents)
  BY DEF TypeInv, ThreadsOK
<1>3. ASSUME inbox'[t] = inbox[t], m_clientList'[t] \subseteq m_clientList[t], Owns(t, c)'
      PROVE  Owns(t, c)
  BY <1>3 DEF Owns, Establish
<1>4. ASSUME inbox[t] # <<>>, inbox'[t] = Tail(inbox[t]),
             c \in m_clientList'[t] => c \in m_clientList[t] \/ Head(inbox[t]) = Establish(c),
             Owns(t, c)'
      PROVE  Owns(t, c)
  <2>1. /\ Len(inbox'[t]) = Len(inbox[t]) - 1 /\ Len(inbox[t]) \in Nat \ {0}
        /\ \A i \in 1..Len(inbox'[t]) : inbox'[t][i] = inbox[t][i + 1]
        /\ Head(inbox[t]) = inbox[t][1]
    BY <1>1, <1>4
  <2>2. 1 \in 1..Len(inbox[t]) /\ \A i \in 1..Len(inbox'[t]) : i + 1 \in 1..Len(inbox[t])
    BY <2>1
  <2>3. CASE c \in m_clientList'[t]
    BY <1>4, <2>1, <2>2, <2>3 DEF Owns
  <2>4. CASE \E i \in 1..Len(inbox'[t]) : inbox'[t][i] = Establish(c)
    BY <2>1, <2>2, <2>4 DEF Owns
  <2>5. QED
    BY <1>4, <2>3, <2>4 DEF Owns, Establish
<1>5. QED
  BY <1>3, <1>4

\* The same of the queue of the main thread.
LEMMA QueueFacts ==
  ASSUME TypeInv, NEW c \in Clients
  PROVE  /\ queue' = queue => \A i \in 1..Len(queue') : Reported(i, c)' =>
              i \in Nat /\ i + 0 \in 1..Len(queue) /\ Reported(i + 0, c)
         /\ \A l \in Listeners : queue' = Append(queue, ListenClosed(l)) =>
              \A i \in 1..Len(queue') : Reported(i, c)' =>
                i \in Nat /\ i + 0 \in 1..Len(queue) /\ Reported(i + 0, c)
         /\ \A l \in Listeners, d \in Clients : queue' = Append(queue, Arrived(l, d)) =>
              \A i \in 1..Len(queue') :
                /\ Reported(i, c)' /\ d # c =>
                     i \in Nat /\ i + 0 \in 1..Len(queue) /\ Reported(i + 0, c)
                /\ Reported(i, d)' => i = Len(queue) + 1 \/ (i \in 1..Len(queue) /\ Reported(i, d))
         /\ queue # <<>> /\ queue' = Tail(queue) =>
              \A i \in 1..Len(queue') : Reported(i, c)' =>
                i \in Nat /\ i + 1 \in 1..Len(queue) /\ Reported(i + 1, c)
<1>1. queue \in Seq(MainEvents) /\ Len(queue) \in Nat
  BY DEF TypeInv, ListenersOK
<1>2. CASE queue' = queue
  BY <1>1, <1>2 DEF Reported
<1>3. ASSUME NEW e, queue' = Append(queue, e)
      PROVE  \A i \in 1..Len(queue') :
               \/ i \in Nat /\ i + 0 \in 1..Len(queue) /\ queue'[i] = queue[i + 0] /\ i + 0 = i
               \/ i = Len(queue) + 1 /\ queue'[i] = e
  BY <1>1, <1>3
<1>4. ASSUME NEW l \in Listeners, queue' = Append(queue, ListenClosed(l)),
             NEW i \in 1..Len(queue'), Reported(i, c)'
      PROVE  i \in Nat /\ i + 0 \in 1..Len(queue) /\ Reported(i + 0, c)
  BY <1>3, <1>4 DEF Reported, ListenClosed
<1>5. ASSUME NEW l \in Listeners, NEW d \in Clients, queue' = Append(queue, Arrived(l, d)),
             NEW i \in 1..Len(queue')
      PROVE  /\ Reported(i, c)' /\ d # c =>
                  i \in Nat /\ i + 0 \in 1..Len(queue) /\ Reported(i + 0, c)
             /\ Reported(i, d)' => i = Len(queue) + 1 \/ (i \in 1..Len(queue) /\ Reported(i, d))
  BY <1>3, <1>5 DEF Reported, Arrived
<1>6. ASSUME queue # <<>>, queue' = Tail(queue), NEW i \in 1..Len(queue'), Reported(i, c)'
      PROVE  i \in Nat /\ i + 1 \in 1..Len(queue) /\ Reported(i + 1, c)
  <2>1. /\ Len(queue') = Len(queue) - 1 /\ Len(queue) \in Nat \ {0}
        /\ \A k \in 1..Len(queue') : queue'[k] = queue[k + 1]
    BY <1>1, <1>6
  <2>2. QED
    BY <1>6, <2>1 DEF Reported
<1>7. QED
  BY <1>2, <1>4, <1>5, <1>6

\* A client who gets to no new place while at most the first of the queue leaves it.
LEMMA StaysWhereHeIs ==
  ASSUME TypeInv, NEW c \in Clients, Once(c), UNCHANGED clients,
         queue' = queue \/ (queue # <<>> /\ queue' = Tail(queue)),
         \A l \in Listeners : c \in backlog'[l] => c \in backlog[l],
         main'.client = c => main.client = c,
         \A t \in Threads : Owns(t, c)' => Owns(t, c)
  PROVE  Once(c)'
<1>1. clients \in Nat
  BY DEF TypeInv, ListenersOK
<1>2. CASE queue' = queue
  <2>1. \A i \in 1..Len(queue') : Reported(i, c)' =>
          i \in Nat /\ i + 0 \in 1..Len(queue) /\ Reported(i + 0, c)
    BY <1>2, QueueFacts
  <2>2. QED
    BY <1>1, <2>1, StaysOnce
<1>3. CASE queue # <<>> /\ queue' = Tail(queue)
  <2>1. \A i \in 1..Len(queue') : Reported(i, c)' =>
          i \in Nat /\ i + 1 \in 1..Len(queue) /\ Reported(i + 1, c)
    BY <1>3, QueueFacts
  <2>2. QED
    BY <1>1, <2>1, StaysOnce
<1>4. QED
  BY <1>2, <1>3

\* The steps of listeners: a client enters, or is reported.
LEMMA ListenersOnce ==
  ASSUME TypeInv, TypeInv', OnceInv, NEW l \in Listeners, Listener(l) \/ Accept(l)
  PROVE  OnceInv'
<1> SUFFICES ASSUME NEW c \in Clients PROVE Once(c)'
  BY DEF OnceInv
<1> USE DEF OnceInv
<1>1. /\ UNCHANGED <<inbox, m_clientList, main>>
      /\ \A t \in Threads : Owns(t, c)' <=> Owns(t, c)
  BY DEF Listener, startListen, stopListen, evt_NewClientArrived, Accept, threads, Owns
<1>2. clients \in Nat /\ clients' \in Nat
  BY DEF TypeInv, ListenersOK
<1>3. CASE startListen(l) \/ stopListen(l)
  <2>1. /\ queue' = queue \/ queue' = Append(queue, ListenClosed(l))
        /\ UNCHANGED <<backlog, clients>>
    BY <1>3 DEF startListen, stopListen
  <2>2. QED
    BY <1>1, <1>2, <2>1, QueueFacts, StaysOnce
<1>4. CASE Accept(l)
  <2>1. /\ clients' = clients + 1 /\ backlog' = [backlog EXCEPT ![l] = @ \cup {clients'}]
        /\ UNCHANGED queue
    BY <1>4 DEF Accept
  <2>2. backlog \in [Listeners -> SUBSET Clients]
    BY DEF TypeInv, ListenersOK
  <2>3. CASE c # clients'
    <3>1. \A m \in Listeners : c \in backlog'[m] => c \in backlog[m]
      BY <2>1, <2>2, <2>3
    <3>2. QED
      BY <1>1, <1>2, <2>1, <3>1, QueueFacts, StaysOnce
  <2>4. CASE c = clients'
    <3>1. c > clients /\ ~(c > clients')
      BY <1>2, <2>1, <2>4
    <3>2. Once(c)
      OBVIOUS
    <3>3. \A m \in Listeners : c \in backlog'[m] => m = l
      BY <2>1, <2>2, <3>1, <3>2 DEF Once
    <3>4. \A i \in 1..Len(queue') : ~Reported(i, c)'
      BY <2>1, <3>1, <3>2 DEF Once, Reported
    <3>5. main'.client # c /\ \A t \in Threads : ~Owns(t, c)'
      BY <1>1, <3>1, <3>2 DEF Once
    <3>6. QED
      BY <3>1, <3>3, <3>4, <3>5 DEF Once
  <2>5. QED
    BY <2>3, <2>4
<1>5. CASE evt_NewClientArrived(l)
  <2>1. PICK d \in backlog[l] : /\ backlog' = [backlog EXCEPT ![l] = @ \ {d}]
                                /\ queue' = Append(queue, Arrived(l, d))
                                /\ UNCHANGED clients
    BY <1>5 DEF evt_NewClientArrived
  <2>2. backlog \in [Listeners -> SUBSET Clients] /\ d \in Clients
    BY DEF TypeInv, ListenersOK
  <2>3. \A m \in Listeners : c \in backlog'[m] => c \in backlog[m]
    BY <2>1, <2>2
  <2>4. CASE c # d
    BY <1>1, <1>2, <2>1, <2>2, <2>3, <2>4, QueueFacts, StaysOnce
  <2>5. CASE c = d
    <3>1. Once(c) /\ c \in backlog[l]
      BY <2>1, <2>5
    <3>2. \A i \in 1..Len(queue) : ~Reported(i, c)
      BY <3>1 DEF Once
    <3>3. \A i \in 1..Len(queue') : Reported(i, c)' => i = Len(queue) + 1
      BY <2>1, <2>2, <2>5, <3>2, QueueFacts
    <3>4. \A m \in Listeners : c \notin backlog'[m]
      BY <2>1, <2>2, <2>5, <3>1 DEF Once
    <3>5. ~(c > clients')
      BY <2>1, <3>1 DEF Once
    <3>6. main'.client # c /\ \A t \in Threads : ~Owns(t, c)'
      BY <1>1, <3>1 DEF Once
    <3>7. QED
      BY <3>3, <3>4, <3>5, <3>6 DEF Once
  <2>6. QED
    BY <2>4, <2>5
<1>6. QED
  BY <1>3, <1>4, <1>5 DEF Listener

\* The steps of a transfer thread: what was queued for it is in its list.
LEMMA TransThreadOnce ==
  ASSUME TypeInv, TypeInv', OnceInv, NEW t \in Threads,
         TransThread(t) \/ \E c \in Clients : ClientClosed(t, c)
  PROVE  OnceInv'
<1> SUFFICES ASSUME NEW c \in Clients PROVE Once(c)'
  BY DEF OnceInv
<1>1. UNCHANGED <<backlog, queue, clients, main>> /\ clients \in Nat
  BY DEF TransThread, incomingConnection, KickAllClients, DeactivateImmediately, ThreadEnds,
         ClientClosed, listening, TypeInv, ListenersOK
<1>2. /\ inbox \in [Threads -> Seq(InboxEvents)]
      /\ m_clientList \in [Threads -> SUBSET Clients]
  BY DEF TypeInv, ThreadsOK
<1>3. ASSUME NEW r \in Threads, r # t PROVE Owns(r, c)' => Owns(r, c)
  <2>1. inbox'[r] = inbox[r] /\ m_clientList'[r] = m_clientList[r]
    BY <1>2, <1>3 DEF TransThread, incomingConnection, KickAllClients, DeactivateImmediately,
       ThreadEnds, ClientClosed, Handled
  <2>2. QED
    BY <2>1, OwnsFacts
<1>4. Owns(t, c)' => Owns(t, c)
  <2>1. CASE incomingConnection(t)
    <3>1. /\ inbox[t] # <<>> /\ Head(inbox[t]).kind = "establish"
          /\ inbox' = [inbox EXCEPT ![t] = Tail(@)]
          /\ \/ m_clientList' = [m_clientList EXCEPT ![t] = @ \cup {Head(inbox[t]).client}]
             \/ m_clientList' = m_clientList
      BY <2>1 DEF incomingConnection, NextEvent, Handled
    <3>2. Head(inbox[t]) \in InboxEvents
      BY <1>2, <3>1
    <3>3. Head(inbox[t]) = Establish(Head(inbox[t]).client)
      BY <3>1, <3>2 DEF InboxEvents, Establish
    <3>4. inbox'[t] = Tail(inbox[t])
      BY <1>2, <3>1
    <3>5. c \in m_clientList'[t] => c \in m_clientList[t] \/ Head(inbox[t]) = Establish(c)
      BY <1>2, <3>1, <3>3
    <3>6. QED
      BY <3>1, <3>4, <3>5, OwnsFacts
  <2>2. CASE KickAllClients(t) \/ DeactivateImmediately(t)
    <3>1. inbox[t] # <<>> /\ inbox'[t] = Tail(inbox[t]) /\ m_clientList' = m_clientList
      BY <1>2, <2>2 DEF KickAllClients, DeactivateImmediately, NextEvent, Handled
    <3>2. QED
      BY <3>1, OwnsFacts
  <2>3. CASE ThreadEnds(t)
    <3>1. inbox'[t] = <<>> /\ m_clientList' = m_clientList
      BY <1>2, <2>3 DEF ThreadEnds
    <3>2. QED
      BY <3>1 DEF Owns
  <2>4. ASSUME NEW d \in Clients, ClientClosed(t, d) PROVE Owns(t, c)' => Owns(t, c)
    <3>1. inbox'[t] = inbox[t] /\ m_clientList'[t] \subseteq m_clientList[t]
      BY <1>2, <2>4 DEF ClientClosed
    <3>2. QED
      BY <3>1, OwnsFacts
  <2>5. QED
    BY <2>1, <2>2, <2>3, <2>4 DEF TransThread
<1>5. \A r \in Threads : Owns(r, c)' => Owns(r, c)
  BY <1>3, <1>4
<1>6. QED
  BY <1>1, <1>5, StaysWhereHeIs DEF OnceInv

\* A client gets into the hands of the main thread, and from there to a thread.
LEMMA MainOnce ==
  ASSUME TypeInv, TypeInv', PoolInv, OnceInv, MainThread
  PROVE  OnceInv'
<1> SUFFICES ASSUME NEW c \in Clients PROVE Once(c)'
  BY DEF OnceInv
<1>1. /\ inbox \in [Threads -> Seq(InboxEvents)]
      /\ m_clientList \in [Threads -> SUBSET Clients]
      /\ backlog \in [Listeners -> SUBSET Clients]
      /\ queue \in Seq(MainEvents) /\ clients \in Nat
      /\ c # Nothing
  BY EngineAssumption DEF TypeInv, ThreadsOK, ListenersOK, Clients, Nothing
<1>2. Once(c)
  BY DEF OnceInv
<1>3. UNCHANGED <<inbox, m_clientList>> => \A t \in Threads : Owns(t, c)' <=> Owns(t, c)
  BY DEF Owns
<1>4. CASE on_New_Arrived_Client
  <2> DEFINE d == Head(queue).client
  <2>1. /\ queue # <<>> /\ Head(queue).kind = "arrived" /\ queue' = Tail(queue)
        /\ main' = main \/ main'.client = d
        /\ UNCHANGED <<inbox, m_clientList, backlog, clients>>
    BY <1>4 DEF on_New_Arrived_Client, Choose, Idle, threads, listening
  <2>2. CASE main'.client # d \/ c # d
    <3>1. main'.client = c => main.client = c
      BY <2>1, <2>2
    <3>2. QED
      BY <1>1, <1>2, <1>3, <2>1, <3>1, StaysWhereHeIs
  <2>3. CASE main'.client = d /\ c = d
    <3>1. 1 \in 1..Len(queue) /\ Reported(1, c)
      BY <1>1, <2>1, <2>3 DEF Reported
    <3>2. \A i \in 1..Len(queue') : ~Reported(i, c)'
      <4>1. \A i \in 1..Len(queue') : Reported(i, c)' =>
              i \in Nat /\ i + 1 \in 1..Len(queue) /\ Reported(i + 1, c)
        BY <2>1, QueueFacts
      <4>2. \A j \in 1..Len(queue) : Reported(j, c) => j = 1
        BY <1>2, <3>1 DEF Once
      <4>3. \A i \in 1..Len(queue') : i # 0
        OBVIOUS
      <4>4. QED
        BY <4>1, <4>2, <4>3
    <3>3. /\ ~(c > clients) /\ \A t \in Threads : ~Owns(t, c)
          /\ \A l \in Listeners : c \notin backlog[l]
      BY <1>2, <3>1 DEF Once
    <3>4. QED
      BY <1>3, <2>1, <3>2, <3>3 DEF Once
  <2>4. QED
    BY <2>2, <2>3
<1>5. CASE EmitEstablish
  <2> DEFINE d == main.client
  <2>1. /\ main'.client = Nothing
        /\ UNCHANGED <<m_clientList, queue, backlog, clients>>
        /\ \/ \E t \in Live : inbox' = [inbox EXCEPT ![t] = Append(@, Establish(d))]
           \/ inbox' = inbox
    BY <1>5 DEF EmitEstablish, Idle, listening
  <2>2. CASE inbox' = inbox
    BY <1>1, <1>2, <1>3, <2>1, <2>2, StaysWhereHeIs
  <2>3. ASSUME NEW t \in Live, inbox' = [inbox EXCEPT ![t] = Append(@, Establish(d))]
        PROVE  Once(c)'
    <3>1. t \in Threads
      BY <2>3, PoolMembers
    <3>2. \A r \in Threads : r # t => (Owns(r, c)' <=> Owns(r, c))
      BY <1>1, <2>1, <2>3 DEF Owns
    <3>3. inbox'[t] = Append(inbox[t], Establish(d)) /\ m_clientList'[t] = m_clientList[t]
      BY <1>1, <2>1, <2>3, <3>1
    <3>4. Owns(t, c)' => Owns(t, c) \/ Establish(d) = Establish(c)
      BY <3>1, <3>3, OwnsPosted
    <3>5. CASE c # d
      <4>1. \A r \in Threads : Owns(r, c)' => Owns(r, c)
        <5>1. Establish(d) # Establish(c)
          BY <3>5 DEF Establish
        <5>2. Owns(t, c)' => Owns(t, c)
          BY <3>4, <5>1, Zenon
        <5>3. QED
          BY <3>2, <5>2, Zenon
      <4>2. QED
        BY <1>1, <1>2, <2>1, <4>1, StaysWhereHeIs
    <3>6. CASE c = d
      <4>1. \A r \in Threads : ~Owns(r, c)
        BY <1>2, <3>6 DEF Once
      <4>2. \A r \in Threads : Owns(r, c)' => r = t
        BY <3>2, <4>1
      <4>3. /\ ~(c > clients) /\ \A l \in Listeners : c \notin backlog[l]
            /\ \A i \in 1..Len(queue) : ~Reported(i, c)
        BY <1>2, <3>6 DEF Once
      <4>4. \A i \in 1..Len(queue') : ~Reported(i, c)'
        BY <2>1, <4>3 DEF Reported
      <4>5. QED
        BY <1>1, <2>1, <4>2, <4>3, <4>4 DEF Once
    <3>7. QED
      BY <3>5, <3>6
  <2>4. QED
    BY <2>1, <2>2, <2>3
<1>6. CASE on_ListenClosed
  <2>1. /\ queue # <<>> /\ queue' = Tail(queue)
        /\ backlog' = [backlog EXCEPT ![Head(queue).listener] = {}]
        /\ UNCHANGED <<inbox, m_clientList, clients, main>>
    BY <1>6 DEF on_ListenClosed, threads
  <2>2. \A l \in Listeners : c \in backlog'[l] => c \in backlog[l]
    BY <1>1, <2>1
  <2>3. QED
    BY <1>1, <1>2, <1>3, <2>1, <2>2, StaysWhereHeIs
<1>7. CASE AskCanExit \/ CleanNext \/ ExitNext \/ Removed
  <2>1. /\ UNCHANGED <<inbox, m_clientList, queue, backlog, clients>>
        /\ main'.client \in {main.client, Nothing}
    <3>1. main = [op |-> main.op, i |-> main.i, n |-> main.n, thread |-> main.thread,
                  back |-> main.back, minIdx |-> main.minIdx, client |-> main.client]
      BY DEF PoolInv, MainInv
    <3>2. CASE AskCanExit
      BY <3>2 DEF AskCanExit, Idle, threads, listening
    <3>3. ASSUME NEW t, Quit(t)
          PROVE  /\ UNCHANGED <<inbox, m_clientList, queue, backlog, clients>>
                 /\ main'.client = main.client
      BY <3>1, <3>3 DEF Quit, listening
    <3>6. CASE CleanNext
      BY <3>1, <3>3, <3>6 DEF CleanNext, threads, listening
    <3>7. CASE ExitNext
      BY <3>3, <3>7 DEF ExitNext, Return, Idle, threads, listening
    <3>4. CASE Removed
      BY <3>1, <3>4 DEF Removed, threads, listening
    <3>5. QED
      BY <1>7, <3>2, <3>4, <3>6, <3>7
  <2>2. main'.client = c => main.client = c
    BY <1>1, <2>1
  <2>3. QED
    BY <1>1, <1>2, <1>3, <2>1, <2>2, StaysWhereHeIs
<1>8. QED
  BY <1>4, <1>5, <1>6, <1>7 DEF MainThread

\* The calls: a client that is dialled is a new one.
LEMMA CallsOnce ==
  ASSUME TypeInv, TypeInv', OnceInv, Calls
  PROVE  OnceInv'
<1> SUFFICES ASSUME NEW c \in Clients PROVE Once(c)'
  BY DEF OnceInv
<1>1. /\ inbox \in [Threads -> Seq(InboxEvents)]
      /\ clients \in Nat /\ clients' \in Nat /\ c # Nothing
  BY EngineAssumption DEF TypeInv, ThreadsOK, ListenersOK, Clients, Nothing
<1>2. Once(c)
  BY DEF OnceInv
<1>3. UNCHANGED <<inbox, m_clientList>> => \A t \in Threads : Owns(t, c)' <=> Owns(t, c)
  BY DEF Owns
<1>4. ASSUME NEW l \in Listeners, AddListeningAddress(l) PROVE Once(c)'
  BY <1>1, <1>2, <1>3, <1>4, StaysWhereHeIs DEF AddListeningAddress, threads
<1>5. CASE RemoveAllAddresses
  BY <1>1, <1>2, <1>3, <1>5, StaysWhereHeIs DEF RemoveAllAddresses, threads
<1>6. CASE KickAll \/ Shutdown
  <2>1. /\ \E es : Post(Live, es) /\ es \in {<<Event("kickAll")>>,
                                            <<Event("kickAll"), Event("deactivate")>>}
        /\ UNCHANGED <<m_clientList, queue, backlog, clients, main>>
    BY <1>6 DEF KickAll, Shutdown, listening
  <2>2. ASSUME NEW t \in Threads PROVE Owns(t, c)' => Owns(t, c)
    <3> SUFFICES ASSUME Owns(t, c)' PROVE Owns(t, c)
      OBVIOUS
    <3>1. CASE c \in m_clientList'[t]
      BY <2>1, <3>1 DEF Owns
    <3>2. ASSUME NEW i \in 1..Len(inbox'[t]), inbox'[t][i] = Establish(c) PROVE Owns(t, c)
      <4>1. PICK es : /\ inbox'[t] \in {inbox[t], inbox[t] \o es}
                      /\ es \in {<<Event("kickAll")>>,
                                 <<Event("kickAll"), Event("deactivate")>>}
        BY <2>1 DEF Post
      <4>2. es \in Seq(InboxEvents) /\ \A j \in 1..Len(es) : es[j].kind # "establish"
        <5>1. CASE es = <<Event("kickAll")>>
          BY <5>1, EventTypes DEF Event
        <5>2. CASE es = <<Event("kickAll"), Event("deactivate")>>
          BY <5>2, EventTypes DEF Event
        <5>3. QED
          BY <4>1, <5>1, <5>2
      <4>3. inbox[t] \in Seq(InboxEvents)
        BY <1>1
      <4>4. i \in 1..Len(inbox[t]) /\ inbox'[t][i] = inbox[t][i]
        <5>1. CASE inbox'[t] = inbox[t]
          BY <3>2, <5>1
        <5>2. CASE inbox'[t] = inbox[t] \o es
          <6>1. /\ Len(inbox[t]) \in Nat /\ Len(es) \in Nat
                /\ Len(inbox'[t]) = Len(inbox[t]) + Len(es)
                /\ i \in 1..Len(inbox[t]) => inbox'[t][i] = inbox[t][i]
                /\ i > Len(inbox[t]) => inbox'[t][i] = es[i - Len(inbox[t])]
            BY <3>2, <4>2, <4>3, <5>2
          <6>2. i > Len(inbox[t]) => i - Len(inbox[t]) \in 1..Len(es)
            BY <3>2, <6>1
          <6>3. ~(i > Len(inbox[t]))
            BY <3>2, <4>2, <6>1, <6>2 DEF Establish
          <6>4. QED
            BY <3>2, <6>1, <6>3
        <5>3. QED
          BY <4>1, <5>1, <5>2
      <4>5. QED
        BY <3>2, <4>4 DEF Owns
    <3>3. QED
      BY <3>1, <3>2 DEF Owns, Establish
  <2>3. QED
    BY <1>1, <1>2, <2>1, <2>2, StaysWhereHeIs
<1>7. ASSUME NEW ssl \in Kinds, AddClientTransThreads(ssl) PROVE Once(c)'
  BY <1>1, <1>2, <1>3, <1>7, StaysWhereHeIs DEF AddClientTransThreads, listening
<1>8. ASSUME NEW ssl \in Kinds, connectTo(ssl) PROVE Once(c)'
  <2>1. /\ clients' = clients + 1 /\ main'.client = clients'
        /\ UNCHANGED <<inbox, m_clientList, queue, backlog>>
    BY <1>8 DEF connectTo, Choose, Idle, threads, listening
  <2>2. CASE c # clients'
    <3>1. \A i \in 1..Len(queue') : Reported(i, c)' =>
            i \in Nat /\ i + 0 \in 1..Len(queue) /\ Reported(i + 0, c)
      BY <2>1, QueueFacts
    <3>2. QED
      BY <1>1, <1>2, <1>3, <2>1, <2>2, <3>1, StaysOnce
  <2>3. CASE c = clients'
    <3>1. c > clients /\ ~(c > clients')
      BY <1>1, <2>1, <2>3
    <3>2. /\ \A l \in Listeners : c \notin backlog[l]
          /\ \A i \in 1..Len(queue) : ~Reported(i, c)
          /\ \A t \in Threads : ~Owns(t, c)
      BY <1>2, <3>1 DEF Once
    <3>3. \A i \in 1..Len(queue') : ~Reported(i, c)'
      BY <2>1, <3>2 DEF Reported
    <3>4. QED
      BY <1>3, <2>1, <3>1, <3>2, <3>3 DEF Once
  <2>4. QED
    BY <2>2, <2>3
<1>9. ASSUME NEW ssl \in Kinds, NEW n \in 1..size, RemoveClientTransThreads(n, ssl)
      PROVE  Once(c)'
  <2>1. main'.client = Nothing /\ UNCHANGED <<inbox, m_clientList, queue, backlog, clients>>
    BY <1>9 DEF RemoveClientTransThreads, Idle, listening
  <2>2. QED
    BY <1>1, <1>2, <1>3, <2>1, StaysWhereHeIs
<1>10. QED
  BY <1>4, <1>5, <1>6, <1>7, <1>8, <1>9 DEF Calls

LEMMA StepOnce ==
  ASSUME TypeInv, TypeInv', PoolInv, OnceInv, [Next]_vars
  PROVE  OnceInv'
<1>1. CASE UNCHANGED vars
  BY <1>1 DEF vars, threads, listening, OnceInv, Once, Reported, Owns
<1>2. CASE Next
  BY <1>2, MainOnce, CallsOnce, ListenersOnce, TransThreadOnce DEF Next
<1>3. QED
  BY <1>1, <1>2

-----------------------------------------------------------------------------
(* The shutdown.                                                           *)

Announced(l) == \E i \in 1..Len(queue) : queue[i] = ListenClosed(l)

\* A listener that has closed has said so, and once the main frame is destroyed
\* those that have not are asked to.
ListenInv ==
  \A l \in Listeners :
    /\ listener[l] = "closed" => Announced(l)
    /\ closing /\ listener[l] \in {"starting", "listening"} => l \in stops

Told(t) == \E i \in 1..Len(inbox[t]) : inbox[t][i].kind = "deactivate"
Leaving(t) == ~m_bActivated[t] /\ m_clientList[t] \subseteq kicked \cup late

\* Once the main frame is destroyed every thread of the pool has been told so.
LeavingInv == closing => \A t \in Live : Told(t) \/ Leaving(t)

\* What is queued for the main thread stays so until it is handled.
LEMMA AnnouncedFacts ==
  ASSUME TypeInv, NEW l \in Listeners
  PROVE  /\ \A e : queue' = Append(queue, e) => /\ Announced(l) => Announced(l)'
                                                /\ e = ListenClosed(l) => Announced(l)'
         /\ queue # <<>> /\ queue' = Tail(queue) /\ Head(queue) # ListenClosed(l) =>
              (Announced(l) => Announced(l)')
<1>1. queue \in Seq(MainEvents) /\ Len(queue) \in Nat
  BY DEF TypeInv, ListenersOK
<1>2. ASSUME NEW e, queue' = Append(queue, e)
      PROVE  /\ Announced(l) => Announced(l)'
             /\ e = ListenClosed(l) => Announced(l)'
  <2>1. /\ Len(queue') = Len(queue) + 1 /\ queue'[Len(queue) + 1] = e
        /\ \A i \in 1..Len(queue) : i \in 1..Len(queue') /\ queue'[i] = queue[i]
        /\ Len(queue) + 1 \in 1..Len(queue')
    BY <1>1, <1>2
  <2>2. QED
    BY <2>1 DEF Announced, ListenClosed
<1>3. ASSUME queue # <<>>, queue' = Tail(queue), Head(queue) # ListenClosed(l), Announced(l)
      PROVE  Announced(l)'
  <2>1. PICK i \in 1..Len(queue) : queue[i] = ListenClosed(l)
    BY <1>3 DEF Announced
  <2>2. i # 1
    BY <1>1, <1>3, <2>1
  <2>3. i - 1 \in 1..Len(queue') /\ queue'[i - 1] = queue[i]
    BY <1>1, <1>3, <2>1, <2>2
  <2>4. QED
    BY <2>1, <2>3 DEF Announced, ListenClosed
<1>4. QED
  BY <1>2, <1>3

\* A step that leaves the listeners alone, and handles at most a client's arrival.
LEMMA ListenFrame ==
  ASSUME TypeInv, ListenInv, UNCHANGED <<listener, stops, closing>>,
         queue' = queue \/ (queue # <<>> /\ queue' = Tail(queue) /\ Head(queue).kind # "closed")
  PROVE  ListenInv'
<1>1. \A l \in Listeners : Announced(l) => Announced(l)'
  <2> SUFFICES ASSUME NEW l \in Listeners PROVE Announced(l) => Announced(l)'
    OBVIOUS
  <2>1. CASE queue' = queue
    BY <2>1 DEF Announced, ListenClosed
  <2>2. CASE queue # <<>> /\ queue' = Tail(queue) /\ Head(queue).kind # "closed"
    <3>1. Head(queue) # ListenClosed(l)
      BY <2>2 DEF ListenClosed
    <3>2. QED
      BY <2>2, <3>1, AnnouncedFacts
  <2>3. QED
    BY <2>1, <2>2
<1>2. QED
  BY <1>1 DEF ListenInv

LEMMA StepListen ==
  ASSUME TypeInv, ListenInv, [Next]_vars
  PROVE  ListenInv'
<1>1. CASE UNCHANGED vars
  BY <1>1, ListenFrame DEF vars, listening
<1>2. ASSUME NEW l \in Listeners, Listener(l) \/ Accept(l) PROVE ListenInv'
  <2>1. closing' = closing /\ listener \in [Listeners -> {"none", "starting", "listening", "closed", "over"}]
    BY <1>2 DEF Listener, startListen, stopListen, evt_NewClientArrived, Accept,
                TypeInv, ListenersOK
  <2>2. CASE startListen(l)
    <3>1. CASE listener' = [listener EXCEPT ![l] = "listening"] /\ UNCHANGED queue
      BY <2>1, <2>2, <3>1 DEF startListen, ListenInv, Announced, ListenClosed
    <3>2. CASE /\ listener' = [listener EXCEPT ![l] = "closed"]
               /\ queue' = Append(queue, ListenClosed(l))
      <4>1. Announced(l)' /\ \A m \in Listeners : Announced(m) => Announced(m)'
        BY <3>2, AnnouncedFacts
      <4>2. QED
        BY <2>1, <2>2, <3>2, <4>1 DEF startListen, ListenInv
    <3>3. QED
      BY <2>2, <3>1, <3>2 DEF startListen
  <2>3. CASE stopListen(l)
    <3>1. stops' = stops \ {l} /\ listener[l] # "starting"
      BY <2>3 DEF stopListen
    <3>2. CASE listener[l] = "listening"
      <4>1. /\ listener' = [listener EXCEPT ![l] = "closed"]
            /\ queue' = Append(queue, ListenClosed(l))
        BY <2>3, <3>2 DEF stopListen
      <4>2. Announced(l)' /\ \A m \in Listeners : Announced(m) => Announced(m)'
        BY <4>1, AnnouncedFacts
      <4>3. QED
        BY <2>1, <3>1, <4>1, <4>2 DEF ListenInv
    <3>3. CASE listener[l] # "listening"
      <4>1. UNCHANGED <<listener, queue>>
        BY <2>3, <3>3 DEF stopListen
      <4>2. QED
        BY <2>1, <3>1, <3>3, <4>1 DEF ListenInv, Announced, ListenClosed
    <3>4. QED
      BY <3>2, <3>3
  <2>4. CASE evt_NewClientArrived(l)
    <3>1. /\ \E e : queue' = Append(queue, e)
          /\ UNCHANGED <<listener, stops>>
      BY <2>4 DEF evt_NewClientArrived
    <3>2. \A m \in Listeners : Announced(m) => Announced(m)'
      BY <3>1, AnnouncedFacts
    <3>3. QED
      BY <2>1, <3>1, <3>2 DEF ListenInv
  <2>5. CASE Accept(l)
    BY <2>5, ListenFrame DEF Accept
  <2>6. QED
    BY <1>2, <2>2, <2>3, <2>4, <2>5 DEF Listener
<1>3. ASSUME NEW t \in Threads, TransThread(t) \/ \E c \in Clients : ClientClosed(t, c)
      PROVE  ListenInv'
  BY <1>3, ListenFrame DEF TransThread, incomingConnection, KickAllClients,
     DeactivateImmediately, ThreadEnds, ClientClosed, listening
<1>4. CASE on_New_Arrived_Client
  BY <1>4, ListenFrame DEF on_New_Arrived_Client, listening
<1>5. CASE on_ListenClosed
  <2> DEFINE k == Head(queue).listener
  <2>1. /\ queue # <<>> /\ Head(queue).kind = "closed" /\ queue' = Tail(queue)
        /\ listener' = [listener EXCEPT ![k] = "over"]
        /\ stops' = stops \ {k} /\ closing' = closing
    BY <1>5 DEF on_ListenClosed
  <2>2. Head(queue) \in MainEvents
    BY <2>1 DEF TypeInv, ListenersOK
  <2>3. Head(queue).listener = k
    OBVIOUS
  <2> HIDE DEF k
  <2>4. ASSUME NEW m \in Listeners, m # k, Announced(m) PROVE Announced(m)'
    <3>1. Head(queue) # ListenClosed(m)
      BY <2>3, <2>4 DEF ListenClosed
    <3>2. QED
      BY <2>1, <2>4, <3>1, AnnouncedFacts
  <2>5. listener \in [Listeners -> {"none", "starting", "listening", "closed", "over"}]
    BY DEF TypeInv, ListenersOK
  <2>6. QED
    BY <2>1, <2>4, <2>5 DEF ListenInv
<1>6. CASE AskCanExit \/ CleanNext \/ EmitEstablish \/ ExitNext \/ Removed
  BY <1>6, ListenFrame DEF AskCanExit, CleanNext, EmitEstablish, ExitNext, Removed, Quit, Return,
     listening
<1>7. CASE Calls
  <2>1. ASSUME NEW l \in Listeners, AddListeningAddress(l) PROVE ListenInv'
    <3>1. /\ ~closing /\ UNCHANGED <<queue, closing>>
          /\ listener' = [listener EXCEPT ![l] = "starting"]
          /\ listener \in [Listeners -> {"none", "starting", "listening", "closed", "over"}]
      BY <2>1 DEF AddListeningAddress, TypeInv, ListenersOK
    <3>2. QED
      BY <3>1 DEF ListenInv, Announced, ListenClosed
  <2>2. CASE RemoveAllAddresses \/ Shutdown
    <3>1. /\ UNCHANGED <<queue, listener>> /\ stops' = stops \cup Alive
          /\ closing' = closing \/ closing' = TRUE
      BY <2>2 DEF RemoveAllAddresses, Shutdown
    <3>2. \A l \in Listeners : listener[l] \in {"starting", "listening"} => l \in stops'
      BY <3>1 DEF Alive
    <3>3. QED
      BY <3>1, <3>2 DEF ListenInv, Announced, ListenClosed
  <2>3. CASE \/ KickAll
             \/ \E ssl \in Kinds : AddClientTransThreads(ssl) \/ connectTo(ssl)
             \/ \E ssl \in Kinds, n \in 1..size : RemoveClientTransThreads(n, ssl)
    <3>1. UNCHANGED <<queue, listener, stops, closing>>
      BY <2>3 DEF KickAll, AddClientTransThreads, connectTo, RemoveClientTransThreads, listening
    <3>2. QED
      BY <3>1, ListenFrame
  <2>4. QED
    BY <1>7, <2>1, <2>2, <2>3 DEF Calls
<1>8. QED
  BY <1>1, <1>2, <1>3, <1>4, <1>5, <1>6, <1>7 DEF Next, MainThread

\* A thread for which nothing changes, or for which events are queued.
LEMMA LeavingFrame ==
  ASSUME TypeInv, NEW t \in Threads, Told(t) \/ Leaving(t),
         m_bActivated'[t] => m_bActivated[t], m_clientList'[t] = m_clientList[t],
         kicked \subseteq kicked', late \subseteq late',
         inbox'[t] = inbox[t] \/ (\E e : inbox'[t] = Append(inbox[t], e))
           \/ (\E es \in Seq(InboxEvents) : inbox'[t] = inbox[t] \o es)
  PROVE  (Told(t) \/ Leaving(t))'
<1>1. Leaving(t) => Leaving(t)'
  BY DEF Leaving
<1>2. inbox[t] \in Seq(InboxEvents)
  BY DEF TypeInv, ThreadsOK
<1>3. \A i \in 1..Len(inbox[t]) : i \in 1..Len(inbox'[t]) /\ inbox'[t][i] = inbox[t][i]
  <2>1. CASE inbox'[t] = inbox[t]
    BY <2>1
  <2>2. ASSUME NEW e, inbox'[t] = Append(inbox[t], e)
        PROVE \A i \in 1..Len(inbox[t]) : i \in 1..Len(inbox'[t]) /\ inbox'[t][i] = inbox[t][i]
    BY <1>2, <2>2
  <2>3. ASSUME NEW es \in Seq(InboxEvents), inbox'[t] = inbox[t] \o es
        PROVE \A i \in 1..Len(inbox[t]) : i \in 1..Len(inbox'[t]) /\ inbox'[t][i] = inbox[t][i]
    BY <1>2, <2>3
  <2>4. QED
    BY <2>1, <2>2, <2>3
<1>4. Told(t) => Told(t)'
  BY <1>3 DEF Told
<1>5. QED
  BY <1>1, <1>4

\* The steps of a transfer thread: told to go, it marks all it serves.
LEMMA TransThreadLeaving ==
  ASSUME TypeInv, IInv, OnceInv, PoolInv, LeavingInv, closing, NEW t \in Threads,
         TransThread(t) \/ \E c \in Clients : ClientClosed(t, c),
         NEW r \in Live
  PROVE  (Told(r) \/ Leaving(r))'
<1>1. /\ inbox \in [Threads -> Seq(InboxEvents)]
      /\ m_clientList \in [Threads -> SUBSET Clients]
      /\ m_bActivated \in [Threads -> BOOLEAN]
      /\ r \in Threads /\ (Told(r) \/ Leaving(r))
  BY PoolMembers DEF TypeInv, ThreadsOK, LeavingInv
<1>2. ASSUME inbox[t] # <<>>, inbox'[t] = Tail(inbox[t]), Head(inbox[t]).kind # "deactivate",
             Told(t)
      PROVE  Told(t)'
  <2>1. PICK i \in 1..Len(inbox[t]) : inbox[t][i].kind = "deactivate"
    BY <1>2 DEF Told
  <2>2. inbox[t] \in Seq(InboxEvents)
    BY <1>1
  <2>3. i # 1
    BY <1>2, <2>1, <2>2
  <2>4. i - 1 \in 1..Len(inbox'[t]) /\ inbox'[t][i - 1] = inbox[t][i]
    BY <1>2, <2>1, <2>2, <2>3
  <2>5. QED
    BY <2>1, <2>4 DEF Told
<1>3. CASE incomingConnection(t)
  <2> DEFINE c == Head(inbox[t]).client
  <2>1. /\ inbox[t] # <<>> /\ Head(inbox[t]).kind = "establish"
        /\ inbox' = [inbox EXCEPT ![t] = Tail(@)]
        /\ \/ /\ m_clientList' = [m_clientList EXCEPT ![t] = @ \cup {c}]
              /\ late' = IF m_bActivated[t] THEN late ELSE late \cup {c}
           \/ UNCHANGED <<m_clientList, late>>
        /\ UNCHANGED <<m_bActivated, kicked>>
    BY <1>3 DEF incomingConnection, NextEvent, Handled
  <2> HIDE DEF c
  <2>2. late \subseteq late'
    BY <2>1
  <2>3. CASE r # t
    <3>1. inbox'[r] = inbox[r] /\ m_clientList'[r] = m_clientList[r]
      BY <1>1, <2>1, <2>3
    <3>2. QED
      BY <1>1, <2>1, <2>2, <3>1, LeavingFrame
  <2>4. CASE r = t
    <3>1. inbox'[t] = Tail(inbox[t])
      BY <1>1, <2>1
    <3>2. Told(t) => Told(t)'
      BY <1>2, <2>1, <3>1
    <3>3. Leaving(t) => Leaving(t)'
      BY <1>1, <2>1 DEF Leaving
    <3>4. QED
      BY <1>1, <2>4, <3>2, <3>3
  <2>5. QED
    BY <2>3, <2>4
<1>4. CASE KickAllClients(t) \/ DeactivateImmediately(t)
  <2>1. /\ inbox[t] # <<>> /\ Head(inbox[t]).kind \in {"kickAll", "deactivate"}
        /\ inbox' = [inbox EXCEPT ![t] = Tail(@)]
        /\ kicked' = kicked \cup m_clientList[t]
        /\ UNCHANGED <<m_clientList, late>>
    BY <1>4 DEF KickAllClients, DeactivateImmediately, NextEvent, Handled
  <2>2. CASE r # t
    <3>1. inbox'[r] = inbox[r] /\ m_bActivated'[r] = m_bActivated[r]
      BY <1>1, <1>4, <2>1, <2>2 DEF KickAllClients, DeactivateImmediately
    <3>2. QED
      BY <1>1, <2>1, <3>1, LeavingFrame
  <2>3. CASE r = t /\ KickAllClients(t)
    <3>1. /\ Head(inbox[t]).kind = "kickAll" /\ m_bActivated' = m_bActivated
          /\ inbox'[t] = Tail(inbox[t])
      BY <1>1, <2>1, <2>3 DEF KickAllClients, NextEvent
    <3>2. Told(t) => Told(t)'
      BY <1>2, <2>1, <3>1
    <3>3. Leaving(t) => Leaving(t)'
      BY <2>1, <3>1 DEF Leaving
    <3>4. QED
      BY <1>1, <2>3, <3>2, <3>3
  <2>4. CASE r = t /\ DeactivateImmediately(t)
    <3>1. m_bActivated'[t] = FALSE
      BY <1>1, <2>4 DEF DeactivateImmediately
    <3>2. QED
      BY <2>1, <2>4, <3>1 DEF Leaving
  <2>5. QED
    BY <1>4, <2>2, <2>3, <2>4
<1>5. CASE ThreadEnds(t)
  <2>1. /\ loop[t] = "quitting" /\ inbox' = [inbox EXCEPT ![t] = <<>>]
        /\ UNCHANGED <<m_bActivated, m_clientList, kicked, late>>
    BY <1>5 DEF ThreadEnds
  <2>2. CASE r # t
    <3>1. inbox'[r] = inbox[r]
      BY <1>1, <2>1, <2>2
    <3>2. QED
      BY <1>1, <2>1, <3>1, LeavingFrame
  <2>3. CASE r = t
    BY <2>1, <2>3 DEF IInv, EndingInv, Ending, Leaving
  <2>4. QED
    BY <2>2, <2>3
<1>6. ASSUME NEW c \in Clients, ClientClosed(t, c) PROVE (Told(r) \/ Leaving(r))'
  <2>1. /\ c \in m_clientList[t]
        /\ m_clientList' = [m_clientList EXCEPT ![t] = @ \ {c}]
        /\ kicked' = kicked \ {c}
        /\ UNCHANGED <<m_bActivated, inbox, late>>
    BY <1>6 DEF ClientClosed
  <2>2. Told(r) => Told(r)'
    BY <2>1 DEF Told
  <2>3. c \notin m_clientList'[r] /\ m_clientList'[r] \subseteq m_clientList[r]
    <3>1. r # t => c \notin m_clientList[r]
      BY <1>1, <2>1 DEF OnceInv, Once, Owns
    <3>2. QED
      BY <1>1, <2>1, <3>1
  <2>4. Leaving(r) => Leaving(r)'
    BY <2>1, <2>3 DEF Leaving
  <2>5. QED
    BY <1>1, <2>2, <2>4
<1>7. QED
  BY <1>3, <1>4, <1>5, <1>6 DEF TransThread

\* Two events queued behind an inbox: the second is the last but it.
LEMMA SecondQueued ==
  ASSUME NEW S, NEW s \in Seq(S), NEW es \in Seq(S), Len(es) = 2
  PROVE  /\ Len(s) + 2 \in 1..Len(s \o es)
         /\ (s \o es)[Len(s) + 2] = es[2]
<1>1. Len(s) \in Nat
  OBVIOUS
<1>2. Len(s \o es) = Len(s) + 2
  <2>1. Len(s \o es) = Len(s) + Len(es)
    BY ConcatProperties
  <2>2. QED
    BY <2>1
<1>3. \A i \in 1..Len(s) + 2 :
        (s \o es)[i] = IF i <= Len(s) THEN s[i] ELSE es[i - Len(s)]
  <2>1. \A i \in 1..Len(s) + Len(es) :
          (s \o es)[i] = IF i <= Len(s) THEN s[i] ELSE es[i - Len(s)]
    BY ConcatProperties, Zenon
  <2>2. QED
    BY <2>1
<1> DEFINE n == Len(s)
<1> HIDE DEF n
<1>4. n + 2 \in 1..n + 2 /\ ~(n + 2 <= n) /\ (n + 2) - n = 2
  BY <1>1 DEF n
<1>5. QED
  BY <1>2, <1>3, <1>4 DEF n

LEMMA StepLeaving ==
  ASSUME TypeInv, IInv, OnceInv, PoolInv, PoolInv', LeavingInv, [Next]_vars
  PROVE  LeavingInv'
<1>1. CASE closing
  <2>1. closing' /\ Live' \subseteq Live
    <3>1. ~ \E ssl \in Kinds : AddClientTransThreads(ssl)
      BY <1>1 DEF AddClientTransThreads
    <3>2. CASE Removed
      <4>1. main'.thread = Nothing /\ loop' = loop /\ closing' = closing
        BY <3>2 DEF Removed, PoolInv, MainInv, threads
      <4>2. Nothing \notin Threads
        BY EngineAssumption DEF Threads, Nothing
      <4>3. QED
        BY <1>1, <4>1, <4>2 DEF PoolInv, PoolSound
    <3>3. CASE ~Removed
      <4>1. UNCHANGED <<pool, size>> /\ (closing' = closing \/ closing' = TRUE)
        BY <3>1, <3>3 DEF Next, vars, MainThread, Calls, Listener, startListen, stopListen, Accept,
           evt_NewClientArrived, TransThread, incomingConnection, KickAllClients,
           DeactivateImmediately, ThreadEnds, ClientClosed, on_New_Arrived_Client,
           on_ListenClosed, AskCanExit, EmitEstablish, CleanNext, Quit, ExitNext, Return,
           AddListeningAddress, RemoveAllAddresses, KickAll, connectTo,
           RemoveClientTransThreads, Shutdown
      <4>2. QED
        BY <1>1, <4>1 DEF Live
    <3>4. QED
      BY <3>2, <3>3
  <2>2. ASSUME NEW r \in Live PROVE (Told(r) \/ Leaving(r))'
    <3>1. CASE \E t \in Threads : TransThread(t) \/ \E c \in Clients : ClientClosed(t, c)
      BY <1>1, <3>1, TransThreadLeaving
    <3>2. CASE ~ \E t \in Threads : TransThread(t) \/ \E c \in Clients : ClientClosed(t, c)
      <4>1. UNCHANGED <<m_bActivated, m_clientList, kicked, late>>
        BY <1>1, <3>2 DEF Next, vars, MainThread, Calls, Listener, startListen, stopListen, Accept,
           evt_NewClientArrived, on_New_Arrived_Client, threads,
           on_ListenClosed, AskCanExit, EmitEstablish, CleanNext, Quit, ExitNext, Return, Removed,
           AddListeningAddress, RemoveAllAddresses, KickAll, AddClientTransThreads, connectTo,
           RemoveClientTransThreads, Shutdown
      <4>2. inbox'[r] = inbox[r] \/ \E e : inbox'[r] = Append(inbox[r], e)
        <5>1. CASE EmitEstablish
          <6>1. \/ inbox' = inbox
                \/ \E t, e : inbox' = [inbox EXCEPT ![t] = Append(@, e)]
            BY <5>1 DEF EmitEstablish
          <6>2. inbox \in [Threads -> Seq(InboxEvents)] /\ r \in Threads
            BY <2>2, PoolMembers DEF TypeInv, ThreadsOK
          <6>3. QED
            BY <6>1, <6>2
        <5>2. CASE ~EmitEstablish
          BY <1>1, <3>2, <5>2 DEF Next, vars, MainThread, Calls, Listener, startListen, stopListen,
             Accept, evt_NewClientArrived, on_New_Arrived_Client, threads,
             on_ListenClosed, AskCanExit, CleanNext, Quit, ExitNext, Return, Removed,
             AddListeningAddress, RemoveAllAddresses, KickAll, AddClientTransThreads, connectTo,
             RemoveClientTransThreads, Shutdown
        <5>3. QED
          BY <5>1, <5>2
      <4>3. r \in Threads /\ (Told(r) \/ Leaving(r))
        BY <1>1, <2>2, PoolMembers DEF LeavingInv
      <4>4. QED
        BY <4>1, <4>2, <4>3, LeavingFrame
    <3>3. QED
      BY <3>1, <3>2
  <2>3. QED
    BY <2>1, <2>2 DEF LeavingInv
<1>2. CASE ~closing
  <2>1. CASE Shutdown
    <3>1. /\ Post(Live, <<Event("kickAll"), Event("deactivate")>>)
          /\ UNCHANGED <<pool, size>>
      BY <2>1 DEF Shutdown
    <3>2. ASSUME NEW t \in Live PROVE Told(t)'
      <4> DEFINE es == <<Event("kickAll"), Event("deactivate")>>
      <4>1. inbox'[t] = inbox[t] \o es /\ inbox[t] \in Seq(InboxEvents)
        BY <3>1, <3>2, PoolMembers DEF Post, TypeInv, ThreadsOK
      <4>2. es \in Seq(InboxEvents) /\ Len(es) = 2 /\ es[2].kind = "deactivate"
        BY EventTypes DEF Event
      <4> HIDE DEF es
      <4>3. /\ Len(inbox[t]) + 2 \in 1..Len(inbox'[t])
            /\ inbox'[t][Len(inbox[t]) + 2] = es[2]
        BY <4>1, <4>2, SecondQueued
      <4>4. QED
        BY <4>2, <4>3 DEF Told
    <3>3. Live' = Live
      BY <3>1 DEF Live
    <3>4. QED
      BY <3>2, <3>3 DEF LeavingInv
  <2>2. CASE ~Shutdown
    <3>1. closing' = closing
      BY <1>2, <2>2 DEF Next, vars, MainThread, Calls, Listener, startListen, stopListen, Accept,
         evt_NewClientArrived, TransThread, incomingConnection, KickAllClients,
         DeactivateImmediately, ThreadEnds, ClientClosed, on_New_Arrived_Client, on_ListenClosed,
         AskCanExit, EmitEstablish, CleanNext, Quit, ExitNext, Return, Removed,
         AddListeningAddress, RemoveAllAddresses, KickAll, AddClientTransThreads, connectTo,
         RemoveClientTransThreads
    <3>2. QED
      BY <1>2, <3>1 DEF LeavingInv
  <2>3. QED
    BY <2>1, <2>2
<1>3. QED
  BY <1>1, <1>2

ShutInv == TypeInv /\ OnceInv /\ ListenInv /\ LeavingInv

THEOREM ShutInvCorrect == Spec => []ShutInv
<1>1. Init => ShutInv
  <2> SUFFICES ASSUME Init PROVE OnceInv /\ ListenInv /\ LeavingInv
    BY InitType DEF ShutInv
  <2>1. \A c \in Clients : c # Nothing
    BY EngineAssumption DEF Clients, Nothing
  <2>2. OnceInv
    BY <2>1 DEF Init, Idle, OnceInv, Once, Reported, Owns
  <2>3. ListenInv /\ LeavingInv
    BY DEF Init, ListenInv, LeavingInv
  <2>4. QED
    BY <2>2, <2>3
<1>2. IInv /\ PoolInv /\ PoolInv' /\ ShutInv /\ [Next]_vars => ShutInv'
  BY StepType, StepOnce, StepListen, StepLeaving DEF ShutInv
<1>3. QED
  BY <1>1, <1>2, EndingCorrect, PoolInvCorrect, PTL DEF Spec

\* The destructor of the main frame waits for nothing that has not been asked to
\* end: when all it has queued is handled, no listener is left, no thread active,
\* and every client still served is being closed, or came in behind its back.
THEOREM OnlyClosingLeftCorrect == Spec => []OnlyClosingLeft
<1>1. ShutInv => OnlyClosingLeft
  <2> SUFFICES ASSUME ShutInv, closing, queue = <<>>, stops = {},
                      \A t \in Live : inbox[t] = <<>>
               PROVE  /\ Alive = {}
                      /\ \A t \in Live : /\ ~m_bActivated[t]
                                         /\ m_clientList[t] \subseteq kicked \cup late
    BY DEF OnlyClosingLeft
  <2>1. \A l \in Listeners : ~Announced(l)
    BY DEF Announced
  <2>2. Alive = {}
    BY <2>1 DEF Alive, ShutInv, ListenInv
  <2>3. \A t \in Live : ~Told(t)
    BY DEF Told
  <2>4. QED
    BY <2>2, <2>3 DEF ShutInv, LeavingInv, Leaving
<1>2. QED
  BY <1>1, ShutInvCorrect, PTL
=============================================================================
