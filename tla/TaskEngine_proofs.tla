------------------------- MODULE TaskEngine_proofs --------------------------
(* Theorems about TaskEngine, and about ClientTable, which extends it, for *)
(* every number of tasks, workers and blocks, of sockets and users, and    *)
(* every batch size.                                                       *)
EXTENDS ClientTable, SequenceTheorems, FiniteSetTheorems, TLAPS

\* A worker that has left its event loop for a task holds one, and no other does.
HeldInv ==
  \A w \in Workers :
    IF pc[w] \in {"idle", "leaving", "stopped"} THEN held[w] = NoTask ELSE held[w] \in Tasks

\* A worker inside run(), or about to unlock, holds the run lock of its task.
LockInv ==
  \A w \in Workers : pc[w] \in Running \cup {"unlock"} => m_mutex_run[held[w]] = w

\* The list that Peek found nonempty is still nonempty in filter_message.
DealInv == \A w \in Workers : pc[w] = "deal" => m_list_RawData[held[w]] # <<>>

\* The loop of run() is entered with a block left in its budget only.
LoopInv == \A w \in Workers : pc[w] = "peek" => nMessage[w] > 0

\* The main thread inside pushTask knows its task and scans inside the vector.
MainInv ==
  /\ mainPc = "push" => pushing \in Tasks
  /\ mainPc = "scan" => scanAt >= 1
  /\ mainPc = "fire" => scanAt \in 1..Len(m_vec_workingThreads)

IInv == TypeOK /\ HeldInv /\ LockInv /\ DealInv /\ LoopInv /\ MainInv

LEMMA InitIInv == Init => IInv
<1> SUFFICES ASSUME Init PROVE IInv
  OBVIOUS
<1> USE EngineAssumption DEF Init, Workers, NoWorker
<1>1. [i \in 1..PoolSize |-> i] \in Seq(Workers)
  BY IsASeq
<1>2. TypeOK
  BY <1>1 DEF TypeOK, Labels
<1>3. HeldInv /\ LockInv /\ DealInv /\ LoopInv /\ MainInv
  BY DEF HeldInv, LockInv, DealInv, LoopInv, MainInv, Running
<1>4. QED
  BY <1>2, <1>3 DEF IInv

LEMMA WorkerIInv ==
  ASSUME IInv, NEW v \in Workers, Worker(v)
  PROVE  IInv'
<1> USE EngineAssumption DEF IInv, TypeOK, HeldInv, LockInv, DealInv, LoopInv,
        MainInv, Labels, Running, Goto,
        taskVars, nodeVars, poolVars, workVars, eventVars, mainVars
<1>1. CASE SetStopMark(v) \/ QuitThread(v)
  <2>1. TypeOK'
    <3>1. CASE SetStopMark(v)
      BY <3>1 DEF SetStopMark
    <3>2. CASE QuitThread(v)
      BY <3>2 DEF QuitThread, OnlyPc
    <3>3. QED
      BY <1>1, <3>1, <3>2
  <2>2. HeldInv'
    BY <1>1 DEF SetStopMark, QuitThread, OnlyPc
  <2>3. LockInv'
    BY <1>1 DEF SetStopMark, QuitThread, OnlyPc, Workers, NoWorker
  <2>4. DealInv'
    BY <1>1 DEF SetStopMark, QuitThread, OnlyPc
  <2>5. LoopInv' /\ MainInv'
    BY <1>1 DEF SetStopMark, QuitThread, OnlyPc
  <2>6. QED
    BY <2>1, <2>2, <2>3, <2>4, <2>5
<1>2. CASE FetchNewTask(v)
  <2>a. ASSUME m_list_tasks # <<>> PROVE TypeOK' /\ HeldInv'
    <3>1. Head(m_list_tasks) \in Tasks /\ Tail(m_list_tasks) \in Seq(Tasks)
      BY <2>a, HeadTailProperties
    <3>2. Tail(mailbox[v]) \in Seq({"fetch", "stop"})
      BY <1>2, HeadTailProperties DEF FetchNewTask
    <3>3. TypeOK'
      <4>1. /\ mailbox' = [mailbox EXCEPT ![v] = Tail(@)]
            /\ m_list_tasks' = Tail(m_list_tasks)
            /\ held' = [held EXCEPT ![v] = Head(m_list_tasks)]
            /\ pc' = [pc EXCEPT ![v] = "popped"]
            /\ UNCHANGED <<taskVars, nodeVars, poolVars, nMessage, res, m_bBusy,
                          finished, mainVars>>
        BY <1>2, <2>a DEF FetchNewTask
      <4>2. QED
        BY <3>1, <3>2, <4>1
    <3>4. HeldInv'
      BY <1>2, <2>a, <3>1 DEF FetchNewTask
    <3>5. QED
      BY <3>3, <3>4
  <2>b. ASSUME m_list_tasks = <<>> PROVE TypeOK' /\ HeldInv'
    <3>1. Tail(mailbox[v]) \in Seq({"fetch", "stop"})
      BY <1>2, HeadTailProperties DEF FetchNewTask
    <3>2. TypeOK'
      <4>1. /\ mailbox' = [mailbox EXCEPT ![v] = Tail(@)]
            /\ finished' = Append(finished, v)
            /\ UNCHANGED <<m_list_tasks, pc, held, taskVars, nodeVars, poolVars,
                          nMessage, res, m_bBusy, mainVars>>
        BY <1>2, <2>b DEF FetchNewTask
      <4>2. finished' \in Seq(Workers)
        BY <4>1, AppendProperties
      <4>3. mailbox' \in [Workers -> Seq({"fetch", "stop"})]
        BY <3>1, <4>1
      <4>4. QED
        BY <4>1, <4>2, <4>3
    <3>3. HeldInv'
      BY <1>2, <2>b DEF FetchNewTask
    <3>4. QED
      BY <3>2, <3>3
  <2>1. TypeOK' /\ HeldInv'
    BY <2>a, <2>b
  <2>3. LockInv'
    BY <1>2 DEF FetchNewTask, Workers, NoWorker
  <2>4. DealInv'
    BY <1>2 DEF FetchNewTask
  <2>5. LoopInv' /\ MainInv'
    BY <1>2 DEF FetchNewTask
  <2>6. QED
    BY <2>1, <2>3, <2>4, <2>5
<1>3. CASE SetBusy(v)
  <2>1. TypeOK'
    BY <1>3 DEF SetBusy
  <2>2. HeldInv'
    BY <1>3 DEF SetBusy
  <2>3. LockInv'
    BY <1>3 DEF SetBusy, Workers, NoWorker
  <2>4. DealInv'
    BY <1>3 DEF SetBusy
  <2>5. LoopInv' /\ MainInv'
    BY <1>3 DEF SetBusy
  <2>6. QED
    BY <2>1, <2>2, <2>3, <2>4, <2>5
<1>4. CASE LockRun(v)
  <2>0. held[v] \in Tasks /\ v # NoWorker
    <3>1. held[v] \in Tasks
      BY <1>4 DEF LockRun
    <3>2. v # NoWorker
      BY DEF Workers, NoWorker
    <3>3. QED
      BY <3>1, <3>2
  <2>1. TypeOK'
    <3>1. m_mutex_run' \in [Tasks -> Workers \cup {NoWorker}]
      BY <1>4, <2>0 DEF LockRun
    <3>2. pc' \in [Workers -> Labels]
      BY <1>4 DEF LockRun
    <3>3. UNCHANGED <<m_list_tasks, refCount, nodeVars, poolVars, held, nMessage, res,
                      m_bBusy, eventVars, mainVars>>
      BY <1>4 DEF LockRun
    <3>4. QED
      BY <3>1, <3>2, <3>3
  <2>2. HeldInv'
    <3>1. /\ held' = held /\ pc'[v] \notin {"idle", "leaving", "stopped"}
          /\ \A w \in Workers \ {v} : pc'[w] = pc[w]
      BY <1>4 DEF LockRun
    <3> HIDE DEF TypeOK, LockInv, DealInv, LoopInv, MainInv
    <3>2. QED
      BY <2>0, <3>1
  <2>3. LockInv'
    <3> SUFFICES ASSUME NEW w \in Workers, pc'[w] \in Running \cup {"unlock"}
                 PROVE  m_mutex_run'[held'[w]] = w
      OBVIOUS
    <3>1. CASE w = v
      BY <1>4, <2>0, <3>1 DEF LockRun
    <3>2. CASE w # v
      <4>1. pc[w] \in Running \cup {"unlock"} /\ held' = held
        BY <1>4, <3>2 DEF LockRun
      <4>2. m_mutex_run[held[w]] = w /\ w # NoWorker
        BY <4>1 DEF Workers, NoWorker
      <4>3. held[w] \in Tasks
        BY <4>1
      <4>4. QED
        BY <1>4, <2>0, <4>1, <4>2, <4>3 DEF LockRun
    <3>3. QED
      BY <3>1, <3>2
  <2>4. DealInv'
    BY <1>4 DEF LockRun
  <2>5. LoopInv' /\ MainInv'
    BY <1>4 DEF LockRun
  <2>6. QED
    BY <2>1, <2>2, <2>3, <2>4, <2>5
<1>5. CASE RunEntry(v)
  <2>1. TypeOK'
    BY <1>5 DEF RunEntry
  <2>2. HeldInv'
    BY <1>5 DEF RunEntry
  <2>3. LockInv'
    BY <1>5 DEF RunEntry, Workers, NoWorker
  <2>4. DealInv'
    BY <1>5 DEF RunEntry
  <2>5. LoopInv' /\ MainInv'
    BY <1>5 DEF RunEntry
  <2>6. QED
    BY <2>1, <2>2, <2>3, <2>4, <2>5
<1>6. CASE Peek(v)
  <2>1. TypeOK'
    BY <1>6 DEF Peek
  <2>2. HeldInv'
    BY <1>6 DEF Peek
  <2>3. LockInv'
    BY <1>6 DEF Peek, Workers, NoWorker
  <2>4. DealInv'
    BY <1>6 DEF Peek
  <2>5. LoopInv' /\ MainInv'
    BY <1>6 DEF Peek
  <2>6. QED
    BY <2>1, <2>2, <2>3, <2>4, <2>5
<1>7. CASE FilterMessage(v)
  <2>0. held[v] \in Tasks /\ m_list_RawData[held[v]] # <<>>
    BY <1>7 DEF FilterMessage
  <2>a. /\ Head(m_list_RawData[held[v]]) \in Nat
        /\ Tail(m_list_RawData[held[v]]) \in Seq(Nat)
    BY <2>0, HeadTailProperties
  <2>1. TypeOK'
    BY <1>7, <2>0, <2>a DEF FilterMessage
  <2>2. HeldInv'
    BY <1>7 DEF FilterMessage
  <2>3. LockInv'
    BY <1>7 DEF FilterMessage, Workers, NoWorker
  <2>4. DealInv'
    BY <1>7 DEF FilterMessage
  <2>5. LoopInv' /\ MainInv'
    BY <1>7 DEF FilterMessage
  <2>6. QED
    BY <2>1, <2>2, <2>3, <2>4, <2>5
<1>8. CASE PopEmpty(v)
  <2>0. held[v] \in Tasks
    BY <1>8 DEF PopEmpty
  <2>a. m_list_RawData[held[v]] # <<>> => Tail(m_list_RawData[held[v]]) \in Seq(Nat)
    BY <2>0, HeadTailProperties
  <2>1. TypeOK'
    BY <1>8, <2>0, <2>a DEF PopEmpty
  <2>2. HeldInv'
    BY <1>8 DEF PopEmpty
  <2>3. LockInv'
    BY <1>8 DEF PopEmpty, Workers, NoWorker
  <2>4. DealInv'
    BY <1>8 DEF PopEmpty
  <2>5. LoopInv' /\ MainInv'
    BY <1>8 DEF PopEmpty
  <2>6. QED
    BY <2>1, <2>2, <2>3, <2>4, <2>5
<1>9. CASE ReadSize(v)
  <2>1. TypeOK'
    BY <1>9 DEF ReadSize, OnlyPc
  <2>2. HeldInv'
    BY <1>9 DEF ReadSize, OnlyPc
  <2>3. LockInv'
    BY <1>9 DEF ReadSize, OnlyPc, Workers, NoWorker
  <2>4. DealInv'
    BY <1>9 DEF ReadSize, OnlyPc
  <2>5. LoopInv' /\ MainInv'
    BY <1>9 DEF ReadSize, OnlyPc
  <2>6. QED
    BY <2>1, <2>2, <2>3, <2>4, <2>5
<1>10. CASE FinalSize(v)
  <2>1. TypeOK'
    BY <1>10 DEF FinalSize
  <2>2. HeldInv'
    BY <1>10 DEF FinalSize
  <2>3. LockInv'
    BY <1>10 DEF FinalSize, Workers, NoWorker
  <2>4. DealInv'
    BY <1>10 DEF FinalSize
  <2>5. LoopInv' /\ MainInv'
    BY <1>10 DEF FinalSize
  <2>6. QED
    BY <2>1, <2>2, <2>3, <2>4, <2>5
<1>11. CASE DelRef(v)
  <2>c. held[v] \in Tasks
    BY <1>11 DEF DelRef
  <2>0. held[v] \in Tasks /\ refCount[held[v]] - 1 \in Int
    BY <2>c
  <2>1. TypeOK'
    BY <1>11, <2>0 DEF DelRef
  <2>2. HeldInv'
    BY <1>11 DEF DelRef, Owns, MustRepush
  <2>3. LockInv'
    BY <1>11 DEF DelRef, Owns, MustRepush, Workers, NoWorker
  <2>4. DealInv'
    BY <1>11 DEF DelRef, Owns, MustRepush
  <2>5. LoopInv' /\ MainInv'
    BY <1>11 DEF DelRef, Owns, MustRepush
  <2>6. QED
    BY <2>1, <2>2, <2>3, <2>4, <2>5
<1>12. CASE RePush(v)
  <2>c. held[v] \in Tasks
    BY <1>12 DEF RePush
  <2>0. held[v] \in Tasks /\ refCount[held[v]] + 1 \in Int
    BY <2>c
  <2>a. Append(m_list_tasks, held[v]) \in Seq(Tasks)
    BY <2>0
  <2>1. TypeOK'
    BY <1>12, <2>0, <2>a DEF RePush, PushTask
  <2>2. HeldInv'
    BY <1>12 DEF RePush, PushTask, Owns
  <2>3. LockInv'
    BY <1>12 DEF RePush, PushTask, Owns, Workers, NoWorker
  <2>4. DealInv'
    BY <1>12 DEF RePush, PushTask, Owns
  <2>5. LoopInv' /\ MainInv'
    BY <1>12 DEF RePush, PushTask, Owns
  <2>6. QED
    BY <2>1, <2>2, <2>3, <2>4, <2>5
<1>13. CASE UnlockRun(v)
  <2>1. TypeOK'
    BY <1>13 DEF UnlockRun
  <2>2. HeldInv'
    BY <1>13 DEF UnlockRun
  <2>3. LockInv'
    BY <1>13 DEF UnlockRun, Workers, NoWorker
  <2>4. DealInv'
    BY <1>13 DEF UnlockRun
  <2>5. LoopInv' /\ MainInv'
    BY <1>13 DEF UnlockRun
  <2>6. QED
    BY <2>1, <2>2, <2>3, <2>4, <2>5
<1>14. CASE Finish(v)
  <2>1. TypeOK'
    BY <1>14 DEF Finish
  <2>2. HeldInv'
    BY <1>14 DEF Finish
  <2>3. LockInv'
    BY <1>14 DEF Finish, Workers, NoWorker
  <2>4. DealInv'
    BY <1>14 DEF Finish
  <2>5. LoopInv' /\ MainInv'
    BY <1>14 DEF Finish
  <2>6. QED
    BY <2>1, <2>2, <2>3, <2>4, <2>5
<1>15. QED
  BY <1>1, <1>2, <1>3, <1>4, <1>5, <1>6, <1>7, <1>8, <1>9, <1>10, <1>11, <1>12, <1>13, <1>14 DEF Worker, RunStep

\* on_finished_task disturbs nothing but a worker's queue of events.
LEMMA OnFinishedTaskType ==
  ASSUME mailbox \in [Workers -> Seq({"fetch", "stop"})], NEW w \in Workers,
         OnFinishedTask(w)
  PROVE  mailbox' \in [Workers -> Seq({"fetch", "stop"})]
<1>1. Append(mailbox[w], "fetch") \in Seq({"fetch", "stop"})
  OBVIOUS
<1>2. QED
  BY <1>1 DEF OnFinishedTask

\* What remains of the invariant when the workers and the nodes' data do not
\* change.
LEMMA WorkersUnchanged ==
  ASSUME IInv, TypeOK', UNCHANGED <<workVars, m_mutex_run, m_list_RawData>>, MainInv'
  PROVE  IInv'
BY DEF IInv, HeldInv, LockInv, DealInv, LoopInv, workVars

LEMMA MainIInv ==
  ASSUME IInv, MainStep \/ Arrival \/ Resize
  PROVE  IInv'
<1> USE EngineAssumption DEF TypeOK, MainInv,
        taskVars, nodeVars, poolVars, workVars, eventVars, mainVars
<1>0. TypeOK /\ MainInv
  BY DEF IInv
<1>1. ASSUME NEW t \in Tasks, DataReceived(t) PROVE IInv'
  <2>1. rcvd[t] + 1 \in Nat /\ Append(m_list_RawData[t], rcvd[t] + 1) \in Seq(Nat)
    BY <1>0
  <2>2. TypeOK' /\ MainInv'
    BY <1>0, <1>1, <2>1 DEF DataReceived
  <2>3. \A w \in Workers : pc[w] = "deal" => m_list_RawData'[held[w]] # <<>>
    <3> SUFFICES ASSUME NEW w \in Workers, pc[w] = "deal"
                 PROVE  m_list_RawData'[held[w]] # <<>>
      OBVIOUS
    <3>1. held[w] \in Tasks /\ m_list_RawData[held[w]] # <<>>
      BY DEF IInv, HeldInv, DealInv
    <3>2. CASE held[w] = t
      <4>1. m_list_RawData'[t] = Append(m_list_RawData[t], rcvd[t] + 1)
        BY <1>0, <1>1 DEF DataReceived
      <4>2. Len(Append(m_list_RawData[t], rcvd[t] + 1)) = Len(m_list_RawData[t]) + 1
        BY <1>0, <2>1
      <4>3. Len(m_list_RawData[t]) + 1 # 0
        BY <1>0
      <4>4. QED
        BY <3>2, <4>1, <4>2, <4>3, EmptySeq
    <3>3. CASE held[w] # t
      BY <1>0, <1>1, <3>1, <3>3 DEF DataReceived
    <3>4. QED
      BY <3>2, <3>3
  <2>4. UNCHANGED <<pc, held, nMessage, m_mutex_run>>
    BY <1>1 DEF DataReceived
  <2>5. HeldInv' /\ LockInv' /\ LoopInv'
    BY <2>4 DEF IInv, HeldInv, LockInv, LoopInv
  <2>6. DealInv'
    BY <2>3, <2>4 DEF DealInv
  <2>7. QED
    BY <2>2, <2>5, <2>6 DEF IInv
<1>2. ASSUME NEW t \in Tasks, Terminate(t) PROVE IInv'
  <2>1. TypeOK' /\ MainInv'
    BY <1>0, <1>2 DEF Terminate
  <2>2. QED
    BY <1>2, <2>1, WorkersUnchanged DEF Terminate
<1>3. CASE MainPush
  <2>1. pushing \in Tasks
    BY <1>0, <1>3 DEF MainPush
  <2>2. refCount[pushing] + 1 \in Int /\ Append(m_list_tasks, pushing) \in Seq(Tasks)
    BY <1>0, <2>1
  <2>3. TypeOK' /\ MainInv'
    BY <1>0, <1>3, <2>2 DEF MainPush, PushTask
  <2>4. QED
    BY <1>3, <2>3, WorkersUnchanged DEF MainPush
<1>4. CASE Scan
  <2>a. scanAt \in Nat /\ scanAt >= 1 /\ Len(m_vec_workingThreads) \in Nat
    BY <1>0, <1>4 DEF Scan
  <2>b. \/ mainPc' = "loop" /\ scanAt' = 0
        \/ mainPc' = "scan" /\ scanAt' = scanAt + 1
        \/ mainPc' = "fire" /\ scanAt' = scanAt /\ scanAt <= Len(m_vec_workingThreads)
    BY <1>4 DEF Scan
  <2>c. UNCHANGED <<m_list_tasks, taskVars, nodeVars, poolVars, workVars,
                    eventVars, pushing>>
    BY <1>4 DEF Scan
  <2>d. mainPc' \in {"loop", "push", "scan", "fire"} /\ scanAt' \in Nat /\ MainInv'
    BY <2>a, <2>b, <2>c
  <2>1. TypeOK' /\ MainInv'
    BY <1>0, <2>c, <2>d
  <2>2. QED
    BY <1>4, <2>1, WorkersUnchanged DEF Scan
<1>5. CASE Fire
  <2>1. m_vec_workingThreads[scanAt] \in Workers
    BY <1>0, <1>5, ElementOfSeq DEF Fire
  <2>2. mailbox' \in [Workers -> Seq({"fetch", "stop"})]
    BY <1>0, <1>5, <2>1, OnFinishedTaskType DEF Fire
  <2>3. TypeOK' /\ MainInv'
    BY <1>0, <1>5, <2>2 DEF Fire
  <2>4. QED
    BY <1>5, <2>3, WorkersUnchanged DEF Fire
<1>6. CASE HandleFinished
  <2>1. Head(finished) \in Workers /\ Tail(finished) \in Seq(Workers)
    BY <1>0, <1>6, HeadTailProperties DEF HandleFinished
  <2>2. mailbox' \in [Workers -> Seq({"fetch", "stop"})]
    BY <1>0, <1>6, <2>1, OnFinishedTaskType DEF HandleFinished
  <2>3. TypeOK' /\ MainInv'
    BY <1>0, <1>6, <2>1, <2>2 DEF HandleFinished
  <2>4. QED
    BY <1>6, <2>3, WorkersUnchanged DEF HandleFinished
<1>7. ASSUME NEW n \in 1..MaxWorkers, AddThreads(n) PROVE IInv'
  <2>1. n \in 1..(MaxWorkers - created) /\ created \in 0..MaxWorkers
    BY <1>0, <1>7 DEF AddThreads
  <2>2. \A i \in 1..n : created + i \in Workers
    BY <2>1 DEF Workers
  <2>3. [i \in 1..n |-> created + i] \in Seq(Workers)
    BY <2>1, <2>2, IsASeq
  <2>4. m_vec_workingThreads' \in Seq(Workers)
    BY <1>0, <1>7, <2>3, ConcatProperties DEF AddThreads
  <2>5. created' \in 0..MaxWorkers /\ m_nExistingThreads' \in Int
    BY <1>0, <1>7, <2>1 DEF AddThreads
  <2>6. TypeOK' /\ MainInv'
    BY <1>0, <1>7, <2>4, <2>5 DEF AddThreads
  <2>7. QED
    BY <1>7, <2>6, WorkersUnchanged DEF AddThreads
<1>8. ASSUME NEW n \in -1..MaxWorkers, RemoveThreads(n) PROVE IInv'
  <2>1. Len(m_vec_workingThreads) - RemoveCount(n) \in 0..Len(m_vec_workingThreads)
    BY <1>0, <1>8 DEF RemoveThreads, RemoveCount
  <2>2. \A i \in 1..(Len(m_vec_workingThreads) - RemoveCount(n)) :
          m_vec_workingThreads[i] \in Workers
    BY <1>0, <2>1, ElementOfSeq
  <2>3. m_vec_workingThreads' \in Seq(Workers)
    BY <1>8, <2>1, <2>2, SubSeqProperties DEF RemoveThreads
  <2>4. \A w \in Workers : Append(mailbox[w], "stop") \in Seq({"fetch", "stop"})
    BY <1>0
  <2>5. mailbox' \in [Workers -> Seq({"fetch", "stop"})]
    BY <1>0, <1>8, <2>4 DEF RemoveThreads
  <2>6. TypeOK' /\ MainInv'
    BY <1>0, <1>8, <2>3, <2>5 DEF RemoveThreads
  <2>7. QED
    BY <1>8, <2>6, WorkersUnchanged DEF RemoveThreads
<1>9. QED
  BY <1>1, <1>2, <1>3, <1>4, <1>5, <1>6, <1>7, <1>8 DEF MainStep, Arrival, Resize

LEMMA StepIInv == IInv /\ [Next]_vars => IInv'
<1> SUFFICES ASSUME IInv, [Next]_vars PROVE IInv'
  OBVIOUS
<1>1. CASE UNCHANGED vars
  BY <1>1 DEF vars, taskVars, nodeVars, poolVars, workVars, eventVars, mainVars,
              IInv, TypeOK, HeldInv, LockInv, DealInv, LoopInv, MainInv
<1>2. QED
  BY <1>1, WorkerIInv, MainIInv DEF Next

\* The inductive invariant holds in every reachable state.
THEOREM IInvCorrect == Spec => []IInv
<1>1. QED
  BY InitIInv, StepIInv, PTL DEF Spec

\* Every variable keeps its type; in particular run() never takes a block from
\* an empty list and pushTask never indexes past the thread vector.
THEOREM TypeCorrect == Spec => []TypeOK
<1>1. IInv => TypeOK
  BY DEF IInv
<1>2. QED
  BY <1>1, IInvCorrect, PTL

\* Two workers are never inside run() of one node.
THEOREM RunExclusiveCorrect == Spec => []RunExclusive
<1>1. IInv => RunExclusive
  BY DEF IInv, LockInv, RunExclusive
<1>2. QED
  BY <1>1, IInvCorrect, PTL

-----------------------------------------------------------------------------
(* The owner of a run lock, and received data that is not forgotten.       *)

\* Positions from LockRun to UnlockRun.
Owning == Running \cup {"delref", "repush", "unlock"}

\* The run lock of a task belongs to a worker that is on its way through it.
OwnerInv ==
  \A t \in Tasks, w \in Workers :
    m_mutex_run[t] = w => held[w] = t /\ pc[w] \in Owning

DInv == IInv /\ OwnerInv

-----------------------------------------------------------------------------
(* The owner of a run lock.                                                *)

LEMMA WorkerOwner ==
  ASSUME DInv, NEW v \in Workers, Worker(v)
  PROVE  OwnerInv'
<1> SUFFICES ASSUME NEW t \in Tasks, NEW w \in Workers, m_mutex_run'[t] = w
             PROVE  held'[w] = t /\ pc'[w] \in Owning
  BY DEF OwnerInv
<1> USE DEF DInv, IInv, TypeOK, Owning, Running, Goto, OwnerInv,
        taskVars, nodeVars, poolVars, workVars, eventVars, mainVars
<1>0. v # NoWorker /\ w # NoWorker
  BY DEF Workers, NoWorker
<1>1. CASE SetStopMark(v) \/ QuitThread(v) \/ FetchNewTask(v)
  BY <1>1 DEF SetStopMark, QuitThread, OnlyPc, FetchNewTask
<1>2. CASE SetBusy(v)
  BY <1>2 DEF SetBusy
<1>3. CASE LockRun(v)
  <2>1. held[v] \in Tasks
    BY <1>3 DEF LockRun, HeldInv
  <2>2. CASE m_mutex_run[held[v]] = NoWorker
    <3>1. /\ m_mutex_run' = [m_mutex_run EXCEPT ![held[v]] = v]
          /\ pc' = [pc EXCEPT ![v] = "run"] /\ held' = held
      BY <1>3, <2>2 DEF LockRun
    <3>2. CASE t = held[v]
      BY <2>1, <3>1, <3>2
    <3>3. CASE t # held[v]
      <4>1. m_mutex_run[t] = w
        BY <2>1, <3>1, <3>3
      <4>2. held[w] = t /\ pc[w] \in Owning
        BY <4>1
      <4>3. QED
        BY <3>1, <3>3, <4>2
    <3>4. QED
      BY <3>2, <3>3
  <2>3. CASE m_mutex_run[held[v]] # NoWorker
    BY <1>3, <2>3 DEF LockRun
  <2>4. QED
    BY <2>2, <2>3
<1>4. CASE RunStep(v)
  <2>1. held' = held /\ m_mutex_run' = m_mutex_run
    BY <1>4 DEF RunStep, RunEntry, Peek, FilterMessage, PopEmpty, ReadSize,
                FinalSize, OnlyPc
  <2>2. \E label \in Owning : pc' = [pc EXCEPT ![v] = label]
    BY <1>4 DEF RunStep, RunEntry, Peek, FilterMessage, PopEmpty, ReadSize,
                FinalSize, OnlyPc
  <2>3. QED
    BY <2>1, <2>2
<1>5. CASE DelRef(v)
  BY <1>5 DEF DelRef
<1>6. CASE RePush(v)
  BY <1>6 DEF RePush, PushTask, Owns
<1>7. CASE UnlockRun(v)
  <2>1. held[v] \in Tasks
    BY <1>7 DEF UnlockRun, HeldInv
  <2>2. QED
    BY <1>0, <1>7, <2>1 DEF UnlockRun
<1>8. CASE Finish(v)
  BY <1>8 DEF Finish
<1>9. QED
  BY <1>1, <1>2, <1>3, <1>4, <1>5, <1>6, <1>7, <1>8 DEF Worker

\* The main thread neither runs nor locks anything.
LEMMA MainFrame ==
  ASSUME MainStep \/ Arrival \/ Resize
  PROVE  UNCHANGED <<workVars, m_mutex_run>>
BY DEF MainStep, Arrival, Resize, MainPush, Scan, Fire, HandleFinished,
       DataReceived, Terminate, AddThreads, RemoveThreads, taskVars, workVars

LEMMA StepDInv == DInv /\ [Next]_vars => DInv'
<1> SUFFICES ASSUME DInv, [Next]_vars PROVE OwnerInv'
  BY StepIInv DEF DInv
<1>1. CASE UNCHANGED vars
  BY <1>1 DEF DInv, OwnerInv, vars, taskVars, workVars
<1>2. CASE \E w \in Workers : Worker(w)
  BY <1>2, WorkerOwner
<1>3. CASE MainStep \/ Arrival \/ Resize
  BY <1>3, MainFrame DEF DInv, OwnerInv, workVars
<1>4. QED
  BY <1>1, <1>2, <1>3 DEF Next

LEMMA InitDInv == Init => DInv
BY InitIInv DEF DInv, OwnerInv, Init, Workers, NoWorker
-----------------------------------------------------------------------------
(* No received data is forgotten.  A node with unread blocks is kept by    *)
(* the queue, by the main thread on its way to queue it, or by a worker;   *)
(* each step either leaves the keeper alone or hands the node to another.  *)

Queued(t) == \E i \in 1..Len(m_list_tasks) : m_list_tasks[i] = t
ToBePushed(t) == mainPc = "push" /\ pushing = t
KeptBy(w, t) == held[w] = t /\ WillReturn(w)
Kept(t) == Queued(t) \/ ToBePushed(t) \/ \E w \in Workers : KeptBy(w, t)

Waiting(t) == m_list_RawData[t] # <<>> /\ ~bTermSet[t]

KeptInv == \A t \in Tasks : Waiting(t) => Kept(t)

\* What a step of worker v does to the other workers: nothing, the ownership of
\* the tasks they hold included.
LEMMA OthersKeep ==
  ASSUME DInv, NEW v \in Workers, Worker(v), NEW w \in Workers, w # v,
         NEW t \in Tasks, KeptBy(w, t)
  PROVE  KeptBy(w, t)'
<1> USE DEF DInv, IInv, TypeOK, Goto,
        taskVars, nodeVars, poolVars, workVars, eventVars, mainVars
<1>1. held'[w] = held[w] /\ pc'[w] = pc[w] /\ res'[w] = res[w]
  <2>1. CASE SetStopMark(v) \/ QuitThread(v) \/ FetchNewTask(v) \/ SetBusy(v) \/ LockRun(v)
    BY <2>1 DEF SetStopMark, QuitThread, OnlyPc, FetchNewTask, SetBusy, LockRun
  <2>2. CASE RunStep(v)
    BY <2>2 DEF RunStep, RunEntry, Peek, FilterMessage, PopEmpty, ReadSize,
                FinalSize, OnlyPc
  <2>3. CASE DelRef(v) \/ RePush(v) \/ UnlockRun(v) \/ Finish(v)
    BY <2>3 DEF DelRef, RePush, UnlockRun, Finish
  <2>4. QED
    BY <2>1, <2>2, <2>3 DEF Worker
<1>2. (m_mutex_run[t] = w) <=> (m_mutex_run'[t] = w)
  <2>0. v # NoWorker /\ w # NoWorker
    BY DEF Workers, NoWorker
  <2>1. CASE LockRun(v)
    <3>1. held[v] \in Tasks
      BY <2>1 DEF LockRun, HeldInv
    <3>2. QED
      BY <2>0, <2>1, <3>1 DEF LockRun
  <2>2. CASE UnlockRun(v)
    <3>1. held[v] \in Tasks /\ m_mutex_run[held[v]] = v
      BY <2>2 DEF UnlockRun, HeldInv, LockInv
    <3>2. QED
      BY <2>0, <2>2, <3>1 DEF UnlockRun
  <2>3. CASE ~LockRun(v) /\ ~UnlockRun(v)
    BY <2>3 DEF Worker, RunStep, SetStopMark, QuitThread, FetchNewTask, SetBusy, RunEntry,
                Peek, FilterMessage, PopEmpty, ReadSize, FinalSize, OnlyPc,
                DelRef, RePush, Finish
  <2>4. QED
    BY <2>1, <2>2, <2>3
<1>3. QED
  BY <1>1, <1>2 DEF KeptBy, WillReturn, MustRepush, Owns

\* A worker's step does not make a node's list longer or clear its mark.
LEMMA WorkerWaiting ==
  ASSUME DInv, NEW v \in Workers, Worker(v), NEW t \in Tasks, Waiting(t)'
  PROVE  Waiting(t)
<1> USE DEF Waiting, taskVars, nodeVars, poolVars, workVars, eventVars, mainVars
<1>1. CASE FilterMessage(v)
  <2>1. held[v] \in Tasks /\ m_list_RawData[held[v]] # <<>>
    BY <1>1 DEF FilterMessage, DInv, IInv, HeldInv, DealInv
  <2>2. QED
    BY <1>1, <2>1 DEF FilterMessage, DInv, IInv, TypeOK
<1>2. CASE PopEmpty(v)
  <2>1. held[v] \in Tasks
    BY <1>2 DEF PopEmpty, DInv, IInv, HeldInv
  <2>2. QED
    BY <1>2, <2>1 DEF PopEmpty, DInv, IInv, TypeOK
<1>3. CASE ~FilterMessage(v) /\ ~PopEmpty(v)
  BY <1>3 DEF Worker, RunStep, SetStopMark, QuitThread, FetchNewTask, SetBusy, LockRun,
              RunEntry, Peek, ReadSize, FinalSize, OnlyPc, DelRef, RePush,
              UnlockRun, Finish
<1>4. QED
  BY <1>1, <1>2, <1>3

\* Tasks leave the queue by popTask only.
LEMMA WorkerQueued ==
  ASSUME DInv, NEW v \in Workers, Worker(v), NEW t \in Tasks, Queued(t)
  PROVE  Queued(t)' \/ KeptBy(v, t)'
<1> USE DEF DInv, IInv, TypeOK, Queued
<1> PICK i \in 1..Len(m_list_tasks) : m_list_tasks[i] = t
  OBVIOUS
<1>1. CASE FetchNewTask(v)
  <2>1. m_list_tasks # <<>>
    OBVIOUS
  <2>2. /\ m_list_tasks' = Tail(m_list_tasks)
        /\ held' = [held EXCEPT ![v] = Head(m_list_tasks)]
        /\ pc' = [pc EXCEPT ![v] = "popped"]
    BY <1>1, <2>1 DEF FetchNewTask, Goto
  <2>3. CASE i = 1
    <3>1. Head(m_list_tasks) = t
      BY <2>3
    <3>2. QED
      BY <2>2, <3>1 DEF KeptBy, WillReturn
  <2>4. CASE i # 1
    <3>1. i - 1 \in 1..Len(Tail(m_list_tasks)) /\ Tail(m_list_tasks)[i - 1] = t
      BY <2>1, <2>4, HeadTailProperties
    <3>2. QED
      BY <2>2, <3>1
  <2>5. QED
    BY <2>3, <2>4
<1>2. CASE RePush(v)
  <2>1. held[v] \in Tasks
    BY <1>2 DEF RePush, HeldInv
  <2>2. m_list_tasks' = Append(m_list_tasks, held[v])
    BY <1>2 DEF RePush, PushTask
  <2>3. i \in 1..Len(m_list_tasks') /\ m_list_tasks'[i] = t
    BY <2>1, <2>2, AppendProperties
  <2>4. QED
    BY <2>3
<1>3. CASE ~FetchNewTask(v) /\ ~RePush(v)
  <2>1. m_list_tasks' = m_list_tasks
    BY <1>3 DEF Worker, RunStep, SetStopMark, QuitThread, SetBusy, LockRun, RunEntry, Peek,
                FilterMessage, PopEmpty, ReadSize, FinalSize, OnlyPc, DelRef,
                UnlockRun, Finish
  <2>2. QED
    BY <2>1
<1>4. QED
  BY <1>1, <1>2, <1>3

\* The worker that keeps a waiting node goes on keeping it or queues it.
LEMMA KeeperKeeps ==
  ASSUME DInv, NEW v \in Workers, Worker(v), NEW t \in Tasks, KeptBy(v, t),
         Waiting(t)'
  PROVE  Queued(t)' \/ KeptBy(v, t)'
<1> USE DEF DInv, IInv, TypeOK, KeptBy, WillReturn, Running, Goto
<1>0. Waiting(t)
  BY WorkerWaiting
<1>1. CASE SetStopMark(v) \/ QuitThread(v) \/ FetchNewTask(v) \/ UnlockRun(v) \/ Finish(v)
  BY <1>1 DEF SetStopMark, QuitThread, FetchNewTask, UnlockRun, Finish
<1>2. CASE SetBusy(v)
  BY <1>2 DEF SetBusy
<1>3. CASE LockRun(v)
  <2>1. CASE m_mutex_run[held[v]] = NoWorker
    BY <1>3, <2>1 DEF LockRun
  <2>2. CASE m_mutex_run[held[v]] # NoWorker
    <3>1. m_mutex_run[held[v]] # v
      BY <1>3 DEF LockRun, OwnerInv, Owning
    <3>2. QED
      BY <1>3, <2>2, <3>1 DEF LockRun, MustRepush, Owns
  <2>3. QED
    BY <2>1, <2>2
<1>4. CASE RunEntry(v)
  BY <1>0, <1>4 DEF RunEntry, Waiting
<1>5. CASE Peek(v) \/ FilterMessage(v) \/ PopEmpty(v) \/ ReadSize(v)
  BY <1>5 DEF Peek, FilterMessage, PopEmpty, ReadSize, OnlyPc
<1>6. CASE FinalSize(v)
  BY <1>0, <1>6 DEF FinalSize, Waiting, MustRepush
<1>7. CASE DelRef(v)
  BY <1>7 DEF DelRef, MustRepush, Owns
<1>8. CASE RePush(v)
  <2>1. m_list_tasks' = Append(m_list_tasks, t)
    BY <1>8 DEF RePush, PushTask
  <2>2. Len(m_list_tasks') \in Nat \ {0} /\ m_list_tasks'[Len(m_list_tasks')] = t
    BY <2>1, AppendProperties
  <2>3. QED
    BY <2>2 DEF Queued
<1>9. QED
  BY <1>1, <1>2, <1>3, <1>4, <1>5, <1>6, <1>7, <1>8 DEF Worker, RunStep

LEMMA WorkerKept ==
  ASSUME DInv, KeptInv, NEW v \in Workers, Worker(v)
  PROVE  KeptInv'
<1> SUFFICES ASSUME NEW t \in Tasks, Waiting(t)' PROVE Kept(t)'
  BY DEF KeptInv
<1>1. Kept(t)
  BY WorkerWaiting DEF KeptInv
<1>2. CASE Queued(t)
  BY <1>2, WorkerQueued DEF Kept
<1>3. CASE ToBePushed(t)
  <2>1. UNCHANGED mainVars
    BY DEF Worker, RunStep, SetStopMark, QuitThread, FetchNewTask, SetBusy, LockRun,
           RunEntry, Peek, FilterMessage, PopEmpty, ReadSize, FinalSize, OnlyPc,
           DelRef, RePush, UnlockRun, Finish
  <2>2. QED
    BY <1>3, <2>1 DEF Kept, ToBePushed, mainVars
<1>4. CASE \E w \in Workers : KeptBy(w, t)
  <2> PICK w \in Workers : KeptBy(w, t)
    BY <1>4
  <2>1. CASE w = v
    BY <2>1, KeeperKeeps DEF Kept
  <2>2. CASE w # v
    BY <2>2, OthersKeep DEF Kept
  <2>3. QED
    BY <2>1, <2>2
<1>5. QED
  BY <1>1, <1>2, <1>3, <1>4 DEF Kept
LEMMA MainKept ==
  ASSUME DInv, KeptInv, MainStep \/ Arrival \/ Resize
  PROVE  KeptInv'
<1> SUFFICES ASSUME NEW t \in Tasks, Waiting(t)' PROVE Kept(t)'
  BY DEF KeptInv
<1> USE DEF DInv, IInv, TypeOK,
        taskVars, nodeVars, poolVars, workVars, eventVars, mainVars
<1>0. \A w \in Workers : KeptBy(w, t) => KeptBy(w, t)'
  BY MainFrame DEF KeptBy, WillReturn, MustRepush, Owns
<1>1. CASE \E s \in Tasks : DataReceived(s)
  <2> PICK s \in Tasks : DataReceived(s)
    BY <1>1
  <2>1. CASE m_list_RawData[s] = <<>> /\ s = t
    BY <2>1 DEF DataReceived, Kept, ToBePushed
  <2>2. CASE ~(m_list_RawData[s] = <<>> /\ s = t)
    <3>1. Waiting(t)
      BY <2>2 DEF DataReceived, Waiting
    <3>2. Queued(t) \/ \E w \in Workers : KeptBy(w, t)
      BY <3>1 DEF KeptInv, Kept, ToBePushed, DataReceived
    <3>3. Queued(t) => Queued(t)'
      BY DEF Queued, DataReceived
    <3>4. QED
      BY <1>0, <3>2, <3>3 DEF Kept
  <2>3. QED
    BY <2>1, <2>2
<1>2. CASE ~\E s \in Tasks : DataReceived(s)
  <2>1. Waiting(t)
    BY <1>2 DEF MainStep, Arrival, Resize, MainPush, Scan, Fire, HandleFinished,
                Terminate, AddThreads, RemoveThreads, Waiting
  <2>2. Kept(t)
    BY <2>1 DEF KeptInv
  <2>3. CASE MainPush
    <3>1. pushing \in Tasks
      BY <2>3 DEF MainPush, MainInv
    <3>2. m_list_tasks' = Append(m_list_tasks, pushing)
      BY <2>3 DEF MainPush, PushTask
    <3>3. Len(m_list_tasks') = Len(m_list_tasks) + 1 /\ Len(m_list_tasks) \in Nat
      BY <3>1, <3>2, AppendProperties
    <3>4. ToBePushed(t) => Queued(t)'
      <4>1. m_list_tasks'[Len(m_list_tasks) + 1] = pushing
        BY <3>1, <3>2, AppendProperties
      <4>2. Len(m_list_tasks) + 1 \in 1..Len(m_list_tasks')
        BY <3>3
      <4>3. QED
        BY <4>1, <4>2 DEF ToBePushed, Queued
    <3>5. Queued(t) => Queued(t)'
      <4>1. \A i \in 1..Len(m_list_tasks) : m_list_tasks'[i] = m_list_tasks[i]
        BY <3>1, <3>2, AppendProperties
      <4>2. \A i \in 1..Len(m_list_tasks) : i \in 1..Len(m_list_tasks')
        BY <3>3
      <4>3. QED
        BY <4>1, <4>2, Zenon DEF Queued
    <3>6. QED
      BY <1>0, <2>2, <3>4, <3>5 DEF Kept
  <2>4. CASE ~MainPush
    <3>1. m_list_tasks' = m_list_tasks /\ mainPc # "push"
      BY <1>2, <2>4 DEF MainStep, Arrival, Resize, Scan, Fire, HandleFinished,
                        Terminate, AddThreads, RemoveThreads
    <3>2. Queued(t) => Queued(t)'
      BY <3>1 DEF Queued
    <3>3. QED
      BY <1>0, <2>2, <3>1, <3>2 DEF Kept, ToBePushed
  <2>5. QED
    BY <2>3, <2>4
<1>3. QED
  BY <1>1, <1>2

LEMMA StepKept == DInv /\ KeptInv /\ [Next]_vars => KeptInv'
<1> SUFFICES ASSUME DInv, KeptInv, [Next]_vars PROVE KeptInv'
  OBVIOUS
<1>1. CASE UNCHANGED vars
  BY <1>1 DEF KeptInv, Waiting, Kept, Queued, ToBePushed, KeptBy, WillReturn,
              MustRepush, Owns, vars, taskVars, nodeVars, workVars, mainVars
<1>2. CASE \E w \in Workers : Worker(w)
  BY <1>2, WorkerKept
<1>3. CASE MainStep \/ Arrival \/ Resize
  BY <1>3, MainKept
<1>4. QED
  BY <1>1, <1>2, <1>3 DEF Next

\* A live node with unread blocks is always queued, about to be queued or kept
\* by a worker that will come back to it: push_new_data's "push only when the
\* list was empty" and run()'s return value never lose a node between them.
THEOREM NoForgottenDataCorrect == Spec => []NoForgottenData
<1>1. Init => KeptInv
  BY DEF Init, KeptInv, Waiting
<1>2. KeptInv => NoForgottenData
  BY DEF KeptInv, NoForgottenData, Waiting, Kept, Queued, ToBePushed, KeptBy
<1>3. QED
  BY <1>1, <1>2, InitDInv, StepDInv, StepKept, PTL DEF Spec

-----------------------------------------------------------------------------
(* The abstract delivery keeps the order of arrival, whatever implements   *)
(* it: these steps use its definitions only.                               *)

DeliveryInv == Delivery!TypeOK /\ Delivery!InboxInv

LEMMA DeliveryInitInv == Delivery!Init => DeliveryInv
BY DEF Delivery!Init, DeliveryInv, Delivery!TypeOK, Delivery!InboxInv, Delivery!InboxOf

\* Taking the first block keeps the inbox the most recent blocks; the block
\* taken is newer than the last one dealt with.
LEMMA TakeFirst ==
  ASSUME DeliveryInv, NEW t \in Tasks, m_list_RawData[t] # <<>>
  PROVE  /\ Tail(m_list_RawData[t]) \in Seq(Nat)
         /\ Len(Tail(m_list_RawData[t])) = Len(m_list_RawData[t]) - 1
         /\ \A i \in 1..Len(Tail(m_list_RawData[t])) : Tail(m_list_RawData[t])[i] = m_list_RawData[t][i + 1]
         /\ Head(m_list_RawData[t]) = rcvd[t] - Len(m_list_RawData[t]) + 1
         /\ Head(m_list_RawData[t]) \in Nat
         /\ Head(m_list_RawData[t]) > dealt[t]
<1>1. m_list_RawData[t] \in Seq(Nat) /\ rcvd[t] \in Nat /\ dealt[t] \in Nat
  BY DEF DeliveryInv, Delivery!TypeOK
<1>2. Len(m_list_RawData[t]) \in Nat \ {0}
  BY <1>1, EmptySeq
<1>3. Head(m_list_RawData[t]) = m_list_RawData[t][1] /\ Head(m_list_RawData[t]) \in Nat
  BY <1>1, <1>2, HeadTailProperties
<1>4. m_list_RawData[t][1] = rcvd[t] - Len(m_list_RawData[t]) + 1 /\ dealt[t] + Len(m_list_RawData[t]) <= rcvd[t]
  BY <1>2 DEF DeliveryInv, Delivery!InboxInv, Delivery!InboxOf
<1>5. QED
  BY <1>1, <1>2, <1>3, <1>4, HeadTailProperties

LEMMA DeliveryStepInv == DeliveryInv /\ [Delivery!Next]_Delivery!vars => DeliveryInv'
<1> SUFFICES ASSUME DeliveryInv, [Delivery!Next]_Delivery!vars PROVE DeliveryInv'
  OBVIOUS
<1> USE DEF DeliveryInv, Delivery!TypeOK, Delivery!InboxInv, Delivery!InboxOf
<1>1. CASE UNCHANGED Delivery!vars
  BY <1>1 DEF Delivery!vars
<1>2. ASSUME NEW t \in Tasks, Delivery!Receive(t) PROVE DeliveryInv'
  <2>1. m_list_RawData[t] \in Seq(Nat) /\ rcvd[t] \in Nat /\ rcvd[t] + 1 \in Nat
    OBVIOUS
  <2>2. /\ Append(m_list_RawData[t], rcvd[t] + 1) \in Seq(Nat)
        /\ Len(Append(m_list_RawData[t], rcvd[t] + 1)) = Len(m_list_RawData[t]) + 1
        /\ \A i \in 1..Len(m_list_RawData[t]) : Append(m_list_RawData[t], rcvd[t] + 1)[i] = m_list_RawData[t][i]
        /\ Append(m_list_RawData[t], rcvd[t] + 1)[Len(m_list_RawData[t]) + 1] = rcvd[t] + 1
    BY <2>1
  <2>3. Delivery!TypeOK'
    BY <1>2, <2>1, <2>2 DEF Delivery!Receive
  <2>4. ASSUME NEW s \in Tasks
        PROVE  Delivery!InboxOf(s)'
    <3>1. CASE s = t
      <4>1. /\ m_list_RawData'[t] = Append(m_list_RawData[t], rcvd[t] + 1)
            /\ rcvd'[t] = rcvd[t] + 1 /\ dealt' = dealt
        BY <1>2 DEF Delivery!Receive
      <4>2. dealt[t] + Len(m_list_RawData[t]) <= rcvd[t] /\ dealt[t] \in Nat /\ Len(m_list_RawData[t]) \in Nat
        BY <2>1
      <4>3. ASSUME NEW i \in 1..Len(m_list_RawData'[t])
            PROVE  m_list_RawData'[t][i] = rcvd'[t] - Len(m_list_RawData'[t]) + i
        <5>1. CASE i \in 1..Len(m_list_RawData[t])
          <6>1. m_list_RawData[t][i] = rcvd[t] - Len(m_list_RawData[t]) + i
            BY <5>1
          <6>2. m_list_RawData'[t][i] = m_list_RawData[t][i]
            BY <2>2, <4>1, <5>1
          <6>3. QED
            BY <2>1, <2>2, <4>1, <4>2, <6>1, <6>2
        <5>2. CASE i = Len(m_list_RawData[t]) + 1
          BY <2>1, <2>2, <4>1, <4>2, <5>2
        <5>3. QED
          BY <2>2, <4>1, <4>2, <5>1, <5>2
      <4>4. dealt'[t] + Len(m_list_RawData'[t]) <= rcvd'[t]
        BY <2>1, <2>2, <4>1, <4>2
      <4>5. QED
        BY <3>1, <4>3, <4>4
    <3>2. CASE s # t
      BY <1>2, <3>2 DEF Delivery!Receive
    <3>3. QED
      BY <3>1, <3>2
  <2>5. QED
    BY <2>3, <2>4
<1>3. ASSUME NEW t \in Tasks, Delivery!End(t) PROVE DeliveryInv'
  BY <1>3 DEF Delivery!End
<1>4. ASSUME NEW t \in Tasks, Delivery!Deal(t) \/ Delivery!Discard(t)
      PROVE  DeliveryInv'
  <2>1. m_list_RawData[t] # <<>>
    BY <1>4 DEF Delivery!Deal, Delivery!Discard
  <2>2. Delivery!TypeOK'
    BY <1>4, <2>1, TakeFirst DEF Delivery!Deal, Delivery!Discard
  <2>3. Delivery!InboxOf(t)'
    <3> DEFINE rest == Tail(m_list_RawData[t])
    <3>1. /\ m_list_RawData'[t] = rest /\ rcvd' = rcvd
          /\ dealt'[t] \in {dealt[t], Head(m_list_RawData[t])}
      BY <1>4 DEF Delivery!Deal, Delivery!Discard
    <3>2. /\ Len(rest) = Len(m_list_RawData[t]) - 1 /\ Len(m_list_RawData[t]) \in Nat \ {0}
          /\ \A i \in 1..Len(rest) : rest[i] = m_list_RawData[t][i + 1]
          /\ Head(m_list_RawData[t]) = rcvd[t] - Len(m_list_RawData[t]) + 1
      BY <2>1, TakeFirst, EmptySeq
    <3>3. rcvd[t] \in Nat /\ dealt[t] \in Nat /\ dealt[t] + Len(m_list_RawData[t]) <= rcvd[t]
      OBVIOUS
    <3>4. dealt'[t] + Len(rest) <= rcvd[t]
      BY <3>1, <3>2, <3>3
    <3>5. ASSUME NEW i \in 1..Len(rest) PROVE rest[i] = rcvd[t] - Len(rest) + i
      <4>1. i + 1 \in 1..Len(m_list_RawData[t])
        BY <3>2
      <4>2. m_list_RawData[t][i + 1] = rcvd[t] - Len(m_list_RawData[t]) + (i + 1)
        BY <4>1
      <4>3. QED
        BY <3>2, <3>3, <4>2
    <3>6. QED
      BY <3>1, <3>4, <3>5
  <2>4. ASSUME NEW s \in Tasks, s # t PROVE Delivery!InboxOf(s)'
    BY <1>4, <2>4 DEF Delivery!Deal, Delivery!Discard
  <2>5. QED
    BY <2>2, <2>3, <2>4
<1>5. ASSUME NEW t \in Tasks, NEW w \in Workers, Delivery!Begin(t, w)
      PROVE  DeliveryInv'
  BY <1>5 DEF Delivery!Begin
<1>6. QED
  BY <1>1, <1>2, <1>3, <1>4, <1>5 DEF Delivery!Next

\* The inbox is always the run of the most recent blocks (the invariant on
\* which the order of delivery rests).
THEOREM InboxCorrect == Delivery!Spec => []DeliveryInv
<1>1. QED
  BY DeliveryInitInv, DeliveryStepInv, PTL DEF Delivery!Spec

\* A step deals with a block newer than the last one dealt with, or with none.
LEMMA DeliveryInOrderStep ==
  ASSUME DeliveryInv, [Delivery!Next]_Delivery!vars
  PROVE  \A t \in Tasks : dealt'[t] # dealt[t] => dealt'[t] > dealt[t]
<1>1. ASSUME NEW s \in Tasks, Delivery!Deal(s)
      PROVE  \A t \in Tasks : dealt'[t] # dealt[t] => dealt'[t] > dealt[t]
  BY <1>1, TakeFirst DEF Delivery!Deal, DeliveryInv, Delivery!TypeOK
<1>2. QED
  BY <1>1 DEF Delivery!Next, Delivery!Receive, Delivery!Begin, Delivery!End,
              Delivery!Discard, Delivery!vars

\* Blocks are dealt with in the order of arrival and none twice.
THEOREM InOrderCorrect == Delivery!Spec => Delivery!InOrder
<1>1. DeliveryInv /\ [Delivery!Next]_Delivery!vars
        => [\A t \in Tasks : dealt'[t] # dealt[t] => dealt'[t] > dealt[t]]_Delivery!vars
  BY DeliveryInOrderStep
<1>2. QED
  BY <1>1, InboxCorrect, PTL DEF Delivery!Spec, Delivery!InOrder

-----------------------------------------------------------------------------
(* The engine implements SerialDelivery.                                   *)

LEMMA WorkerDelivers ==
  ASSUME DInv, NEW v \in Workers, Worker(v)
  PROVE  [Delivery!Next]_Delivery!vars
<1> DEFINE t == held[v]
<1> USE DEF DInv, IInv, TypeOK, Delivery!Next, Delivery!vars,
        taskVars, nodeVars, poolVars, workVars, eventVars, mainVars
<1>0. v # NoWorker
  BY DEF Workers, NoWorker
<1>1. CASE LockRun(v)
  <2>1. t \in Tasks
    BY <1>1 DEF LockRun, HeldInv
  <2>2. CASE m_mutex_run[t] = NoWorker
    <3>1. Delivery!Begin(t, v)
      BY <1>1, <2>2 DEF LockRun, Delivery!Begin
    <3>2. QED
      BY <2>1, <3>1
  <2>3. CASE m_mutex_run[t] # NoWorker
    BY <1>1, <2>3 DEF LockRun
  <2>4. QED
    BY <2>2, <2>3
<1>2. CASE FilterMessage(v)
  <2>1. t \in Tasks /\ m_mutex_run[t] = v /\ m_list_RawData[t] # <<>>
    BY <1>2 DEF FilterMessage, HeldInv, LockInv, DealInv, Running
  <2>2. Delivery!Deal(t)
    BY <1>0, <1>2, <2>1 DEF FilterMessage, Delivery!Deal
  <2>3. QED
    BY <2>1, <2>2
<1>3. CASE PopEmpty(v)
  <2>1. t \in Tasks /\ m_mutex_run[t] = v
    BY <1>3 DEF PopEmpty, HeldInv, LockInv, Running
  <2>2. CASE m_list_RawData[t] = <<>>
    BY <1>3, <2>1, <2>2 DEF PopEmpty
  <2>3. CASE m_list_RawData[t] # <<>>
    <3>1. Delivery!Discard(t)
      BY <1>0, <1>3, <2>1, <2>3 DEF PopEmpty, Delivery!Discard
    <3>2. QED
      BY <2>1, <3>1
  <2>4. QED
    BY <2>2, <2>3
<1>4. CASE UnlockRun(v)
  <2>1. t \in Tasks /\ m_mutex_run[t] = v
    BY <1>4 DEF UnlockRun, HeldInv, LockInv
  <2>2. Delivery!End(t)
    BY <1>0, <1>4, <2>1 DEF UnlockRun, Delivery!End
  <2>3. QED
    BY <2>1, <2>2
<1>5. CASE ~(LockRun(v) \/ FilterMessage(v) \/ PopEmpty(v) \/ UnlockRun(v))
  BY <1>5 DEF Worker, RunStep, SetStopMark, QuitThread, FetchNewTask, SetBusy, RunEntry,
              Peek, ReadSize, FinalSize, OnlyPc, DelRef, RePush, Finish
<1>6. QED
  BY <1>1, <1>2, <1>3, <1>4, <1>5

LEMMA StepDelivers == DInv /\ [Next]_vars => [Delivery!Next]_Delivery!vars
<1> SUFFICES ASSUME DInv, [Next]_vars PROVE [Delivery!Next]_Delivery!vars
  OBVIOUS
<1>1. CASE UNCHANGED vars
  BY <1>1 DEF Delivery!vars, vars, taskVars, nodeVars
<1>2. CASE \E w \in Workers : Worker(w)
  BY <1>2, WorkerDelivers
<1>3. CASE \E t \in Tasks : DataReceived(t)
  BY <1>3 DEF DataReceived, Delivery!Next, Delivery!Receive, taskVars
<1>4. CASE (MainStep \/ Arrival \/ Resize) /\ ~\E t \in Tasks : DataReceived(t)
  BY <1>4 DEF MainStep, Arrival, Resize, MainPush, Scan, Fire, HandleFinished,
              Terminate, AddThreads, RemoveThreads, Delivery!vars, taskVars, nodeVars
<1>5. QED
  BY <1>1, <1>2, <1>3, <1>4 DEF Next

LEMMA InitDelivers == Init => Delivery!Init
BY DEF Init, Delivery!Init

\* Every behaviour of the engine is, seen from the client nodes, a behaviour of
\* SerialDelivery.
THEOREM DeliveryCorrect == Spec => DeliverySpec
<1>1. Init => Delivery!Init
  BY InitDelivers
<1>2. DInv /\ [Next]_vars => [Delivery!Next]_Delivery!vars
  BY StepDelivers
<1>3. QED
  BY <1>1, <1>2, InitDInv, StepDInv, PTL DEF Spec, DeliverySpec, Delivery!Spec

\* A node's blocks reach filter_message in the order of arrival and none twice,
\* whichever of any number of workers run it.
THEOREM DealtInOrderCorrect == Spec => DealtInOrder
<1>1. Init => DeliveryInv
  BY InitDelivers, DeliveryInitInv
<1>2. DInv /\ DeliveryInv /\ [Next]_vars => DeliveryInv'
  BY StepDelivers, DeliveryStepInv
<1>3. DInv /\ DeliveryInv /\ [Next]_vars
        => [\A t \in Tasks : dealt'[t] # dealt[t] => dealt'[t] > dealt[t]]_vars
  BY StepDelivers, DeliveryInOrderStep
<1>4. QED
  BY <1>1, <1>2, <1>3, InitDInv, StepDInv, PTL DEF Spec, DealtInOrder

-----------------------------------------------------------------------------
(* While nobody changes a pool of at least one worker no wakeup is lost,   *)
(* although pushTask reads the workers' m_bBusy without a lock.            *)

\* Nobody is told to stop, and the vector stays as forkServer made it.
FixedInv ==
  /\ m_vec_workingThreads = [i \in 1..PoolSize |-> i]
  /\ \A w \in Workers : mailbox[w] \in Seq({"fetch"}) /\ pc[w] \notin {"leaving", "stopped"}

\* forkServer has made at least one worker.
PoolNotEmpty == PoolSize > 0

\* A worker that looks busy is.
BusyInv == \A w \in Workers : m_bBusy[w] => pc[w] # "idle"

\* The worker that was seen busy is either still at it or has said that it has
\* finished: the main thread, which is scanning, cannot have heard it.
Astir == finished # <<>> \/ \E w \in Workers : pc[w] # "idle"
ScanInv == mainPc = "scan" /\ scanAt > 1 => Astir

\* What holds while the pool is untouched.
Untouched == FixedInv /\ BusyInv /\ ScanInv /\ NoLostWakeup

\* A pool that has been changed never looks untouched again.
SizeInv == created >= PoolSize /\ Len(m_vec_workingThreads) <= created

WInv == PoolNotEmpty /\ IInv /\ SizeInv /\ (PoolUntouched => Untouched)

LEMMA InitWInv ==
  ASSUME PoolNotEmpty, Init
  PROVE  WInv
<1>1. IInv
  BY InitIInv
<1>2. FixedInv
  BY DEF Init, FixedInv
<1>3. SizeInv
  BY EngineAssumption DEF Init, SizeInv
<1>4. QED
  BY <1>1, <1>2, <1>3
     DEF Init, WInv, Untouched, BusyInv, ScanInv, NoLostWakeup

LEMMA WorkerWInv ==
  ASSUME WInv, PoolUntouched, NEW v \in Workers, Worker(v)
  PROVE  (FixedInv /\ BusyInv /\ ScanInv /\ NoLostWakeup)'
<1> USE DEF Goto, taskVars, nodeVars, poolVars, workVars, eventVars, mainVars
<1>0. /\ TypeOK
      /\ FixedInv /\ BusyInv /\ ScanInv
  BY DEF WInv, Untouched, IInv
<1>1. ~SetStopMark(v) /\ ~QuitThread(v)
  <2>1. mailbox[v] \in Seq({"fetch"})
    BY <1>0 DEF FixedInv
  <2>2. mailbox[v] # <<>> => Head(mailbox[v]) = "fetch"
    BY <2>1, HeadTailProperties
  <2>3. QED
    BY <1>0, <2>2 DEF SetStopMark, QuitThread, FixedInv
<1>2. UNCHANGED <<m_vec_workingThreads, mainPc, scanAt>>
  BY <1>1 DEF Worker, RunStep, FetchNewTask, SetBusy, LockRun, RunEntry, Peek,
              FilterMessage, PopEmpty, ReadSize, FinalSize, OnlyPc, DelRef,
              RePush, UnlockRun, Finish
<1>3. CASE FetchNewTask(v)
  <2>1. Tail(mailbox[v]) \in Seq({"fetch"})
    BY <1>0, <1>3, HeadTailProperties DEF FixedInv, FetchNewTask
  <2>2. pc[v] = "idle" /\ m_bBusy' = m_bBusy
    BY <1>3 DEF FetchNewTask
  <2>3. \/ pc' = pc /\ finished' = Append(finished, v)
        \/ pc' = [pc EXCEPT ![v] = "popped"] /\ finished' = finished
    BY <1>3 DEF FetchNewTask
  <2>4. FixedInv'
    <3>1. mailbox' = [mailbox EXCEPT ![v] = Tail(@)]
      BY <1>3 DEF FetchNewTask
    <3>2. QED
      BY <1>0, <1>2, <2>1, <2>3, <3>1 DEF FixedInv, TypeOK
  <2>5. BusyInv'
    BY <1>0, <2>2, <2>3 DEF BusyInv, TypeOK
  <2>6. Astir'
    <3>1. CASE finished' = Append(finished, v)
      BY <1>0, <3>1, AppendProperties DEF Astir, TypeOK
    <3>2. CASE pc' = [pc EXCEPT ![v] = "popped"]
      BY <1>0, <3>2 DEF Astir, TypeOK
    <3>3. QED
      BY <2>3, <3>1, <3>2
  <2>7. QED
    BY <2>4, <2>5, <2>6 DEF ScanInv, NoLostWakeup, Wakeup, Astir, FixedInv
<1>4. CASE Finish(v)
  <2>1. finished' = Append(finished, v) /\ pc' = [pc EXCEPT ![v] = "idle"]
        /\ m_bBusy' = [m_bBusy EXCEPT ![v] = FALSE] /\ mailbox' = mailbox
    BY <1>4 DEF Finish
  <2>2. finished' # <<>>
    <3>1. finished \in Seq(Workers)
      BY <1>0 DEF TypeOK
    <3>2. QED
      BY <2>1, <3>1, AppendProperties
  <2>3. FixedInv' /\ BusyInv'
    BY <1>0, <1>2, <2>1 DEF FixedInv, BusyInv, TypeOK
  <2>4. QED
    BY <2>2, <2>3 DEF ScanInv, Astir, NoLostWakeup, Wakeup
<1>5. CASE ~FetchNewTask(v) /\ ~Finish(v)
  <2>1. /\ mailbox' = mailbox
        /\ \A w \in Workers : w # v => m_bBusy'[w] = m_bBusy[w] /\ pc'[w] = pc[w]
        /\ pc'[v] \notin {"idle", "leaving", "stopped"}
    BY <1>0, <1>1, <1>5
       DEF TypeOK, Worker, RunStep, SetBusy, LockRun, RunEntry, Peek,
           FilterMessage, PopEmpty, ReadSize, FinalSize, OnlyPc, DelRef,
           RePush, UnlockRun
  <2>2. FixedInv' /\ BusyInv'
    BY <1>0, <1>2, <2>1 DEF FixedInv, BusyInv
  <2>3. QED
    BY <2>1, <2>2 DEF ScanInv, Astir, NoLostWakeup, Wakeup
<1>6. QED
  BY <1>3, <1>4, <1>5

\* on_finished_task leaves an event behind if there is a task.
LEMMA OnFinishedTaskWakes ==
  ASSUME TypeOK, FixedInv, NEW w \in Workers, OnFinishedTask(w)
  PROVE  /\ \A x \in Workers : mailbox'[x] \in Seq({"fetch"})
         /\ m_list_tasks # <<>> => mailbox'[w] # <<>>
<1>1. mailbox[w] \in Seq({"fetch"}) /\ pc[w] \notin {"leaving", "stopped"}
  BY DEF FixedInv
<1>2. /\ Append(mailbox[w], "fetch") \in Seq({"fetch"})
      /\ Append(mailbox[w], "fetch") # <<>>
  BY <1>1, AppendProperties
<1>3. QED
  BY <1>1, <1>2 DEF OnFinishedTask, FixedInv, TypeOK

LEMMA MainWInv ==
  ASSUME WInv, PoolUntouched, MainStep \/ Arrival
  PROVE  (FixedInv /\ BusyInv /\ ScanInv /\ NoLostWakeup)'
<1> USE DEF taskVars, nodeVars, poolVars, workVars, eventVars, mainVars
<1>0. TypeOK /\ MainInv /\ FixedInv /\ BusyInv /\ ScanInv /\ NoLostWakeup
  BY DEF WInv, Untouched, IInv
<1>1. UNCHANGED <<m_vec_workingThreads, pc, m_bBusy>>
  BY DEF MainStep, Arrival, MainPush, Scan, Fire, HandleFinished, DataReceived,
         Terminate
<1>2. BusyInv'
  BY <1>0, <1>1 DEF BusyInv
<1>3. CASE MainPush \/ Arrival
  BY <1>0, <1>1, <1>2, <1>3 DEF MainPush, Arrival, DataReceived, Terminate,
     FixedInv, ScanInv, NoLostWakeup, Wakeup
<1>4. CASE Scan
  <2>0. UNCHANGED <<m_list_tasks, mailbox, finished>> /\ mainPc = "scan"
    BY <1>4 DEF Scan
  <2>1. FixedInv'
    BY <1>0, <1>1, <2>0 DEF FixedInv
  <2>a. Len(m_vec_workingThreads) = PoolSize /\ PoolSize \in Nat /\ PoolSize > 0
        /\ scanAt \in Nat /\ scanAt >= 1
    BY <1>0, <2>0, EngineAssumption DEF WInv, PoolNotEmpty, FixedInv, TypeOK, MainInv
  <2>2. CASE scanAt > Len(m_vec_workingThreads)
    <3>1. Astir
      BY <1>0, <2>a, <2>0, <2>2 DEF ScanInv
    <3>2. Astir' /\ mainPc' # "scan"
      BY <1>1, <1>4, <2>0, <2>2, <2>a, <3>1 DEF Astir, Scan
    <3>3. QED
      BY <1>2, <2>1, <3>2 DEF ScanInv, NoLostWakeup, Wakeup, Astir, FixedInv
  <2>3. CASE scanAt <= Len(m_vec_workingThreads)
    <3>1. m_vec_workingThreads[scanAt] \in Workers
      BY <1>0, <2>3, <2>a, ElementOfSeq DEF TypeOK
    <3>2. \/ mainPc' = "scan" /\ Astir
          \/ mainPc' = "fire"
      BY <1>0, <1>4, <2>3, <2>a, <3>1 DEF Scan, Astir, BusyInv
    <3>3. QED
      BY <1>1, <1>2, <2>0, <2>1, <3>2 DEF ScanInv, NoLostWakeup, Wakeup, Astir
  <2>4. QED
    BY <2>2, <2>3, <2>a
<1>5. CASE Fire
  <2>1. m_vec_workingThreads[scanAt] \in Workers
    BY <1>0, <1>5, ElementOfSeq DEF Fire, MainInv, TypeOK
  <2>2. /\ \A x \in Workers : mailbox'[x] \in Seq({"fetch"})
        /\ m_list_tasks # <<>> => mailbox'[m_vec_workingThreads[scanAt]] # <<>>
    BY <1>0, <1>5, <2>1, OnFinishedTaskWakes DEF Fire
  <2>3. QED
    BY <1>0, <1>1, <1>2, <1>5, <2>1, <2>2
       DEF Fire, FixedInv, ScanInv, NoLostWakeup, Wakeup
<1>6. CASE HandleFinished
  <2>1. Head(finished) \in Workers
    BY <1>0, <1>6, HeadTailProperties DEF HandleFinished, TypeOK
  <2>2. /\ \A x \in Workers : mailbox'[x] \in Seq({"fetch"})
        /\ m_list_tasks # <<>> => mailbox'[Head(finished)] # <<>>
    BY <1>0, <1>6, <2>1, OnFinishedTaskWakes DEF HandleFinished
  <2>3. QED
    BY <1>0, <1>1, <1>2, <1>6, <2>1, <2>2
       DEF HandleFinished, FixedInv, ScanInv, NoLostWakeup, Wakeup
<1>7. QED
  BY <1>3, <1>4, <1>5, <1>6 DEF MainStep

\* Only addThreads and removeThreads change the sizes, and for good.
LEMMA StepSizeInv ==
  ASSUME TypeOK, SizeInv, [Next]_vars
  PROVE  /\ SizeInv'
         /\ Resize => ~PoolUntouched'
         /\ ~Resize => PoolUntouched' = PoolUntouched
<1>0. /\ m_vec_workingThreads \in Seq(Workers) /\ created \in Nat
      /\ Len(m_vec_workingThreads) \in Nat /\ PoolSize \in Nat
  BY EngineAssumption DEF TypeOK
<1>1. ASSUME NEW n \in 1..MaxWorkers, AddThreads(n)
      PROVE  SizeInv' /\ ~PoolUntouched'
  <2>1. n \in Nat /\ n > 0
    BY EngineAssumption
  <2>2. /\ created' = created + n
        /\ m_vec_workingThreads' =
             m_vec_workingThreads \o [i \in 1..n |-> created + i]
    BY <1>1 DEF AddThreads
  <2>3. n \in 1..(MaxWorkers - created) /\ MaxWorkers \in Nat
    BY <1>1, EngineAssumption DEF AddThreads
  <2>4. [i \in 1..n |-> created + i] \in Seq(Workers)
    BY <1>0, <2>1, <2>3, IsASeq DEF Workers
  <2>5. Len(m_vec_workingThreads') = Len(m_vec_workingThreads) + n
    BY <1>0, <2>1, <2>2, <2>4, ConcatProperties
  <2>6. QED
    BY <1>0, <2>1, <2>2, <2>5 DEF SizeInv, PoolUntouched
<1>2. ASSUME NEW n \in -1..MaxWorkers, RemoveThreads(n)
      PROVE  SizeInv' /\ ~PoolUntouched'
  <2> DEFINE keep == Len(m_vec_workingThreads) - RemoveCount(n)
  <2>1. keep \in Nat /\ keep < Len(m_vec_workingThreads)
    BY <1>0, <1>2, EngineAssumption DEF RemoveThreads, RemoveCount
  <2>2. created' = created /\ m_vec_workingThreads' = SubSeq(m_vec_workingThreads, 1, keep)
    BY <1>2 DEF RemoveThreads
  <2>3. Len(m_vec_workingThreads') = keep
    BY <1>0, <2>1, <2>2, SubSeqProperties
  <2>4. QED
    BY <1>0, <2>1, <2>2, <2>3 DEF SizeInv, PoolUntouched
<1>3. CASE Resize
  BY <1>1, <1>2, <1>3 DEF Resize
<1>4. CASE ~Resize
  <2>1. UNCHANGED <<created, m_vec_workingThreads>>
    BY <1>4 DEF Next, vars, taskVars, nodeVars, poolVars, workVars, eventVars,
         mainVars, Worker, RunStep, SetStopMark, QuitThread, FetchNewTask, SetBusy, LockRun,
         RunEntry, Peek, FilterMessage, PopEmpty, ReadSize, FinalSize, OnlyPc,
         DelRef, RePush, UnlockRun, Finish, MainStep, Arrival, MainPush, Scan,
         Fire, HandleFinished, DataReceived, Terminate
  <2>2. QED
    BY <1>4, <2>1 DEF SizeInv, PoolUntouched
<1>5. QED
  BY <1>3, <1>4

LEMMA StepWInv == WInv /\ [Next]_vars => WInv'
<1> SUFFICES ASSUME WInv, [Next]_vars PROVE WInv'
  OBVIOUS
<1>1. IInv' /\ PoolNotEmpty'
  BY StepIInv DEF WInv, PoolNotEmpty
<1>2. /\ SizeInv'
      /\ PoolUntouched' => PoolUntouched /\ ~Resize
  BY StepSizeInv DEF WInv, IInv
<1>3. ASSUME PoolUntouched, ~Resize PROVE Untouched'
  <2>1. CASE UNCHANGED vars
    BY <1>3, <2>1 DEF WInv, Untouched, FixedInv, BusyInv, ScanInv, Astir,
       NoLostWakeup, Wakeup, PoolUntouched, vars, workVars, poolVars, eventVars,
       mainVars
  <2>2. CASE \E w \in Workers : Worker(w)
    BY <1>3, <2>2, WorkerWInv DEF Untouched
  <2>3. CASE MainStep \/ Arrival
    BY <1>3, <2>3, MainWInv DEF Untouched
  <2>4. QED
    BY <1>3, <2>1, <2>2, <2>3 DEF Next
<1>4. QED
  BY <1>1, <1>2, <1>3 DEF WInv

\* While nobody changes a pool that is not empty, tasks are never left in the
\* queue with every worker and the main thread asleep.
THEOREM NoLostWakeupCorrect ==
  ASSUME PoolNotEmpty
  PROVE  Spec => []NoLostWakeup
<1>1. Init => WInv
  BY InitWInv
<1>2. WInv => NoLostWakeup
  BY DEF WInv, Untouched, NoLostWakeup
<1>3. QED
  BY <1>1, <1>2, StepWInv, PTL DEF Spec

-----------------------------------------------------------------------------
(* The reference count of a task, and the number of threads.               *)

\* The entries of a task in a queue.
EntriesOf(q, t) == {i \in 1..Len(q) : q[i] = t}

\* The workers that carry the reference of an entry of the task.
CarriersOf(t) == {w \in Workers : held[w] = t /\ pc[w] \in Carrying}

LEMMA EntriesFinite ==
  ASSUME NEW q \in Seq(Tasks), NEW t
  PROVE  IsFiniteSet(EntriesOf(q, t)) /\ Cardinality(EntriesOf(q, t)) \in Nat
<1>1. IsFiniteSet(1..Len(q)) /\ EntriesOf(q, t) \in SUBSET (1..Len(q))
  BY FS_Interval DEF EntriesOf
<1>2. QED
  BY <1>1, FS_Subset, FS_CardinalityType

LEMMA CarriersFinite ==
  ASSUME NEW t
  PROVE  IsFiniteSet(CarriersOf(t)) /\ Cardinality(CarriersOf(t)) \in Nat
<1>1. IsFiniteSet(Workers) /\ CarriersOf(t) \in SUBSET Workers
  BY FS_Interval, EngineAssumption DEF CarriersOf, Workers
<1>2. QED
  BY <1>1, FS_Subset, FS_CardinalityType

\* A task at the end of the queue is one more entry of it alone.
LEMMA EntriesAppend ==
  ASSUME NEW q \in Seq(Tasks), NEW x \in Tasks, NEW t
  PROVE  Cardinality(EntriesOf(Append(q, x), t))
           = Cardinality(EntriesOf(q, t)) + (IF x = t THEN 1 ELSE 0)
<1> DEFINE a == Append(q, x)
<1>1. /\ Len(a) = Len(q) + 1 /\ Len(q) \in Nat /\ a[Len(q) + 1] = x
      /\ \A i \in 1..Len(q) : a[i] = q[i]
  BY AppendProperties
<1> HIDE DEF a
<1>2. CASE x = t
  <2>1. EntriesOf(a, t) = EntriesOf(q, t) \cup {Len(q) + 1} /\ Len(q) + 1 \notin EntriesOf(q, t)
    BY <1>1, <1>2 DEF EntriesOf
  <2>2. QED
    BY <1>2, <2>1, EntriesFinite, FS_AddElement DEF a
<1>3. CASE x # t
  <2>1. EntriesOf(a, t) = EntriesOf(q, t)
    BY <1>1, <1>3 DEF EntriesOf
  <2>2. QED
    BY <1>3, <2>1, EntriesFinite DEF a
<1>4. QED
  BY <1>2, <1>3

\* A task taken from the front is one entry less of it alone.
LEMMA EntriesTail ==
  ASSUME NEW q \in Seq(Tasks), q # <<>>, NEW t
  PROVE  Cardinality(EntriesOf(q, t))
           = Cardinality(EntriesOf(Tail(q), t)) + (IF Head(q) = t THEN 1 ELSE 0)
<1> DEFINE r == Tail(q)
           later == EntriesOf(q, t) \ {1}
<1>1. /\ r \in Seq(Tasks) /\ Len(q) \in Nat \ {0} /\ Len(r) = Len(q) - 1
      /\ Head(q) = q[1] /\ \A i \in 1..Len(r) : r[i] = q[i + 1]
  BY HeadTailProperties, EmptySeq
<1> HIDE DEF r
<1>2. Cardinality(later) = Cardinality(EntriesOf(r, t))
  <2> DEFINE shift == [i \in EntriesOf(r, t) |-> i + 1]
  <2>1. \A i \in EntriesOf(r, t) : i + 1 \in later
    BY <1>1 DEF EntriesOf
  <2>2. \A j \in later : j - 1 \in EntriesOf(r, t) /\ (j - 1) + 1 = j
    BY <1>1 DEF EntriesOf
  <2>3. \A i, j \in EntriesOf(r, t) : i + 1 = j + 1 => i = j
    BY DEF EntriesOf
  <2>4. shift \in [EntriesOf(r, t) -> later]
    BY <2>1
  <2>5. shift \in Bijection(EntriesOf(r, t), later)
    BY <2>2, <2>3, <2>4 DEF Bijection, Injection, Surjection, IsInjective
  <2>6. QED
    BY <1>1, <2>5, EntriesFinite, FS_Bijection DEF ExistsBijection
<1>3. CASE Head(q) = t
  <2>1. 1 \in EntriesOf(q, t)
    BY <1>1, <1>3 DEF EntriesOf
  <2>2. Cardinality(later) = Cardinality(EntriesOf(q, t)) - 1
    BY <2>1, EntriesFinite, FS_RemoveElement
  <2>3. QED
    BY <1>2, <1>3, <2>2, EntriesFinite DEF r
<1>4. CASE Head(q) # t
  <2>1. later = EntriesOf(q, t)
    BY <1>1, <1>4 DEF EntriesOf
  <2>2. Cardinality(EntriesOf(q, t)) = Cardinality(EntriesOf(r, t))
    BY <1>2, <2>1
  <2>3. Cardinality(EntriesOf(r, t)) \in Nat
    BY <1>1, EntriesFinite
  <2>4. QED
    BY <1>4, <2>2, <2>3 DEF r
<1>5. QED
  BY <1>3, <1>4

\* The count of a task whose queue entries and carriers stay as they are.
CountOf(t) ==
  refCount[t] = Cardinality(EntriesOf(m_list_tasks, t)) + Cardinality(CarriersOf(t))

LEMMA WorkerCounts ==
  ASSUME IInv, RefCountExact, NEW v \in Workers, Worker(v), NEW t \in Tasks
  PROVE  CountOf(t)'
<1>0. CountOf(t)
  BY DEF RefCountExact, CountOf, EntriesOf, CarriersOf
<1> USE DEF IInv, TypeOK, Goto, taskVars, nodeVars, poolVars, workVars, eventVars, mainVars
<1>1. ASSUME m_list_tasks' = m_list_tasks, refCount' = refCount,
             \A w \in Workers : held'[w] = t /\ pc'[w] \in Carrying
                                <=> held[w] = t /\ pc[w] \in Carrying
      PROVE  CountOf(t)'
  <2>1. CarriersOf(t)' = CarriersOf(t)
    BY <1>1 DEF CarriersOf
  <2>2. QED
    BY <1>0, <1>1, <2>1 DEF CountOf
<1>2. CASE FetchNewTask(v)
  <2>1. CASE m_list_tasks = <<>>
    BY <1>1, <1>2, <2>1 DEF FetchNewTask
  <2>2. CASE m_list_tasks # <<>>
    <3>1. /\ m_list_tasks' = Tail(m_list_tasks) /\ refCount' = refCount
          /\ held' = [held EXCEPT ![v] = Head(m_list_tasks)]
          /\ pc[v] = "idle" /\ pc' = [pc EXCEPT ![v] = "popped"]
      BY <1>2, <2>2 DEF FetchNewTask
    <3>2. v \notin CarriersOf(t)
      BY <3>1 DEF CarriersOf, Carrying, Running
    <3>3. CarriersOf(t)' = IF Head(m_list_tasks) = t THEN CarriersOf(t) \cup {v} ELSE CarriersOf(t)
      BY <3>1 DEF CarriersOf, Carrying, Running
    <3>4. Cardinality(CarriersOf(t)')
            = Cardinality(CarriersOf(t)) + (IF Head(m_list_tasks) = t THEN 1 ELSE 0)
      <4>1. CASE Head(m_list_tasks) = t
        <5>1. CarriersOf(t)' = CarriersOf(t) \cup {v}
          BY <3>3, <4>1
        <5>2. Cardinality(CarriersOf(t) \cup {v}) = Cardinality(CarriersOf(t)) + 1
          BY <3>2, CarriersFinite, FS_AddElement
        <5>3. QED
          BY <4>1, <5>1, <5>2
      <4>2. CASE Head(m_list_tasks) # t
        <5>1. Cardinality(CarriersOf(t)) \in Nat
          BY CarriersFinite
        <5>2. QED
          BY <3>3, <4>2, <5>1
      <4>3. QED
        BY <4>1, <4>2
    <3>5. m_list_tasks \in Seq(Tasks) /\ m_list_tasks' \in Seq(Tasks)
      BY <2>2, <3>1, HeadTailProperties
    <3>6. Cardinality(EntriesOf(m_list_tasks, t))
            = Cardinality(EntriesOf(m_list_tasks', t)) + (IF Head(m_list_tasks) = t THEN 1 ELSE 0)
      <4> HIDE DEF IInv, TypeOK
      <4>1. Cardinality(EntriesOf(m_list_tasks, t))
              = Cardinality(EntriesOf(Tail(m_list_tasks), t))
                + (IF Head(m_list_tasks) = t THEN 1 ELSE 0)
        BY <2>2, <3>5, EntriesTail
      <4>2. QED
        BY <3>1, <4>1
    <3>7. /\ Cardinality(EntriesOf(m_list_tasks', t)) \in Nat
          /\ Cardinality(CarriersOf(t)) \in Nat
      BY <3>5, EntriesFinite, CarriersFinite
    <3>8. refCount'[t] = Cardinality(EntriesOf(m_list_tasks', t)) + Cardinality(CarriersOf(t)')
      <4>1. refCount'[t] = Cardinality(EntriesOf(m_list_tasks, t)) + Cardinality(CarriersOf(t))
        BY <1>0, <3>1 DEF CountOf
      <4>2. CASE Head(m_list_tasks) = t
        BY <3>4, <3>6, <3>7, <4>1, <4>2
      <4>3. CASE Head(m_list_tasks) # t
        BY <3>4, <3>6, <3>7, <4>1, <4>3
      <4>4. QED
        BY <4>2, <4>3
    <3>9. QED
      BY <3>8 DEF CountOf
  <2>3. QED
    BY <2>1, <2>2
<1>3. CASE DelRef(v)
  <2>1. /\ m_list_tasks' = m_list_tasks /\ held' = held /\ pc[v] = "delref"
        /\ refCount' = [refCount EXCEPT ![held[v]] = @ - 1]
        /\ pc' = [pc EXCEPT ![v] = IF MustRepush(v) THEN "repush" ELSE "unlock"]
    BY <1>3 DEF DelRef
  <2>2. held[v] \in Tasks
    BY <2>1 DEF HeldInv
  <2>3. CASE t = held[v]
    <3>1. v \in CarriersOf(t)
      BY <2>1, <2>3 DEF CarriersOf, Carrying
    <3>2. CarriersOf(t)' = CarriersOf(t) \ {v}
      BY <2>1 DEF CarriersOf, Carrying, Running
    <3>3. Cardinality(CarriersOf(t)') = Cardinality(CarriersOf(t)) - 1
      BY <3>1, <3>2, CarriersFinite, FS_RemoveElement
    <3>4. refCount'[t] = refCount[t] - 1 /\ refCount[t] \in Int
      BY <2>1, <2>2, <2>3
    <3>5. QED
      BY <1>0, <2>1, <3>3, <3>4, EntriesFinite, CarriersFinite DEF CountOf
  <2>4. CASE t # held[v]
    <3>1. CarriersOf(t)' = CarriersOf(t)
      BY <2>1, <2>4 DEF CarriersOf
    <3>2. refCount'[t] = refCount[t]
      BY <2>1, <2>4
    <3>3. QED
      BY <1>0, <2>1, <3>1, <3>2 DEF CountOf
  <2>5. QED
    BY <2>3, <2>4
<1>4. CASE RePush(v)
  <2>1. /\ m_list_tasks' = Append(m_list_tasks, held[v]) /\ held' = held /\ pc[v] = "repush"
        /\ refCount' = [refCount EXCEPT ![held[v]] = @ + 1]
        /\ pc' = [pc EXCEPT ![v] = IF Owns(v) THEN "unlock" ELSE "done"]
    BY <1>4 DEF RePush, PushTask
  <2>2. held[v] \in Tasks
    BY <2>1 DEF HeldInv
  <2>3. CarriersOf(t)' = CarriersOf(t)
    BY <2>1 DEF CarriersOf, Carrying, Running
  <2>4. Cardinality(EntriesOf(m_list_tasks', t))
          = Cardinality(EntriesOf(m_list_tasks, t)) + (IF held[v] = t THEN 1 ELSE 0)
    BY <2>1, <2>2, EntriesAppend
  <2>5. refCount'[t] = refCount[t] + (IF held[v] = t THEN 1 ELSE 0)
    BY <2>1, <2>2
  <2>6. QED
    BY <1>0, <2>3, <2>4, <2>5, EntriesFinite, CarriersFinite DEF CountOf
<1>5. CASE LockRun(v) \/ SetBusy(v) \/ SetStopMark(v) \/ QuitThread(v)
  BY <1>1, <1>5 DEF LockRun, SetBusy, SetStopMark, QuitThread, OnlyPc, Carrying, Running
<1>6. CASE RunStep(v)
  BY <1>1, <1>6 DEF RunStep, RunEntry, Peek, FilterMessage, PopEmpty, ReadSize, FinalSize,
                    OnlyPc, Carrying, Running
<1>7. CASE UnlockRun(v) \/ Finish(v)
  BY <1>1, <1>7 DEF UnlockRun, Finish, Carrying, Running
<1>8. QED
  BY <1>2, <1>3, <1>4, <1>5, <1>6, <1>7 DEF Worker

LEMMA StepCounts == IInv /\ RefCountExact /\ [Next]_vars => RefCountExact'
<1> SUFFICES ASSUME IInv, RefCountExact, [Next]_vars, NEW t \in Tasks
             PROVE  CountOf(t)'
  BY DEF RefCountExact, CountOf, EntriesOf, CarriersOf
<1>0. CountOf(t)
  BY DEF RefCountExact, CountOf, EntriesOf, CarriersOf
<1>1. CASE MainPush
  <2>1. /\ m_list_tasks' = Append(m_list_tasks, pushing) /\ held' = held /\ pc' = pc
        /\ refCount' = [refCount EXCEPT ![pushing] = @ + 1] /\ pushing \in Tasks
    BY <1>1 DEF MainPush, PushTask, IInv, MainInv, workVars
  <2>2. CarriersOf(t)' = CarriersOf(t)
    BY <2>1 DEF CarriersOf
  <2>3. m_list_tasks \in Seq(Tasks) /\ refCount \in [Tasks -> Int]
    BY DEF IInv, TypeOK
  <2>4. Cardinality(EntriesOf(m_list_tasks', t))
          = Cardinality(EntriesOf(m_list_tasks, t)) + (IF pushing = t THEN 1 ELSE 0)
    BY <2>1, <2>3, EntriesAppend
  <2>5. refCount'[t] = refCount[t] + (IF pushing = t THEN 1 ELSE 0)
    BY <2>1, <2>3
  <2>6. QED
    BY <1>0, <2>2, <2>3, <2>4, <2>5, EntriesFinite, CarriersFinite DEF CountOf
<1>2. CASE UNCHANGED <<m_list_tasks, taskVars, workVars>>
  <2>1. CarriersOf(t)' = CarriersOf(t)
    BY <1>2 DEF CarriersOf, workVars
  <2>2. QED
    BY <1>0, <1>2, <2>1 DEF CountOf, taskVars
<1>3. CASE \E w \in Workers : Worker(w)
  BY <1>3, WorkerCounts
<1>4. CASE UNCHANGED vars \/ (MainStep /\ ~MainPush) \/ Arrival \/ Resize
  BY <1>2, <1>4 DEF vars, MainStep, Arrival, Resize, Scan, Fire, HandleFinished, DataReceived,
                    Terminate, AddThreads, RemoveThreads
<1>5. QED
  BY <1>1, <1>3, <1>4 DEF Next, MainStep

\* The reference count of every node is exactly the number of its queue entries
\* plus the number of workers that carry one, whatever happens to the pool.
THEOREM RefCountExactCorrect == Spec => []RefCountExact
<1>1. ASSUME Init PROVE RefCountExact
  <2>1. ASSUME NEW t \in Tasks
        PROVE  CountOf(t)
    <3>1. EntriesOf(m_list_tasks, t) = {} /\ CarriersOf(t) = {}
      BY <1>1 DEF Init, EntriesOf, CarriersOf, Carrying, Running
    <3>2. refCount[t] = 0
      BY <1>1 DEF Init
    <3>3. Cardinality(EntriesOf(m_list_tasks, t)) = 0 /\ Cardinality(CarriersOf(t)) = 0
      BY <3>1, FS_EmptySet
    <3>4. QED
      BY <3>2, <3>3 DEF CountOf
  <2>2. QED
    BY <2>1 DEF RefCountExact, CountOf, EntriesOf, CarriersOf
<1>2. QED
  BY <1>1, InitIInv, StepIInv, StepCounts, PTL DEF Spec

\* The workers that count as existing: created and not counted out.
Existing == {w \in 1..created : pc[w] \notin {"leaving", "stopped"}}

\* Who is in the vector or has reported to the main thread has been created,
\* and who has not been created is asleep with an empty queue.
CreatedInv ==
  /\ \A i \in 1..Len(m_vec_workingThreads) : m_vec_workingThreads[i] <= created
  /\ \A i \in 1..Len(finished) : finished[i] <= created
  /\ \A w \in Workers : w > created => pc[w] = "idle" /\ mailbox[w] = <<>>

CountInv == m_nExistingThreads = Cardinality(Existing)

LEMMA ExistingFinite ==
  ASSUME IInv
  PROVE  IsFiniteSet(Existing) /\ Cardinality(Existing) \in Nat
<1>1. IsFiniteSet(1..created) /\ Existing \in SUBSET (1..created)
  BY FS_Interval DEF Existing, IInv, TypeOK
<1>2. QED
  BY <1>1, FS_Subset, FS_CardinalityType

LEMMA WorkerCreated ==
  ASSUME IInv, CreatedInv, NEW v \in Workers, Worker(v)
  PROVE  CreatedInv' /\ v <= created
<1> USE DEF IInv, TypeOK, Goto, poolVars, workVars, eventVars
<1>1. created \in Nat /\ \A w \in Workers : w \in Nat
  BY DEF Workers
<1>2. v <= created
  <2>1. pc[v] # "idle" \/ mailbox[v] # <<>>
    BY DEF Worker, SetStopMark, QuitThread, FetchNewTask, SetBusy, LockRun, RunStep, RunEntry, Peek,
           FilterMessage, PopEmpty, ReadSize, FinalSize, DelRef, RePush, UnlockRun, Finish
  <2>2. QED
    BY <1>1, <2>1 DEF CreatedInv
<1>3. /\ UNCHANGED <<m_vec_workingThreads, created>>
      /\ \A w \in Workers \ {v} : pc'[w] = pc[w] /\ mailbox'[w] = mailbox[w]
      /\ finished' = finished \/ finished' = Append(finished, v)
  BY DEF Worker, SetStopMark, QuitThread, FetchNewTask, SetBusy, LockRun, RunStep, RunEntry, Peek,
         FilterMessage, PopEmpty, ReadSize, FinalSize, OnlyPc, DelRef, RePush, UnlockRun, Finish
<1>4. \A i \in 1..Len(finished') : finished'[i] <= created
  <2>1. CASE finished' = finished
    BY <2>1 DEF CreatedInv
  <2>2. CASE finished' = Append(finished, v)
    <3>1. /\ Len(finished') = Len(finished) + 1 /\ finished'[Len(finished) + 1] = v
          /\ Len(finished) \in Nat /\ \A i \in 1..Len(finished) : finished'[i] = finished[i]
      BY <2>2, AppendProperties
    <3> HIDE DEF IInv, TypeOK
    <3>2. ASSUME NEW i \in 1..Len(finished') PROVE finished'[i] <= created
      <4>1. CASE i = Len(finished) + 1
        BY <1>2, <3>1, <4>1
      <4>2. CASE i \in 1..Len(finished)
        BY <3>1, <4>2 DEF CreatedInv
      <4>3. QED
        BY <3>1, <4>1, <4>2
    <3>3. QED
      BY <3>2
  <2>3. QED
    BY <1>3, <2>1, <2>2
<1>5. \A w \in Workers : w > created => pc'[w] = "idle" /\ mailbox'[w] = <<>>
  BY <1>1, <1>2, <1>3 DEF CreatedInv
<1>6. QED
  BY <1>2, <1>3, <1>4, <1>5 DEF CreatedInv

\* A wakeup reaches a created worker only.
LEMMA OnFinishedTaskCreated ==
  ASSUME IInv, CreatedInv, NEW u \in Workers, u <= created, OnFinishedTask(u)
  PROVE  \A w \in Workers : w > created => mailbox'[w] = <<>>
<1>1. created \in Nat /\ \A w \in Workers : w \in Nat
  BY DEF IInv, TypeOK, Workers
<1>2. \A w \in Workers : w > created => mailbox'[w] = mailbox[w]
  BY <1>1 DEF OnFinishedTask, IInv, TypeOK
<1>3. QED
  BY <1>2 DEF CreatedInv

LEMMA MainCreated ==
  ASSUME IInv, CreatedInv, MainStep \/ Arrival \/ Resize
  PROVE  CreatedInv'
<1>0. /\ created \in 0..MaxWorkers /\ pc' = pc
      /\ m_vec_workingThreads \in Seq(Workers) /\ finished \in Seq(Workers)
  BY DEF IInv, TypeOK, MainStep, MainPush, Scan, Fire, HandleFinished, Arrival, DataReceived,
         Terminate, Resize, AddThreads, RemoveThreads, workVars
<1>1. CASE MainPush \/ Scan \/ Arrival
  BY <1>1 DEF MainPush, Scan, Arrival, DataReceived, Terminate, CreatedInv, poolVars,
              workVars, eventVars
<1>2. CASE Fire
  <2>1. scanAt \in 1..Len(m_vec_workingThreads)
    BY <1>2 DEF Fire, IInv, MainInv
  <2>2. m_vec_workingThreads[scanAt] \in Workers /\ m_vec_workingThreads[scanAt] <= created
    BY <1>0, <2>1, ElementOfSeq DEF CreatedInv
  <2>3. \A w \in Workers : w > created => mailbox'[w] = <<>>
    BY <1>2, <2>2, OnFinishedTaskCreated DEF Fire
  <2>4. QED
    BY <1>2, <2>3 DEF Fire, CreatedInv, poolVars, workVars
<1>3. CASE HandleFinished
  <2>1. finished # <<>> /\ finished' = Tail(finished) /\ OnFinishedTask(Head(finished))
        /\ UNCHANGED <<poolVars, workVars>>
    BY <1>3 DEF HandleFinished
  <2>2. /\ Head(finished) = finished[1] /\ Head(finished) \in Workers
        /\ Len(finished) \in Nat \ {0} /\ Len(finished') = Len(finished) - 1
        /\ \A i \in 1..Len(finished') : finished'[i] = finished[i + 1]
    BY <1>0, <2>1, HeadTailProperties, EmptySeq
  <2>3. Head(finished) <= created
    BY <2>2 DEF CreatedInv
  <2>4. \A w \in Workers : w > created => mailbox'[w] = <<>>
    BY <2>1, <2>2, <2>3, OnFinishedTaskCreated
  <2>5. \A i \in 1..Len(finished') : finished'[i] <= created
    BY <2>2 DEF CreatedInv
  <2>6. QED
    BY <2>1, <2>4, <2>5 DEF CreatedInv, poolVars, workVars
<1>4. ASSUME NEW n \in 1..MaxWorkers, AddThreads(n) PROVE CreatedInv'
  <2>1. /\ n \in 1..(MaxWorkers - created) /\ created' = created + n
        /\ m_vec_workingThreads' = m_vec_workingThreads \o [i \in 1..n |-> created + i]
        /\ UNCHANGED <<pc, mailbox, finished>>
    BY <1>4 DEF AddThreads, workVars, eventVars
  <2>2. /\ [i \in 1..n |-> created + i] \in Seq(Workers)
        /\ Len([i \in 1..n |-> created + i]) = n
    <3>1. \A i \in 1..n : created + i \in Workers
      BY <1>0, <2>1, EngineAssumption DEF Workers
    <3>2. n \in Nat
      BY <1>4
    <3>3. [i \in 1..n |-> created + i] \in Seq(Workers)
      BY <3>1, <3>2, IsASeq
    <3>4. DOMAIN [i \in 1..n |-> created + i] = 1..n
      OBVIOUS
    <3>5. QED
      BY <3>2, <3>3, <3>4, LenProperties
  <2>3. \A i \in 1..Len(m_vec_workingThreads') : m_vec_workingThreads'[i] <= created'
    <3>1. /\ Len(m_vec_workingThreads') = Len(m_vec_workingThreads) + n
          /\ Len(m_vec_workingThreads) \in Nat
          /\ \A i \in 1..Len(m_vec_workingThreads') :
               m_vec_workingThreads'[i] =
                 IF i <= Len(m_vec_workingThreads) THEN m_vec_workingThreads[i]
                 ELSE [j \in 1..n |-> created + j][i - Len(m_vec_workingThreads)]
      BY <1>0, <2>1, <2>2, ConcatProperties
    <3>2. \A i \in 1..Len(m_vec_workingThreads) : m_vec_workingThreads[i] \in Nat
      <4>1. \A i \in 1..Len(m_vec_workingThreads) : m_vec_workingThreads[i] \in Workers
        BY <1>0, ElementOfSeq
      <4>2. QED
        BY <4>1 DEF Workers
    <3>3. ASSUME NEW i \in 1..Len(m_vec_workingThreads') PROVE m_vec_workingThreads'[i] <= created'
      <4>1. CASE i <= Len(m_vec_workingThreads)
        BY <1>0, <2>1, <3>1, <3>2, <4>1 DEF CreatedInv
      <4>2. CASE i > Len(m_vec_workingThreads)
        BY <1>0, <2>1, <3>1, <4>2
      <4>3. QED
        BY <3>1, <4>1, <4>2
    <3>4. QED
      BY <3>3
  <2>4. QED
    <3>1. \A i \in 1..Len(finished) : finished[i] \in Nat
      <4>1. \A i \in 1..Len(finished) : finished[i] \in Workers
        BY <1>0, ElementOfSeq
      <4>2. QED
        BY <4>1 DEF Workers
    <3>2. ASSUME NEW i \in 1..Len(finished') PROVE finished'[i] <= created'
      BY <1>0, <2>1, <3>1 DEF CreatedInv
    <3>3. \A w \in Workers : w > created' => pc'[w] = "idle" /\ mailbox'[w] = <<>>
      BY <1>0, <2>1 DEF CreatedInv, Workers
    <3>4. QED
      BY <2>3, <3>2, <3>3 DEF CreatedInv
<1>5. ASSUME NEW n \in -1..MaxWorkers, RemoveThreads(n) PROVE CreatedInv'
  <2>1. /\ created' = created /\ UNCHANGED <<pc, finished>>
        /\ mailbox' = [w \in Workers |->
                         IF \E i \in RemovedSlots(n) : m_vec_workingThreads[i] = w
                         THEN Append(mailbox[w], "stop") ELSE mailbox[w]]
        /\ m_vec_workingThreads' = SubSeq(m_vec_workingThreads, 1,
                                     Len(m_vec_workingThreads) - RemoveCount(n))
    BY <1>5 DEF RemoveThreads, workVars
  <2>2. /\ Len(m_vec_workingThreads) \in Nat
        /\ RemoveCount(n) \in 0..Len(m_vec_workingThreads)
    BY <1>0, <1>5, EngineAssumption DEF RemoveThreads, RemoveCount
  <2>3. RemovedSlots(n) \subseteq 1..Len(m_vec_workingThreads)
    BY <2>2 DEF RemovedSlots
  <2>4. /\ Len(m_vec_workingThreads') = Len(m_vec_workingThreads) - RemoveCount(n)
        /\ \A i \in 1..Len(m_vec_workingThreads') :
             m_vec_workingThreads'[i] = m_vec_workingThreads[i]
    BY <1>0, <2>1, <2>2, SubSeqProperties
  <2>5. \A w \in Workers : w > created => mailbox'[w] = mailbox[w]
    BY <1>0, <2>1, <2>3 DEF CreatedInv, Workers
  <2>6. 1..Len(m_vec_workingThreads') \subseteq 1..Len(m_vec_workingThreads)
    BY <2>2, <2>4
  <2>7. \A i \in 1..Len(m_vec_workingThreads') : m_vec_workingThreads'[i] <= created'
    BY <2>1, <2>4, <2>6 DEF CreatedInv
  <2>8. \A i \in 1..Len(finished') : finished'[i] <= created'
    BY <2>1 DEF CreatedInv
  <2>9. \A w \in Workers : w > created' => pc'[w] = "idle" /\ mailbox'[w] = <<>>
    BY <2>1, <2>5 DEF CreatedInv
  <2>10. QED
    BY <2>7, <2>8, <2>9 DEF CreatedInv
<1>6. QED
  BY <1>1, <1>2, <1>3, <1>4, <1>5 DEF MainStep, Resize

\* setStopMark lowers the counter when the worker stops, addThreads raises it by
\* the number of workers it makes.
LEMMA StepCount == IInv /\ CreatedInv /\ CountInv /\ [Next]_vars => CountInv'
<1> SUFFICES ASSUME IInv, CreatedInv, CountInv, [Next]_vars PROVE CountInv'
  OBVIOUS
<1>0. created \in 0..MaxWorkers /\ pc \in [Workers -> Labels]
  BY DEF IInv, TypeOK
<1>1. ASSUME NEW v \in Workers, SetStopMark(v) PROVE CountInv'
  <2>1. /\ pc[v] = "idle" /\ pc' = [pc EXCEPT ![v] = "leaving"] /\ created' = created
        /\ m_nExistingThreads' = m_nExistingThreads - 1
    BY <1>1 DEF SetStopMark, QuitThread, Goto
  <2>2. v \in 1..created
    BY <1>0, <1>1, WorkerCreated DEF Worker, Workers
  <2>3. v \in Existing
    BY <2>1, <2>2 DEF Existing
  <2>4. Existing' = Existing \ {v}
    BY <1>0, <2>1 DEF Existing, Workers
  <2>5. Cardinality(Existing \ {v}) = Cardinality(Existing) - 1
    BY <2>3, ExistingFinite, FS_RemoveElement
  <2>6. QED
    BY <2>1, <2>4, <2>5 DEF CountInv
<1>2. ASSUME NEW v \in Workers, Worker(v), ~SetStopMark(v) PROVE CountInv'
  <2>1. /\ UNCHANGED <<created, m_nExistingThreads>>
        /\ \A w \in Workers :
             pc'[w] \in {"leaving", "stopped"} <=> pc[w] \in {"leaving", "stopped"}
    BY <1>0, <1>2 DEF Worker, QuitThread, OnlyPc, FetchNewTask, SetBusy, LockRun, RunStep, RunEntry, Peek,
           FilterMessage, PopEmpty, ReadSize, FinalSize, OnlyPc, DelRef, RePush, UnlockRun,
           Finish, Goto, poolVars
  <2>2. \A w \in 1..created : w \in Workers
    BY <1>0, EngineAssumption DEF Workers
  <2>3. Existing' = Existing
    BY <2>1, <2>2 DEF Existing
  <2>4. QED
    BY <2>1, <2>3 DEF CountInv
<1>3. ASSUME NEW n \in 1..MaxWorkers, AddThreads(n) PROVE CountInv'
  <2> DEFINE fresh == (created + 1)..(created + n)
  <2>1. /\ n \in 1..(MaxWorkers - created) /\ created' = created + n /\ pc' = pc
        /\ m_nExistingThreads' = m_nExistingThreads + n
    BY <1>3 DEF AddThreads, workVars
  <2>2. \A w \in fresh : w \in Workers /\ pc[w] = "idle" /\ w > created
    <3>1. ASSUME NEW w \in fresh PROVE w \in Workers /\ w > created
      BY <1>0, <2>1, EngineAssumption DEF Workers
    <3>2. QED
      BY <3>1 DEF CreatedInv
  <2>3. Existing' = Existing \cup fresh /\ Existing \cap fresh = {}
    BY <1>0, <2>1, <2>2 DEF Existing
  <2>4. IsFiniteSet(fresh) /\ Cardinality(fresh) = n
    BY <1>0, <2>1, FS_Interval
  <2>5. Cardinality(Existing \cup fresh) = Cardinality(Existing) + n
    <3> HIDE DEF fresh
    <3>1. Cardinality(Existing \cap fresh) = 0
      BY <2>3, FS_EmptySet
    <3>2. Cardinality(Existing \cup fresh)
            = Cardinality(Existing) + Cardinality(fresh) - Cardinality(Existing \cap fresh)
      BY <2>4, ExistingFinite, FS_Union
    <3>3. Cardinality(Existing) \in Nat /\ n \in Nat
      BY <1>3, ExistingFinite
    <3>4. QED
      BY <2>4, <3>1, <3>2, <3>3
  <2>6. QED
    BY <2>1, <2>3, <2>5 DEF CountInv
<1>4. CASE UNCHANGED vars \/ MainStep \/ Arrival \/ \E n \in -1..MaxWorkers : RemoveThreads(n)
  <2>1. UNCHANGED <<created, m_nExistingThreads, pc>>
    BY <1>4 DEF vars, MainStep, MainPush, Scan, Fire, HandleFinished, Arrival, DataReceived,
                Terminate, RemoveThreads, poolVars, workVars
  <2>2. QED
    BY <2>1 DEF CountInv, Existing
<1>5. QED
  BY <1>1, <1>2, <1>3, <1>4 DEF Next, Resize

\* canClose becomes true only when every worker ever created has left its event
\* loop: m_nExistingThreads counts exactly those that have not.
THEOREM CanCloseMeansQuietCorrect == Spec => []CanCloseMeansQuiet
<1>1. ASSUME Init PROVE CreatedInv /\ CountInv
  <2>1. /\ PoolSize \in 0..MaxWorkers /\ MaxWorkers \in Nat
        /\ m_vec_workingThreads = [i \in 1..PoolSize |-> i] /\ finished = <<>>
        /\ created = PoolSize /\ m_nExistingThreads = PoolSize
        /\ \A w \in Workers : pc[w] = "idle" /\ mailbox[w] = <<>>
    BY <1>1, EngineAssumption DEF Init
  <2>2. Existing = 1..PoolSize
    BY <2>1 DEF Existing, Workers
  <2>3. CountInv
    BY <2>1, <2>2, FS_Interval DEF CountInv
  <2>4. QED
    BY <2>1, <2>3 DEF CreatedInv
<1>2. IInv /\ CreatedInv /\ [Next]_vars => CreatedInv'
  <2>1. CASE UNCHANGED vars
    BY <2>1 DEF vars, CreatedInv, poolVars, workVars, eventVars
  <2>2. QED
    BY <2>1, WorkerCreated, MainCreated DEF Next
<1>3. ASSUME IInv, CountInv PROVE CanCloseMeansQuiet
  <2>1. m_nExistingThreads = 0 => Existing = {}
    BY <1>3, ExistingFinite, FS_EmptySet DEF CountInv
  <2>2. \A w \in 1..created : w \in Workers
    BY <1>3, EngineAssumption DEF IInv, TypeOK, Workers
  <2>3. QED
    BY <1>3, <2>1, <2>2 DEF CanCloseMeansQuiet, Existing, IInv, HeldInv
<1>4. QED
  BY <1>1, <1>2, <1>3, InitIInv, StepIInv, StepCount, PTL DEF Spec

-----------------------------------------------------------------------------
(* The client table.                                                       *)

\* A worker interprets a message only while it deals a block.
MsgInv == \A w \in Workers : ipc[w] # "none" => pc[w] = "deal"

\* A node that has not been created is unmarked, and a connected node is in none
\* of the lists of the dead: what LifeCycle leaves open.
LifeInv ==
  /\ LifeCycle
  /\ \A t \in Tasks \ born : ~bTermSet[t]
  /\ Connected \cap (m_nodeToBeDel \cup deleteLaterQueue \cup deleted) = {}

TableInv == TableTypeOK /\ MsgInv /\ LifeInv /\ LoggedInKnown

-----------------------------------------------------------------------------
(* The table does nothing to the engine that the engine does not do alone. *)

LEMMA TableStepIsEngineStep ==
  ASSUME TableTypeOK, [TableNext]_tvars
  PROVE  [Next]_vars
<1>1. CASE \E s \in Socks : NewClientConnected(s)
  BY <1>1 DEF NewClientConnected
<1>2. ASSUME NEW s \in Socks, ClientData(s) PROVE Next
  <2>1. m_hash_sock2node[s] \in Tasks /\ DataReceived(m_hash_sock2node[s])
    BY <1>2 DEF ClientData, TableTypeOK
  <2>2. QED
    BY <2>1 DEF Next, Arrival
<1>3. ASSUME NEW s \in Socks, ClientDisconnected(s) PROVE Next
  <2>1. m_hash_sock2node[s] \in Tasks /\ Terminate(m_hash_sock2node[s])
    BY <1>3 DEF ClientDisconnected, TableTypeOK
  <2>2. QED
    BY <2>1 DEF Next, Arrival
<1>4. CASE ReapDeadNodes \/ \E t \in Tasks : DeferredDelete(t)
  BY <1>4 DEF ReapDeadNodes, DeferredDelete
<1>5. CASE tablePc = "idle" /\ MainStep /\ UNCHANGED tableVars
  BY <1>5 DEF Next
<1>6. ASSUME NEW w \in Workers, Message(w) PROVE [Next]_vars
  <2>1. CASE MessageDone(w)
    BY <2>1 DEF MessageDone, Next, Worker, RunStep
  <2>2. CASE ~MessageDone(w)
    BY <1>6, <2>2 DEF Message, ClaimIdentity, LoginClient, FindDestin, RegisitClientUUID,
                      AnnounceUUID, ReadDestin, RelayToDestin
  <2>3. QED
    BY <2>1, <2>2
<1>7. CASE \E w \in Workers : EngineStep(w)
  BY <1>7 DEF EngineStep, Next
<1>8. CASE UNCHANGED tvars
  BY <1>8 DEF tvars
<1>9. QED
  BY <1>1, <1>2, <1>3, <1>4, <1>5, <1>6, <1>7, <1>8 DEF TableNext, MainTable

\* What a step of the engine leaves alone for the table.
LEMMA EngineFrame ==
  ASSUME IInv, NEW v \in Workers, Worker(v)
  PROVE  /\ UNCHANGED bTermSet
         /\ \A w \in Workers \ {v} : pc'[w] = pc[w] /\ held'[w] = held[w]
BY DEF IInv, TypeOK, Worker, SetStopMark, QuitThread, FetchNewTask, SetBusy, LockRun, RunStep, RunEntry,
       Peek, FilterMessage, PopEmpty, ReadSize, FinalSize, OnlyPc, DelRef, RePush, UnlockRun,
       Finish, Goto, nodeVars, workVars

-----------------------------------------------------------------------------
(* Types, and the place of a worker that interprets a message.             *)

LEMMA TableTypeStep ==
  ASSUME IInv, TableTypeOK, MsgInv, [TableNext]_tvars
  PROVE  TableTypeOK'
<1> USE DEF TableTypeOK, hashVars, lifeVars, msgVars
<1>1. ASSUME NEW s \in Socks, NewClientConnected(s) PROVE TableTypeOK'
  BY <1>1 DEF NewClientConnected
<1>2. ASSUME NEW s \in Socks, ClientDisconnected(s) PROVE TableTypeOK'
  <2>1. m_hash_sock2node[s] \in Tasks
    BY <1>2 DEF ClientDisconnected
  <2>2. QED
    BY <1>2, <2>1 DEF ClientDisconnected
<1>3. CASE ReapDeadNodes
  BY <1>3 DEF ReapDeadNodes
<1>4. ASSUME NEW t \in Tasks, DeferredDelete(t) PROVE TableTypeOK'
  BY <1>4 DEF DeferredDelete
<1>5. ASSUME NEW w \in Workers, NEW u \in Users, ClaimIdentity(w, u) \/ LoginClient(w, u)
      PROVE  TableTypeOK'
  BY <1>5 DEF ClaimIdentity, LoginClient, MsgGoto
<1>6. ASSUME NEW w \in Workers, RegisitClientUUID(w) PROVE TableTypeOK'
  <2>1. held[w] \in Tasks
    BY <1>6 DEF RegisitClientUUID, MsgInv, IInv, HeldInv
  <2>2. QED
    BY <1>6, <2>1 DEF RegisitClientUUID, MsgGoto
<1>7. ASSUME NEW w \in Workers, AnnounceUUID(w) PROVE TableTypeOK'
  BY <1>7 DEF AnnounceUUID, MsgGoto
<1>8. ASSUME NEW w \in Workers, NEW u \in Users, FindDestin(w, u) PROVE TableTypeOK'
  BY <1>8 DEF FindDestin, MsgGoto
<1>9. ASSUME NEW w \in Workers, ReadDestin(w) PROVE TableTypeOK'
  BY <1>9 DEF ReadDestin, MsgGoto
<1>10. ASSUME NEW w \in Workers, RelayToDestin(w) PROVE TableTypeOK'
  BY <1>10 DEF RelayToDestin, MsgGoto
<1>11. CASE UNCHANGED tableVars
  BY <1>11 DEF tableVars
<1>12. QED
  BY <1>1, <1>2, <1>3, <1>4, <1>5, <1>6, <1>7, <1>8, <1>9, <1>10, <1>11
     DEF TableNext, MainTable, ClientData, Message, MessageDone, EngineStep, tvars

LEMMA MsgStep ==
  ASSUME IInv, TableTypeOK, MsgInv, [TableNext]_tvars
  PROVE  MsgInv'
<1> USE DEF MsgInv
<1>1. CASE MainTable
  <2>1. UNCHANGED <<pc, held, ipc>>
    <3>1. CASE \E s \in Socks : ClientData(s) \/ ClientDisconnected(s)
      BY <1>1, <3>1, MainFrame DEF ClientData, ClientDisconnected, TableTypeOK, Arrival,
                                   tableVars, msgVars, workVars
    <3>2. CASE MainStep /\ UNCHANGED tableVars
      BY <3>2, MainFrame DEF tableVars, msgVars, workVars
    <3>3. CASE UNCHANGED vars /\ UNCHANGED msgVars
      BY <3>3 DEF vars, workVars, msgVars
    <3>4. QED
      BY <1>1, <3>1, <3>2, <3>3
         DEF MainTable, NewClientConnected, ReapDeadNodes, DeferredDelete
  <2>2. QED
    BY <2>1
<1>2. ASSUME NEW v \in Workers, Message(v), ~MessageDone(v) PROVE MsgInv'
  <2>1. /\ UNCHANGED pc /\ pc[v] = "deal"
        /\ \A w \in Workers \ {v} : ipc'[w] = ipc[w]
    BY <1>2 DEF Message, ClaimIdentity, LoginClient, FindDestin, RegisitClientUUID, AtMessage,
                AnnounceUUID, ReadDestin, RelayToDestin, MsgGoto, TableTypeOK, vars, workVars
  <2>2. QED
    BY <2>1
<1>3. ASSUME NEW v \in Workers, MessageDone(v) \/ EngineStep(v) PROVE MsgInv'
  <2>1. UNCHANGED ipc /\ ipc[v] = "none"
    BY <1>3 DEF MessageDone, EngineStep, tableVars, msgVars, TableTypeOK
  <2>2. Worker(v)
    BY <1>3 DEF MessageDone, EngineStep, Worker, RunStep
  <2>3. QED
    BY <2>1, <2>2, EngineFrame
<1>4. CASE UNCHANGED tvars
  BY <1>4 DEF tvars, tableVars, msgVars, vars, workVars
<1>5. QED
  BY <1>1, <1>2, <1>3, <1>4 DEF TableNext

-----------------------------------------------------------------------------
(* The life of a node.                                                     *)

\* A step that touches neither the socket table, nor the lists, nor the marks.
LEMMA LifeFrame ==
  ASSUME LifeInv, UNCHANGED <<m_hash_sock2node, lifeVars, bTermSet>>
  PROVE  LifeInv'
BY DEF LifeInv, LifeCycle, Connected, lifeVars

LEMMA LifeStep ==
  ASSUME IInv, TableTypeOK, LifeInv, [TableNext]_tvars
  PROVE  LifeInv'
<1> USE DEF hashVars, lifeVars
<1>1. ASSUME NEW s \in Socks, NewClientConnected(s) PROVE LifeInv'
  <2>1. PICK t \in Tasks \ born :
          /\ m_hash_sock2node' = [m_hash_sock2node EXCEPT ![s] = t]
          /\ born' = born \cup {t}
    BY <1>1 DEF NewClientConnected
  <2>2. /\ m_hash_sock2node[s] = NoTask
        /\ UNCHANGED <<m_nodeToBeDel, deleteLaterQueue, deleted, bTermSet>>
    BY <1>1 DEF NewClientConnected, vars, nodeVars
  <2>3. t # NoTask /\ ~bTermSet[t] /\ t \notin Connected
    BY EngineAssumption DEF LifeInv, LifeCycle
  <2>4. Connected' = Connected \cup {t}
    BY <2>1, <2>2, <2>3 DEF Connected, TableTypeOK
  <2>5. \A s1, s2 \in Socks : m_hash_sock2node'[s1] = m_hash_sock2node'[s2] /\ s1 # s2
                                => m_hash_sock2node'[s1] = NoTask
    BY <2>1, <2>3 DEF Connected, TableTypeOK, LifeInv, LifeCycle
  <2>6. QED
    BY <2>1, <2>2, <2>3, <2>4, <2>5 DEF LifeInv, LifeCycle
<1>2. ASSUME NEW s \in Socks, ClientDisconnected(s) PROVE LifeInv'
  <2> DEFINE t == m_hash_sock2node[s]
  <2>1. /\ t \in Tasks /\ t # NoTask
        /\ m_hash_sock2node' = [m_hash_sock2node EXCEPT ![s] = NoTask]
        /\ bTermSet' = [bTermSet EXCEPT ![t] = TRUE]
        /\ m_nodeToBeDel' = m_nodeToBeDel \cup {t}
        /\ UNCHANGED <<born, deleteLaterQueue, deleted>>
    BY <1>2, EngineAssumption DEF ClientDisconnected, Terminate, TableTypeOK
  <2>2. t \in Connected /\ t \in born
    BY <2>1 DEF Connected, LifeInv, LifeCycle
  <2>3. Connected' = Connected \ {t}
    BY <2>1 DEF Connected, TableTypeOK, LifeInv, LifeCycle
  <2>4. \A s1, s2 \in Socks : m_hash_sock2node'[s1] = m_hash_sock2node'[s2] /\ s1 # s2
                                => m_hash_sock2node'[s1] = NoTask
    BY <2>1 DEF TableTypeOK, LifeInv, LifeCycle
  <2>5. bTermSet \in [Tasks -> BOOLEAN] /\ born \subseteq Tasks
    BY DEF IInv, TypeOK, TableTypeOK
  <2>6. \A r \in Tasks : bTermSet'[r] <=> bTermSet[r] \/ r = t
    BY <2>1, <2>5
  <2> HIDE DEF t
  <2>7. \A r \in born' : bTermSet'[r] <=> r \notin Connected'
    BY <2>1, <2>2, <2>3, <2>5, <2>6 DEF LifeInv, LifeCycle
  <2>8. QED
    BY <2>1, <2>2, <2>3, <2>4, <2>6, <2>7 DEF LifeInv, LifeCycle
<1>3. CASE ReapDeadNodes
  <2> DEFINE toBedel == {t \in m_nodeToBeDel : refCount[t] = 0}
  <2>1. /\ UNCHANGED <<m_hash_sock2node, born, deleted, bTermSet>>
        /\ deleteLaterQueue' = deleteLaterQueue \cup toBedel
        /\ m_nodeToBeDel' = m_nodeToBeDel \ toBedel
    BY <1>3 DEF ReapDeadNodes, vars, nodeVars
  <2>2. toBedel \subseteq m_nodeToBeDel /\ Connected' = Connected
    BY <2>1 DEF Connected
  <2> HIDE DEF toBedel
  <2>3. QED
    BY <2>1, <2>2 DEF LifeInv, LifeCycle
<1>4. ASSUME NEW t \in Tasks, DeferredDelete(t) PROVE LifeInv'
  <2>1. /\ UNCHANGED <<m_hash_sock2node, born, m_nodeToBeDel, bTermSet>>
        /\ t \in deleteLaterQueue /\ deleteLaterQueue' = deleteLaterQueue \ {t}
        /\ deleted' = deleted \cup {t}
    BY <1>4 DEF DeferredDelete, vars, nodeVars
  <2>2. Connected' = Connected
    BY <2>1 DEF Connected
  <2>3. QED
    BY <2>1, <2>2 DEF LifeInv, LifeCycle
<1>5. CASE \E s \in Socks : ClientData(s)
  BY <1>5, LifeFrame DEF ClientData, DataReceived, tableVars
<1>6. CASE MainStep /\ UNCHANGED tableVars
  BY <1>6, LifeFrame DEF MainStep, MainPush, Scan, Fire, HandleFinished, nodeVars, tableVars
<1>7. ASSUME NEW w \in Workers, Message(w), ~MessageDone(w) PROVE LifeInv'
  BY <1>7, LifeFrame DEF Message, ClaimIdentity, LoginClient, FindDestin, RegisitClientUUID,
     AnnounceUUID, ReadDestin, RelayToDestin, vars, nodeVars
<1>8. ASSUME NEW w \in Workers, MessageDone(w) \/ EngineStep(w) PROVE LifeInv'
  <2>1. Worker(w) /\ UNCHANGED tableVars
    BY <1>8 DEF MessageDone, EngineStep, Worker, RunStep
  <2>2. QED
    BY <2>1, EngineFrame, LifeFrame DEF tableVars
<1>9. CASE UNCHANGED tvars
  BY <1>9, LifeFrame DEF tvars, vars, nodeVars, tableVars
<1>10. QED
  BY <1>1, <1>2, <1>3, <1>4, <1>5, <1>6, <1>7, <1>8, <1>9 DEF TableNext, MainTable

-----------------------------------------------------------------------------
(* What the other servers have been told.                                  *)

\* Somebody is going to tell them of user u.
Announcing(u) == \E w \in Workers : ipc[w] = "announce" /\ m_uuid[held[w]] = u

LEMMA KnownStep ==
  ASSUME IInv, TableTypeOK, MsgInv, LoggedInKnown, [TableNext]_tvars
  PROVE  LoggedInKnown'
<1> USE DEF hashVars, msgVars
<1>0. \A u \in Users : m_hash_uuid2node[u] \in Tasks => remote[u] \/ Announcing(u)
  BY DEF LoggedInKnown, Announcing
<1> SUFFICES \A u \in Users : m_hash_uuid2node'[u] \in Tasks => remote'[u] \/ Announcing(u)'
  BY DEF LoggedInKnown, Announcing
<1> DEFINE Goal == \A u \in Users : m_hash_uuid2node'[u] \in Tasks => remote'[u] \/ Announcing(u)'
<1>1. ASSUME NEW s \in Socks, ClientDisconnected(s) PROVE Goal
  <2>1. UNCHANGED <<pc, held, ipc, m_uuid>>
    BY <1>1 DEF ClientDisconnected, Terminate, workVars
  <2>2. \A u \in Users : Announcing(u)' <=> Announcing(u)
    BY <2>1 DEF Announcing
  <2>3. ASSUME NEW u \in Users, m_hash_uuid2node'[u] \in Tasks
        PROVE  m_hash_uuid2node'[u] = m_hash_uuid2node[u] /\ remote'[u] = remote[u]
    <3>1. u \notin OwnEntry(m_hash_sock2node[s])
      BY <1>1, <2>3, EngineAssumption DEF ClientDisconnected
    <3>2. QED
      BY <1>1, <3>1 DEF ClientDisconnected, TableTypeOK
  <2>4. QED
    BY <1>0, <2>2, <2>3
<1>2. ASSUME NEW v \in Workers, NEW n \in Users, ClaimIdentity(v, n) \/ LoginClient(v, n)
      PROVE  Goal
  <2>1. /\ AtMessage(v) /\ m_uuid' = [m_uuid EXCEPT ![held[v]] = n]
        /\ ipc' = [ipc EXCEPT ![v] = "register"]
        /\ UNCHANGED <<held, m_hash_uuid2node, remote>>
    BY <1>2 DEF ClaimIdentity, LoginClient, MsgGoto, vars, workVars
  <2>2. ASSUME NEW w \in Workers, ipc[w] = "announce"
        PROVE  ipc'[w] = "announce" /\ m_uuid'[held'[w]] = m_uuid[held[w]]
    <3>1. w # v /\ pc[v] = "deal" /\ pc[w] = "deal"
      BY <2>1, <2>2 DEF AtMessage, MsgInv
    <3>2. held[w] # held[v] /\ held[w] \in Tasks
      BY <3>1 DEF IInv, HeldInv, LockInv, Running
    <3>3. QED
      BY <2>1, <2>2, <3>1, <3>2 DEF TableTypeOK
  <2>3. QED
    BY <1>0, <2>1, <2>2 DEF Announcing
<1>3. ASSUME NEW v \in Workers, RegisitClientUUID(v) PROVE Goal
  <2>1. /\ ipc[v] = "register" /\ ipc' = [ipc EXCEPT ![v] = "announce"]
        /\ m_hash_uuid2node' = [m_hash_uuid2node EXCEPT ![m_uuid[held[v]]] = held[v]]
        /\ UNCHANGED <<held, m_uuid, remote>>
    BY <1>3 DEF RegisitClientUUID, MsgGoto, vars, workVars
  <2>2. \A u \in Users : Announcing(u) => Announcing(u)'
    BY <2>1 DEF Announcing, TableTypeOK
  <2>3. \A u \in Users : u = m_uuid[held[v]] => Announcing(u)'
    BY <2>1 DEF Announcing, TableTypeOK
  <2>4. \A u \in Users : u # m_uuid[held[v]] => m_hash_uuid2node'[u] = m_hash_uuid2node[u]
    BY <2>1 DEF TableTypeOK
  <2>5. QED
    BY <1>0, <2>1, <2>2, <2>3, <2>4
<1>4. ASSUME NEW v \in Workers, AnnounceUUID(v) PROVE Goal
  <2>1. /\ ipc' = [ipc EXCEPT ![v] = "none"]
        /\ remote' = [remote EXCEPT ![m_uuid[held[v]]] = TRUE]
        /\ UNCHANGED <<held, m_uuid, m_hash_uuid2node>>
    BY <1>4 DEF AnnounceUUID, MsgGoto, vars, workVars
  <2>2. \A u \in Users : u = m_uuid[held[v]] => remote'[u]
    BY <2>1 DEF TableTypeOK
  <2>3. \A u \in Users : u # m_uuid[held[v]] =>
                           remote'[u] = remote[u] /\ (Announcing(u) => Announcing(u)')
    BY <2>1 DEF Announcing, TableTypeOK
  <2>4. QED
    BY <1>0, <2>1, <2>2, <2>3
<1>5. ASSUME NEW v \in Workers, ReadDestin(v) PROVE Goal
  <2>1. /\ ipc[v] = "found" /\ \A w \in Workers \ {v} : ipc'[w] = ipc[w]
        /\ UNCHANGED <<held, m_uuid, remote>>
        /\ \A u \in Users : m_hash_uuid2node'[u] = m_hash_uuid2node[u]
                            \/ m_hash_uuid2node'[u] = NullEntry
    BY <1>5 DEF ReadDestin, MsgGoto, vars, workVars, TableTypeOK
  <2>2. \A u \in Users : Announcing(u) => Announcing(u)'
    BY <2>1 DEF Announcing
  <2>3. QED
    BY <1>0, <2>1, <2>2, TableAssumption
<1>6. ASSUME NEW v \in Workers,
             RelayToDestin(v) \/ \E u \in Users : FindDestin(v, u)
      PROVE  Goal
  <2>1. /\ ipc[v] # "announce" /\ \A w \in Workers \ {v} : ipc'[w] = ipc[w]
        /\ UNCHANGED <<held, m_uuid, remote, m_hash_uuid2node>>
    BY <1>6 DEF RelayToDestin, FindDestin, AtMessage, MsgGoto, vars, workVars, TableTypeOK
  <2>2. \A u \in Users : Announcing(u) => Announcing(u)'
    BY <2>1 DEF Announcing
  <2>3. QED
    BY <1>0, <2>1, <2>2
<1>7. ASSUME NEW v \in Workers, MessageDone(v) \/ EngineStep(v) PROVE Goal
  <2>1. Worker(v) /\ UNCHANGED tableVars /\ ipc[v] = "none"
    BY <1>7 DEF MessageDone, EngineStep, Worker, RunStep, MsgInv, TableTypeOK
  <2>2. \A w \in Workers \ {v} : held'[w] = held[w]
    BY <2>1, EngineFrame
  <2>3. \A u \in Users : Announcing(u) => Announcing(u)'
    BY <2>1, <2>2 DEF Announcing, tableVars
  <2>4. QED
    BY <1>0, <2>1, <2>3 DEF tableVars
<1>8. CASE UNCHANGED <<held, ipc, m_uuid, remote, m_hash_uuid2node>>
  BY <1>0, <1>8 DEF Announcing
<1>9. CASE MainTable /\ ~\E s \in Socks : ClientDisconnected(s)
  <2>1. CASE \E s \in Socks : ClientData(s)
    BY <1>8, <2>1, MainFrame DEF ClientData, TableTypeOK, Arrival, tableVars, workVars
  <2>2. CASE MainStep /\ UNCHANGED tableVars
    BY <1>8, <2>2, MainFrame DEF tableVars, workVars
  <2>3. QED
    BY <1>8, <1>9, <2>1, <2>2 DEF MainTable, NewClientConnected, ReapDeadNodes,
                                  DeferredDelete, vars, workVars
<1>10. CASE UNCHANGED tvars
  BY <1>8, <1>10 DEF tvars, vars, workVars, tableVars
<1>11. QED
  BY <1>1, <1>2, <1>3, <1>4, <1>5, <1>6, <1>7, <1>9, <1>10 DEF TableNext, Message

-----------------------------------------------------------------------------
(* The theorems.                                                           *)

LEMMA TableInitInv == TableInit => Init /\ TableInv
<1> SUFFICES ASSUME TableInit PROVE TableInv
  BY DEF TableInit
<1> USE EngineAssumption, TableAssumption DEF TableInit
<1>1. TableTypeOK /\ MsgInv
  BY DEF TableTypeOK, MsgInv
<1>2. Connected = {}
  BY DEF Connected
<1>3. LifeInv
  BY <1>2 DEF LifeInv, LifeCycle, Init
<1>4. LoggedInKnown
  BY DEF LoggedInKnown
<1>5. QED
  BY <1>1, <1>3, <1>4 DEF TableInv

\* The tables, the engine under them and its reference counts at every state.
THEOREM TableInvCorrect == TableSpec => [](IInv /\ TableInv)
<1>1. TableInit => IInv /\ TableInv
  BY TableInitInv, InitIInv
<1>2. IInv /\ TableInv /\ [TableNext]_tvars => (IInv /\ TableInv)'
  BY TableStepIsEngineStep, StepIInv, TableTypeStep, MsgStep, LifeStep, KnownStep DEF TableInv
<1>3. QED
  BY <1>1, <1>2, PTL DEF TableSpec

\* The client table changes the engine by the engine's own steps only, so all
\* that is proved of TaskEngine holds of the nodes of the table.
THEOREM TableImplementsEngine == TableSpec => Spec
<1>1. TableInit => Init
  BY DEF TableInit
<1>2. TableInv /\ [TableNext]_tvars => [Next]_vars
  BY TableStepIsEngineStep DEF TableInv
<1>3. QED
  BY <1>1, <1>2, TableInvCorrect, PTL DEF TableSpec, Spec

\* The table's variables keep their types.
THEOREM TableTypeCorrect == TableSpec => []TableTypeOK
<1>1. TableInv => TableTypeOK
  BY DEF TableInv
<1>2. QED
  BY <1>1, TableInvCorrect, PTL

\* A node is connected, waiting, queued for deletion or deleted, and in one of
\* these only: no list leaks a node or gives it to deleteLater twice.
THEOREM LifeCycleCorrect == TableSpec => []LifeCycle
<1>1. TableInv => LifeCycle
  BY DEF TableInv, LifeInv
<1>2. QED
  BY <1>1, TableInvCorrect, PTL

\* The other servers know of every user who can be reached here, or a worker is
\* about to tell them.
THEOREM LoggedInKnownCorrect == TableSpec => []LoggedInKnown
<1>1. TableInv => LoggedInKnown
  BY DEF TableInv
<1>2. QED
  BY <1>1, TableInvCorrect, PTL

\* The entry of a user is taken out by the disconnect of its own node alone.
THEOREM NewerLoginSurvivesCorrect == TableSpec => NewerLoginSurvives
<1> DEFINE OwnOnly == \A u \in Users :
                     m_hash_uuid2node[u] \in Tasks /\ m_hash_uuid2node'[u] = NoTask
                       => LET t == m_hash_uuid2node[u] IN ~bTermSet[t] /\ bTermSet'[t]
<1>1. ASSUME IInv, TableInv, [TableNext]_tvars PROVE [OwnOnly]_tvars
  <2> USE DEF hashVars
  <2>1. NoTask \notin Tasks
    BY EngineAssumption
  <2>2. ASSUME NEW s \in Socks, ClientDisconnected(s) PROVE OwnOnly
    <3> SUFFICES ASSUME NEW u \in Users, m_hash_uuid2node[u] \in Tasks,
                        m_hash_uuid2node'[u] = NoTask
                 PROVE  ~bTermSet[m_hash_uuid2node[u]] /\ bTermSet'[m_hash_uuid2node[u]]
      OBVIOUS
    <3>1. u \in OwnEntry(m_hash_sock2node[s])
      BY <2>1, <2>2 DEF ClientDisconnected
    <3>2. m_hash_uuid2node[u] = m_hash_sock2node[s] /\ m_hash_sock2node[s] \in Tasks
      BY <3>1 DEF OwnEntry
    <3>3. ~bTermSet[m_hash_sock2node[s]]
          /\ bTermSet' = [bTermSet EXCEPT ![m_hash_sock2node[s]] = TRUE]
      BY <2>2 DEF ClientDisconnected, Terminate
    <3>4. QED
      BY <1>1, <3>2, <3>3 DEF IInv, TypeOK
  <2>3. ASSUME NEW w \in Workers, RegisitClientUUID(w) PROVE OwnOnly
    <3>1. held[w] \in Tasks
      BY <1>1, <2>3 DEF RegisitClientUUID, TableInv, MsgInv, IInv, HeldInv
    <3>2. QED
      BY <1>1, <2>1, <2>3, <3>1 DEF RegisitClientUUID, TableInv, TableTypeOK
  <2>4. ASSUME NEW w \in Workers, ReadDestin(w) PROVE OwnOnly
    BY <1>1, <2>1, <2>4, TableAssumption DEF ReadDestin, TableInv, TableTypeOK
  <2>5. CASE UNCHANGED m_hash_uuid2node
    BY <2>1, <2>5
  <2>6. QED
    BY <1>1, <2>2, <2>3, <2>4, <2>5
       DEF TableNext, MainTable, NewClientConnected, ClientData, ReapDeadNodes,
           DeferredDelete, Message, ClaimIdentity, LoginClient, AnnounceUUID, FindDestin,
           RelayToDestin, MessageDone, EngineStep, tableVars
<1>2. QED
  BY <1>1, TableInvCorrect, PTL DEF TableSpec, NewerLoginSurvives

\* A dead node is given to deleteLater only when it is out of the queue and no
\* worker carries it: its reference count of 0 says exactly that.
THEOREM ReapedUnreferencedCorrect == TableSpec => ReapedUnreferenced
<1> DEFINE Unreferenced == \A t \in deleteLaterQueue' \ deleteLaterQueue :
                             /\ \A i \in 1..Len(m_list_tasks) : m_list_tasks[i] # t
                             /\ \A w \in Workers : held[w] = t => pc[w] \notin Carrying
<1>1. ASSUME IInv, TableInv, RefCountExact, [TableNext]_tvars PROVE [Unreferenced]_tvars
  <2> USE DEF lifeVars
  <2>1. ASSUME ReapDeadNodes, NEW t \in deleteLaterQueue' \ deleteLaterQueue
        PROVE  /\ \A i \in 1..Len(m_list_tasks) : m_list_tasks[i] # t
               /\ \A w \in Workers : held[w] = t => pc[w] \notin Carrying
    <3>1. t \in Tasks /\ refCount[t] = 0
      BY <1>1, <2>1 DEF ReapDeadNodes, TableInv, TableTypeOK
    <3>2. refCount[t] = Cardinality(EntriesOf(m_list_tasks, t)) + Cardinality(CarriersOf(t))
      BY <1>1, <3>1 DEF RefCountExact, EntriesOf, CarriersOf
    <3>3. /\ IsFiniteSet(EntriesOf(m_list_tasks, t)) /\ IsFiniteSet(CarriersOf(t))
          /\ Cardinality(EntriesOf(m_list_tasks, t)) \in Nat /\ Cardinality(CarriersOf(t)) \in Nat
      BY <1>1, <3>1, EntriesFinite, CarriersFinite DEF IInv, TypeOK
    <3>4. Cardinality(EntriesOf(m_list_tasks, t)) = 0 /\ Cardinality(CarriersOf(t)) = 0
      BY <3>1, <3>2, <3>3
    <3>5. EntriesOf(m_list_tasks, t) = {} /\ CarriersOf(t) = {}
      BY <3>3, <3>4, FS_EmptySet
    <3>6. QED
      BY <3>5 DEF EntriesOf, CarriersOf
  <2>2. CASE ~ReapDeadNodes
    <3>1. deleteLaterQueue' \subseteq deleteLaterQueue
      BY <1>1, <2>2 DEF TableNext, MainTable, NewClientConnected, ClientData,
         ClientDisconnected, DeferredDelete, Message, ClaimIdentity, LoginClient, AnnounceUUID,
         FindDestin, RegisitClientUUID, ReadDestin, RelayToDestin, MessageDone, EngineStep,
         tableVars, tvars
    <3>2. QED
      BY <3>1
  <2>3. QED
    BY <2>1, <2>2
<1>2. QED
  BY <1>1, TableInvCorrect, TableImplementsEngine, RefCountExactCorrect, PTL
     DEF TableSpec, ReapedUnreferenced
=============================================================================
