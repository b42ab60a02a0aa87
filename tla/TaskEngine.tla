----------------------------- MODULE TaskEngine -----------------------------
(***************************************************************************)
(* The task engine of zpserver (pipeline/zp_pipeline, zp_plworkingthread,  *)
(* zp_pltaskbase) together with the tasks it executes: the client nodes of *)
(* smartlink/st_clientnode_basetrans, whose run() drains a list of         *)
(* received blocks.  The cluster nodes (cluster/zp_clusternode) run the    *)
(* same code on an engine of their own.                                    *)
(*                                                                         *)
(* Processes: the main thread, which owns the thread vector, receives the  *)
(* network events and the taskFinished signals, and pushes tasks; and the  *)
(* working threads, each an event loop with a queue of evt_start_work and  *)
(* evt_stop_work events addressed to it.  A step is one critical section,  *)
(* one racy read or write of a shared flag, or one emitted signal.         *)
(***************************************************************************)
EXTENDS Integers, Sequences, FiniteSets

CONSTANTS Tasks,       \* the client nodes that can be scheduled
          NoTask,      \* "no node": the null zp_plTaskBase pointer
          MaxWorkers,  \* bound: how many zp_plWorkingThread are ever created
          PoolSize,    \* how many of them forkServer has created at the start
          Batch,       \* m_nMessageBlockSize: blocks handled in one run()
          MaxBlocks    \* bound: how many blocks a node ever receives

ASSUME EngineAssumption ==
  /\ NoTask \notin Tasks
  /\ MaxWorkers \in Nat /\ PoolSize \in 0..MaxWorkers
  /\ Batch \in Nat \ {0}
  /\ MaxBlocks \in Nat

Workers == 1..MaxWorkers      \* a worker is named by its creation order
NoWorker == 0

VARIABLES
  m_list_tasks,          \* the FIFO of tasks, guarded by m_mutex_protect
  refCount,              \* per task: zp_plTaskBase::refCount
  m_mutex_run,           \* per task: the worker that holds m_mutex_run
  m_list_RawData,        \* per task: received blocks, by sequence number
  rcvd,                  \* per task: number of blocks pushed so far
  dealt,                 \* per task: the last block given to filter_message
  bTermSet,              \* per task: its client has disconnected
  m_vec_workingThreads,  \* the pool, owned by the main thread
  m_nExistingThreads,    \* workers that have not been counted out
  created,               \* how many workers addThreads has made
  pc, held, nMessage, res,  \* per worker: position and locals of FetchNewTask
  m_bBusy,               \* per worker: the flag pushTask reads without a lock
  mailbox,               \* per worker: queued evt_start_work / evt_stop_work
  finished,              \* taskFinished signals queued to the main thread
  mainPc, pushing, scanAt   \* the main thread inside pushTask

taskVars == <<refCount, m_mutex_run>>
nodeVars == <<m_list_RawData, rcvd, dealt, bTermSet>>
poolVars == <<m_vec_workingThreads, m_nExistingThreads, created>>
workVars == <<pc, held, nMessage, res, m_bBusy>>
eventVars == <<mailbox, finished>>
mainVars == <<mainPc, pushing, scanAt>>
vars == <<m_list_tasks, taskVars, nodeVars, poolVars, workVars, eventVars,
          mainVars>>

Init ==
  /\ m_list_tasks = <<>>
  /\ refCount = [t \in Tasks |-> 0]
  /\ m_mutex_run = [t \in Tasks |-> NoWorker]
  /\ m_list_RawData = [t \in Tasks |-> <<>>]
  /\ rcvd = [t \in Tasks |-> 0]
  /\ dealt = [t \in Tasks |-> 0]
  /\ bTermSet = [t \in Tasks |-> FALSE]
  /\ m_vec_workingThreads = [i \in 1..PoolSize |-> i]
  /\ m_nExistingThreads = PoolSize
  /\ created = PoolSize
  /\ pc = [w \in Workers |-> "idle"]
  /\ held = [w \in Workers |-> NoTask]
  /\ nMessage = [w \in Workers |-> 0]
  /\ res = [w \in Workers |-> 0]
  /\ m_bBusy = [w \in Workers |-> FALSE]
  /\ mailbox = [w \in Workers |-> <<>>]
  /\ finished = <<>>
  /\ mainPc = "loop" /\ pushing = NoTask /\ scanAt = 0

-----------------------------------------------------------------------------
(* Helpers shared by the main thread and the workers.                      *)

\* m_mutex_protect is free.  Its other critical sections are one step each;
\* only the unlock of setStopMark is apart, for canClose looks without a lock.
Unlocked == \A w \in Workers : pc[w] # "leaving"

PushTask_NoAddRef(t) ==          \* mutant: the queue holds no reference
  Unlocked /\ m_list_tasks' = Append(m_list_tasks, t) /\ UNCHANGED refCount

\* The critical section of pushTask: queue the task and count the reference.
PushTask(t) ==
  /\ Unlocked
  /\ m_list_tasks' = Append(m_list_tasks, t)
  /\ refCount' = [refCount EXCEPT ![t] = @ + 1]

OnFinishedTask_OffByOne(w) ==    \* mutant: the last queued task is ignored
  /\ Unlocked
  /\ mailbox' = IF Len(m_list_tasks) > 1 /\ pc[w] # "stopped"
                THEN [mailbox EXCEPT ![w] = Append(@, "fetch")] ELSE mailbox

\* on_finished_task: if tasks are queued, emit evt_start_work to w.  The event
\* is lost when w has left its event loop (setStopMark, then deleteLater).
OnFinishedTask(w) ==
  /\ Unlocked
  /\ mailbox' = IF m_list_tasks # <<>> /\ pc[w] # "stopped"
                THEN [mailbox EXCEPT ![w] = Append(@, "fetch")] ELSE mailbox

Goto(w, label) == pc' = [pc EXCEPT ![w] = label]

\* What a worker does that changes its position only.
OnlyPc == UNCHANGED <<m_list_tasks, taskVars, nodeVars, poolVars, held,
                      nMessage, res, m_bBusy, eventVars, mainVars>>

-----------------------------------------------------------------------------
(* A working thread: setStopMark, FetchNewTask and, inside it, run().      *)

\* setStopMark up to the counter: m_bRuning is cleared, so every later event is
\* ignored, and the worker holds m_mutex_protect.
SetStopMark(w) ==
  /\ pc[w] = "idle" /\ mailbox[w] # <<>> /\ Head(mailbox[w]) = "stop"
  /\ Unlocked
  /\ Goto(w, "leaving")
  /\ m_nExistingThreads' = m_nExistingThreads - 1
  /\ mailbox' = [mailbox EXCEPT ![w] = <<>>]
  /\ UNCHANGED <<m_list_tasks, taskVars, nodeVars, m_vec_workingThreads,
                 created, held, nMessage, res, m_bBusy, finished, mainVars>>

\* The rest of setStopMark: the mutex is released, deleteLater, the event loop
\* of the thread is told to quit.
QuitThread(w) == pc[w] = "leaving" /\ Goto(w, "stopped") /\ OnlyPc

\* An evt_start_work is delivered and popTask executed; taskFinished is
\* emitted at once when there was no task.
FetchNewTask(w) ==
  /\ pc[w] = "idle" /\ mailbox[w] # <<>> /\ Head(mailbox[w]) = "fetch"
  /\ Unlocked
  /\ mailbox' = [mailbox EXCEPT ![w] = Tail(@)]
  /\ \/ /\ m_list_tasks = <<>>
        /\ finished' = Append(finished, w)
        /\ UNCHANGED <<m_list_tasks, pc, held>>
     \/ /\ m_list_tasks # <<>>
        /\ m_list_tasks' = Tail(m_list_tasks)
        /\ held' = [held EXCEPT ![w] = Head(m_list_tasks)]
        /\ Goto(w, "popped")
        /\ UNCHANGED finished
  /\ UNCHANGED <<taskVars, nodeVars, poolVars, nMessage, res, m_bBusy, mainVars>>

\* m_bBusy is set only now: until then pushTask still takes w for idle.
SetBusy(w) ==
  /\ pc[w] = "popped"
  /\ m_bBusy' = [m_bBusy EXCEPT ![w] = TRUE]
  /\ Goto(w, "lock")
  /\ UNCHANGED <<m_list_tasks, taskVars, nodeVars, poolVars, held, nMessage,
                 res, eventVars, mainVars>>

LockRun_Ignored(w) ==            \* mutant: the result of tryLock is ignored
  /\ pc[w] = "lock"
  /\ m_mutex_run' = [m_mutex_run EXCEPT ![held[w]] = w]
  /\ Goto(w, "run")
  /\ UNCHANGED <<m_list_tasks, refCount, nodeVars, poolVars, held, nMessage,
                 res, m_bBusy, eventVars, mainVars>>

\* LockRun is a tryLock: a task that another worker runs is put back.
LockRun(w) ==
  /\ pc[w] = "lock"
  /\ \/ /\ m_mutex_run[held[w]] = NoWorker
        /\ m_mutex_run' = [m_mutex_run EXCEPT ![held[w]] = w]
        /\ Goto(w, "run")
     \/ /\ m_mutex_run[held[w]] # NoWorker
        /\ Goto(w, "delref")
        /\ UNCHANGED m_mutex_run
  /\ UNCHANGED <<m_list_tasks, refCount, nodeVars, poolVars, held, nMessage,
                 res, m_bBusy, eventVars, mainVars>>

RunEntry_KeepTerminated(w) ==    \* mutant: a dead node asks to be kept
  /\ pc[w] = "run"
  /\ res' = [res EXCEPT ![w] = IF bTermSet[held[w]] THEN -1 ELSE 0]
  /\ nMessage' = [nMessage EXCEPT ![w] = Batch]
  /\ Goto(w, IF bTermSet[held[w]] THEN "delref" ELSE "peek")
  /\ UNCHANGED <<m_list_tasks, taskVars, nodeVars, poolVars, held, m_bBusy,
                 eventVars, mainVars>>

\* run(): a terminated node returns 0 at once, without looking at its data.
RunEntry(w) ==
  /\ pc[w] = "run"
  /\ res' = [res EXCEPT ![w] = 0]
  /\ nMessage' = [nMessage EXCEPT ![w] = Batch]
  /\ Goto(w, IF bTermSet[held[w]] THEN "delref" ELSE "peek")
  /\ UNCHANGED <<m_list_tasks, taskVars, nodeVars, poolVars, held, m_bBusy,
                 eventVars, mainVars>>

\* The block at the head of the list is copied under m_mutex_rawData; the
\* branch is chosen from the copy after the mutex has been released.
Peek(w) ==
  /\ pc[w] = "peek"
  /\ nMessage' = [nMessage EXCEPT ![w] = @ - 1]
  /\ Goto(w, IF m_list_RawData[held[w]] # <<>> THEN "deal" ELSE "empty")
  /\ UNCHANGED <<m_list_tasks, taskVars, nodeVars, poolVars, held, res,
                 m_bBusy, eventVars, mainVars>>

\* filter_message consumes the block and it is popped.  The head cannot have
\* changed since Peek: only the holder of m_mutex_run removes blocks.
FilterMessage(w) ==
  /\ pc[w] = "deal"
  /\ dealt' = [dealt EXCEPT ![held[w]] = Head(m_list_RawData[held[w]])]
  /\ m_list_RawData' = [m_list_RawData EXCEPT ![held[w]] = Tail(@)]
  /\ Goto(w, "size")
  /\ UNCHANGED <<m_list_tasks, taskVars, rcvd, bTermSet, poolVars, held,
                 nMessage, res, m_bBusy, eventVars, mainVars>>

\* The else branch, "pop empty cabs": it pops whatever is at the head now.
PopEmpty(w) ==
  /\ pc[w] = "empty"
  /\ m_list_RawData' = [m_list_RawData EXCEPT
                          ![held[w]] = IF @ # <<>> THEN Tail(@) ELSE @]
  /\ Goto(w, "size")
  /\ UNCHANGED <<m_list_tasks, taskVars, rcvd, dealt, bTermSet, poolVars, held,
                 nMessage, res, m_bBusy, eventVars, mainVars>>

\* End of the loop body and its condition (--nMessage >= 0 && nCurrSz != 0).
ReadSize(w) ==
  /\ pc[w] = "size"
  /\ Goto(w, IF m_list_RawData[held[w]] # <<>> /\ nMessage[w] > 0
             THEN "peek" ELSE "final")
  /\ OnlyPc

FinalSize_BudgetSpent(w) ==      \* mutant: a spent budget counts as finished
  /\ pc[w] = "final"
  /\ res' = [res EXCEPT ![w] = IF m_list_RawData[held[w]] = <<>>
                                  \/ nMessage[w] = 0 THEN 0 ELSE -1]
  /\ Goto(w, "delref")
  /\ UNCHANGED <<m_list_tasks, taskVars, nodeVars, poolVars, held, nMessage,
                 m_bBusy, eventVars, mainVars>>

\* The size is read once more; run() returns 0 for empty and -1 otherwise.
FinalSize(w) ==
  /\ pc[w] = "final"
  /\ res' = [res EXCEPT ![w] = IF m_list_RawData[held[w]] = <<>> THEN 0 ELSE -1]
  /\ Goto(w, "delref")
  /\ UNCHANGED <<m_list_tasks, taskVars, nodeVars, poolVars, held, nMessage,
                 m_bBusy, eventVars, mainVars>>

\* Does w own the run lock of the task it holds?
Owns(w) == m_mutex_run[held[w]] = w

\* The task goes back to the queue when run() asked for it or did not happen.
MustRepush(w) == ~Owns(w) \/ res[w] # 0

\* The reference of the queue entry is given up before the task is pushed
\* again and before the run lock is released.
DelRef(w) ==
  /\ pc[w] = "delref"
  /\ refCount' = [refCount EXCEPT ![held[w]] = @ - 1]
  /\ Goto(w, IF MustRepush(w) THEN "repush" ELSE "unlock")
  /\ UNCHANGED <<m_list_tasks, m_mutex_run, nodeVars, poolVars, held, nMessage,
                 res, m_bBusy, eventVars, mainVars>>

\* pushTask(ptr, false): nobody is woken, taskFinished will do that.
RePush(w) ==
  /\ pc[w] = "repush"
  /\ PushTask(held[w])
  /\ Goto(w, IF Owns(w) THEN "unlock" ELSE "done")
  /\ UNCHANGED <<m_mutex_run, nodeVars, poolVars, held, nMessage, res, m_bBusy,
                 eventVars, mainVars>>

UnlockRun(w) ==
  /\ pc[w] = "unlock"
  /\ m_mutex_run' = [m_mutex_run EXCEPT ![held[w]] = NoWorker]
  /\ Goto(w, "done")
  /\ UNCHANGED <<m_list_tasks, refCount, nodeVars, poolVars, held, nMessage,
                 res, m_bBusy, eventVars, mainVars>>

\* m_bBusy is cleared, taskFinished emitted, and the slot returns.
Finish(w) ==
  /\ pc[w] = "done"
  /\ m_bBusy' = [m_bBusy EXCEPT ![w] = FALSE]
  /\ finished' = Append(finished, w)
  /\ held' = [held EXCEPT ![w] = NoTask]
  /\ nMessage' = [nMessage EXCEPT ![w] = 0]
  /\ res' = [res EXCEPT ![w] = 0]
  /\ Goto(w, "idle")
  /\ UNCHANGED <<m_list_tasks, taskVars, nodeVars, poolVars, mailbox, mainVars>>

\* run() of the held task, between LockRun and delRef.
RunStep(w) ==
  \/ RunEntry(w) \/ Peek(w) \/ FilterMessage(w) \/ PopEmpty(w)
  \/ ReadSize(w) \/ FinalSize(w)

Worker(w) ==
  \/ SetStopMark(w) \/ QuitThread(w) \/ FetchNewTask(w) \/ SetBusy(w)
  \/ LockRun(w) \/ RunStep(w) \/ DelRef(w) \/ RePush(w) \/ UnlockRun(w) \/ Finish(w)

-----------------------------------------------------------------------------
(* The main thread.                                                        *)

DataReceived_Front(t) ==         \* mutant: new data overtakes older data
  /\ mainPc = "loop" /\ ~bTermSet[t] /\ rcvd[t] < MaxBlocks
  /\ rcvd' = [rcvd EXCEPT ![t] = @ + 1]
  /\ m_list_RawData' = [m_list_RawData EXCEPT ![t] = <<rcvd[t] + 1>> \o @]
  /\ IF m_list_RawData[t] = <<>>
     THEN mainPc' = "push" /\ pushing' = t
     ELSE UNCHANGED <<mainPc, pushing>>
  /\ UNCHANGED <<m_list_tasks, taskVars, dealt, bTermSet, poolVars, workVars,
                 eventVars, scanAt>>

\* on_evt_Data_recieved: push_new_data, then pushTask unless the node already
\* had a block waiting (nblocks <= 1).
DataReceived(t) ==
  /\ mainPc = "loop" /\ ~bTermSet[t] /\ rcvd[t] < MaxBlocks
  /\ rcvd' = [rcvd EXCEPT ![t] = @ + 1]
  /\ m_list_RawData' = [m_list_RawData EXCEPT ![t] = Append(@, rcvd[t] + 1)]
  /\ IF m_list_RawData[t] = <<>>
     THEN mainPc' = "push" /\ pushing' = t
     ELSE UNCHANGED <<mainPc, pushing>>
  /\ UNCHANGED <<m_list_tasks, taskVars, dealt, bTermSet, poolVars, workVars,
                 eventVars, scanAt>>

\* pushTask(pClientNode): the critical section ...
MainPush ==
  /\ mainPc = "push"
  /\ PushTask(pushing)
  /\ mainPc' = "scan" /\ pushing' = NoTask /\ scanAt' = 1
  /\ UNCHANGED <<m_mutex_run, nodeVars, poolVars, workVars, eventVars>>

\* ... then the search for the first worker that looks idle ...
Scan ==
  /\ mainPc = "scan"
  /\ \/ /\ scanAt > Len(m_vec_workingThreads)
        /\ mainPc' = "loop" /\ scanAt' = 0
     \/ /\ scanAt <= Len(m_vec_workingThreads)
        /\ m_bBusy[m_vec_workingThreads[scanAt]]
        /\ scanAt' = scanAt + 1 /\ UNCHANGED mainPc
     \/ /\ scanAt <= Len(m_vec_workingThreads)
        /\ ~m_bBusy[m_vec_workingThreads[scanAt]]
        /\ mainPc' = "fire" /\ UNCHANGED scanAt
  /\ UNCHANGED <<m_list_tasks, taskVars, nodeVars, poolVars, workVars,
                 eventVars, pushing>>

\* ... which is told to fetch, and the loop is left.
Fire ==
  /\ mainPc = "fire"
  /\ OnFinishedTask(m_vec_workingThreads[scanAt])
  /\ mainPc' = "loop" /\ scanAt' = 0
  /\ UNCHANGED <<m_list_tasks, taskVars, nodeVars, poolVars, workVars, finished,
                 pushing>>

\* A queued taskFinished signal reaches on_finished_task.
HandleFinished ==
  /\ mainPc = "loop" /\ finished # <<>>
  /\ OnFinishedTask(Head(finished))
  /\ finished' = Tail(finished)
  /\ UNCHANGED <<m_list_tasks, taskVars, nodeVars, poolVars, workVars, mainVars>>

\* on_evt_ClientDisconnected, as far as the engine sees it: the node is marked
\* and, being out of the socket table, gets no data any more.
Terminate(t) ==
  /\ mainPc = "loop" /\ ~bTermSet[t]
  /\ bTermSet' = [bTermSet EXCEPT ![t] = TRUE]
  /\ UNCHANGED <<m_list_tasks, taskVars, m_list_RawData, rcvd, dealt, poolVars,
                 workVars, eventVars, mainVars>>

\* addThreads(n): n new workers at the end of the vector.
AddThreads(n) ==
  /\ mainPc = "loop" /\ n \in 1..(MaxWorkers - created) /\ Unlocked
  /\ m_vec_workingThreads' = m_vec_workingThreads \o [i \in 1..n |-> created + i]
  /\ m_nExistingThreads' = m_nExistingThreads + n
  /\ created' = created + n
  /\ UNCHANGED <<m_list_tasks, taskVars, nodeVars, workVars, eventVars, mainVars>>

\* removeThreads takes workers from the end; -1, or too many, means all.
RemoveCount(n) ==
  IF n < 0 \/ n > Len(m_vec_workingThreads) THEN Len(m_vec_workingThreads) ELSE n

\* The positions of the vector that removeThreads(n) removes.
RemovedSlots(n) ==
  Len(m_vec_workingThreads) - RemoveCount(n) + 1 .. Len(m_vec_workingThreads)

RemoveThreads_CountEarly(n) ==   \* mutant: the counter follows the vector
  /\ mainPc = "loop" /\ RemoveCount(n) > 0
  /\ mailbox' = [w \in Workers |->
                   IF \E i \in RemovedSlots(n) : m_vec_workingThreads[i] = w
                   THEN Append(mailbox[w], "stop") ELSE mailbox[w]]
  /\ m_vec_workingThreads' = SubSeq(m_vec_workingThreads, 1,
                               Len(m_vec_workingThreads) - RemoveCount(n))
  /\ m_nExistingThreads' = m_nExistingThreads - RemoveCount(n)
  /\ UNCHANGED <<m_list_tasks, taskVars, nodeVars, created, workVars, finished,
                 mainVars>>

RemoveThreads_First(n) ==        \* mutant: the stop goes to the other end
  /\ mainPc = "loop" /\ RemoveCount(n) > 0
  /\ mailbox' = [w \in Workers |->
                   IF \E i \in 1..RemoveCount(n) : m_vec_workingThreads[i] = w
                   THEN Append(mailbox[w], "stop") ELSE mailbox[w]]
  /\ m_vec_workingThreads' = SubSeq(m_vec_workingThreads, 1,
                               Len(m_vec_workingThreads) - RemoveCount(n))
  /\ UNCHANGED <<m_list_tasks, taskVars, nodeVars, m_nExistingThreads, created,
                 workVars, finished, mainVars>>

RemoveThreads(n) ==
  /\ mainPc = "loop" /\ RemoveCount(n) > 0
  /\ mailbox' = [w \in Workers |->
                   IF \E i \in RemovedSlots(n) : m_vec_workingThreads[i] = w
                   THEN Append(mailbox[w], "stop") ELSE mailbox[w]]
  /\ m_vec_workingThreads' = SubSeq(m_vec_workingThreads, 1,
                               Len(m_vec_workingThreads) - RemoveCount(n))
  /\ UNCHANGED <<m_list_tasks, taskVars, nodeVars, m_nExistingThreads, created,
                 workVars, finished, mainVars>>

\* What the main thread does without being asked from outside.
MainStep == MainPush \/ Scan \/ Fire \/ HandleFinished

Arrival == \E t \in Tasks : DataReceived(t) \/ Terminate(t)

Resize == \/ \E n \in 1..MaxWorkers : AddThreads(n)
          \/ \E n \in -1..MaxWorkers : RemoveThreads(n)

-----------------------------------------------------------------------------
Next == (\E w \in Workers : Worker(w)) \/ MainStep \/ Arrival \/ Resize

Spec == Init /\ [][Next]_vars

\* Every thread is scheduled again and again and no event loop stops turning;
\* data, disconnects and pool changes come from outside and owe nothing.
Fairness == (\A w \in Workers : WF_vars(Worker(w))) /\ WF_vars(MainStep)

FairSpec == Spec /\ Fairness

-----------------------------------------------------------------------------
(* Properties.                                                             *)

Labels == {"idle", "popped", "lock", "run", "peek", "deal", "empty", "size",
           "final", "delref", "repush", "unlock", "done", "leaving", "stopped"}

\* The types of all variables; run() returns only 0 or -1.
TypeOK ==
  /\ m_list_tasks \in Seq(Tasks)
  /\ refCount \in [Tasks -> Int]
  /\ m_mutex_run \in [Tasks -> Workers \cup {NoWorker}]
  /\ m_list_RawData \in [Tasks -> Seq(Nat)]
  /\ rcvd \in [Tasks -> Nat]
  /\ dealt \in [Tasks -> Nat]
  /\ bTermSet \in [Tasks -> BOOLEAN]
  /\ m_vec_workingThreads \in Seq(Workers)
  /\ m_nExistingThreads \in Int
  /\ created \in 0..MaxWorkers
  /\ pc \in [Workers -> Labels]
  /\ held \in [Workers -> Tasks \cup {NoTask}]
  /\ nMessage \in [Workers -> 0..Batch]
  /\ res \in [Workers -> {0, -1}]
  /\ m_bBusy \in [Workers -> BOOLEAN]
  /\ mailbox \in [Workers -> Seq({"fetch", "stop"})]
  /\ finished \in Seq(Workers)
  /\ mainPc \in {"loop", "push", "scan", "fire"}
  /\ pushing \in Tasks \cup {NoTask}
  /\ scanAt \in Nat

\* Positions inside run().
Running == {"run", "peek", "deal", "empty", "size", "final"}

\* Two workers are never inside run() of one task: run() keeps the state of
\* the message parser in plain members and relies on LockRun alone.
RunExclusive ==
  \A v, w \in Workers :
    pc[v] \in Running /\ pc[w] \in Running /\ held[v] = held[w] => v = w

\* Positions at which a worker still carries the reference of a queue entry.
Carrying == Running \cup {"popped", "lock", "delref"}

\* refCount counts the queue entries of a task and the workers that took one
\* from the queue and have not executed delRef: the dead node list is freed by
\* this number alone.
RefCountExact ==
  \A t \in Tasks :
    refCount[t] =
      Cardinality({i \in 1..Len(m_list_tasks) : m_list_tasks[i] = t}) +
      Cardinality({w \in Workers : held[w] = t /\ pc[w] \in Carrying})

\* Worker w is going to look at the data of its task again, or to queue it.
WillReturn(w) ==
  \/ pc[w] \in Running \cup {"popped", "lock"}
  \/ pc[w] \in {"delref", "repush"} /\ MustRepush(w)

\* A live node with unread blocks is queued, about to be queued, or in the
\* hands of a worker that will see the blocks.  on_evt_Data_recieved pushes the
\* node only for the first block of an empty list, so a node that lost this
\* would never be run again.
NoForgottenData ==
  \A t \in Tasks :
    m_list_RawData[t] # <<>> /\ ~bTermSet[t] =>
      \/ \E i \in 1..Len(m_list_tasks) : m_list_tasks[i] = t
      \/ mainPc = "push" /\ pushing = t
      \/ \E w \in Workers : held[w] = t /\ WillReturn(w)

\* canClose (m_nExistingThreads = 0) is true only when every worker that was
\* made has left FetchNewTask for good and holds no task: the main frame deletes
\* tasks and engine after it.  It is not true only when all of them have
\* stopped: the last one may still have to release the engine's mutex and to
\* quit its thread, which canClose, reading without the lock, does not see.
CanCloseMeansQuiet ==
  m_nExistingThreads = 0 =>
    \A w \in 1..created : pc[w] \in {"leaving", "stopped"} /\ held[w] = NoTask

\* A node's blocks reach filter_message in the order of arrival and none twice,
\* whichever workers run the node.
DealtInOrder ==
  [][\A t \in Tasks : dealt'[t] # dealt[t] => dealt'[t] > dealt[t]]_vars

\* A signal, event or step under way that will lead to another popTask.
Wakeup ==
  \/ finished # <<>>
  \/ mainPc \in {"scan", "fire"}
  \/ \E w \in Workers : pc[w] \notin {"idle", "leaving", "stopped"} \/ mailbox[w] # <<>>

\* forkServer has made the pool and nobody has changed it since.
PoolUntouched == created = PoolSize /\ Len(m_vec_workingThreads) = PoolSize

\* While the pool is what forkServer made it the queue is never left with tasks
\* in it and everybody asleep: the unlocked reads of m_bBusy in pushTask lose no
\* wakeup.
NoLostWakeup == PoolUntouched /\ m_list_tasks # <<>> => Wakeup

\* Every block received by a live node leaves its list again.
AllDataConsumed ==
  \A t \in Tasks, n \in 1..MaxBlocks :
    (rcvd[t] >= n) ~> (rcvd[t] - Len(m_list_RawData[t]) >= n \/ bTermSet[t])

\* A terminated node leaves the queue and the workers for good, so that its
\* reference count reaches 0 and the node can be deleted.
TerminatedDrains ==
  \A t \in Tasks : bTermSet[t] ~> [](refCount[t] = 0)

\* Every worker removed from the vector executes setStopMark, so canClose
\* becomes true after removeThreads(-1) and shutdown does not wait for ever.
RemovedWorkerStops ==
  \A w \in Workers :
    (w <= created /\ \A i \in 1..Len(m_vec_workingThreads) :
                        m_vec_workingThreads[i] # w) ~> pc[w] = "stopped"

\* The pool is never changed.
PoolKept == []PoolUntouched

\* As long as nobody changes the pool, every block is consumed and every
\* terminated node released; a task put back by a worker that is being removed
\* is announced to that worker alone.
ServedWhilePoolKept == PoolKept => AllDataConsumed /\ TerminatedDrains

\* The run lock is the runner of the node.
Delivery == INSTANCE SerialDelivery WITH
              inbox <- m_list_RawData, runner <- m_mutex_run

\* Towards each client node the engine is a SerialDelivery: everything else the
\* engine does, queue, wakeups and pool changes, is invisible to the node.
DeliverySpec == Delivery!Spec
=============================================================================
