--------------------------- MODULE SerialDelivery ---------------------------
(***************************************************************************)
(* What the task engine promises to a client node, without threads, queue  *)
(* or events: blocks enter an inbox in order of arrival; at most one       *)
(* worker at a time runs the node; the runner takes blocks from the front  *)
(* only.  A block taken is given to filter_message or, in the else branch  *)
(* of run(), discarded (smartlink/st_clientnode_basetrans.cpp, run).       *)
(***************************************************************************)
EXTENDS Naturals, Sequences

CONSTANTS Tasks,     \* the client nodes
          Workers,   \* the threads that may run them
          NoWorker   \* nobody runs the node

VARIABLES inbox,     \* per node: blocks received and not yet taken
          rcvd,      \* per node: number of blocks received
          dealt,     \* per node: the last block dealt with
          runner     \* per node: the worker inside run(), or NoWorker

vars == <<inbox, rcvd, dealt, runner>>

Init ==
  /\ inbox = [t \in Tasks |-> <<>>]
  /\ rcvd = [t \in Tasks |-> 0]
  /\ dealt = [t \in Tasks |-> 0]
  /\ runner = [t \in Tasks |-> NoWorker]

\* push_new_data
Receive(t) ==
  /\ rcvd' = [rcvd EXCEPT ![t] = @ + 1]
  /\ inbox' = [inbox EXCEPT ![t] = Append(@, rcvd[t] + 1)]
  /\ UNCHANGED <<dealt, runner>>

\* LockRun and UnlockRun
Begin(t, w) ==
  /\ runner[t] = NoWorker
  /\ runner' = [runner EXCEPT ![t] = w]
  /\ UNCHANGED <<inbox, rcvd, dealt>>

End(t) ==
  /\ runner[t] # NoWorker
  /\ runner' = [runner EXCEPT ![t] = NoWorker]
  /\ UNCHANGED <<inbox, rcvd, dealt>>

\* One turn of the loop in run(): the first block is dealt with ...
Deal(t) ==
  /\ runner[t] # NoWorker /\ inbox[t] # <<>>
  /\ dealt' = [dealt EXCEPT ![t] = Head(inbox[t])]
  /\ inbox' = [inbox EXCEPT ![t] = Tail(@)]
  /\ UNCHANGED <<rcvd, runner>>

\* ... or popped unseen.
Discard(t) ==
  /\ runner[t] # NoWorker /\ inbox[t] # <<>>
  /\ inbox' = [inbox EXCEPT ![t] = Tail(@)]
  /\ UNCHANGED <<rcvd, dealt, runner>>

Next ==
  \E t \in Tasks :
    \/ Receive(t) \/ End(t) \/ Deal(t) \/ Discard(t)
    \/ \E w \in Workers : Begin(t, w)

Spec == Init /\ [][Next]_vars

-----------------------------------------------------------------------------
TypeOK ==
  /\ inbox \in [Tasks -> Seq(Nat)]
  /\ rcvd \in [Tasks -> Nat]
  /\ dealt \in [Tasks -> Nat]
  /\ runner \in [Tasks -> Workers \cup {NoWorker}]

\* Node t's inbox holds its most recent blocks, consecutively, all newer than
\* the last block dealt with.
InboxOf(t) ==
  /\ dealt[t] + Len(inbox[t]) <= rcvd[t]
  /\ \A i \in 1..Len(inbox[t]) : inbox[t][i] = rcvd[t] - Len(inbox[t]) + i

InboxInv == \A t \in Tasks : InboxOf(t)

\* A node's blocks are dealt with in the order of arrival and none twice.
InOrder ==
  [][\A t \in Tasks : dealt'[t] # dealt[t] => dealt'[t] > dealt[t]]_vars
=============================================================================
