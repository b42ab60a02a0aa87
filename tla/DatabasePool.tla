---------------------------- MODULE DatabasePool ----------------------------
(***************************************************************************)
(* The pool of database connections (database/databaseresource).  The main *)
(* thread adds and removes named connections, every working thread clones  *)
(* the one it asks for, two ledgers record the clones, and a thread of the *)
(* pool's own tests the named connections and opens them again.  All of it *)
(* is serialised by m_mutex_reg: an action is one critical section.        *)
(*                                                                         *)
(* QSqlDatabase (external) keeps the connections by name.  Its database()  *)
(* opens a connection that is closed, and may be called from any thread,   *)
(* as in the versions of Qt 5 this code was written for.                   *)
(***************************************************************************)
EXTENDS Naturals, FiniteSets

CONSTANTS
  Names,          \* of connections, settings "dbres<i>/name"
  Threads,        \* working threads, ever
  Paras,          \* connection parameters: databases, as far as they matter
  NoPara,
  Tested,         \* the parameters that come with a testSQL
  MaxFaults       \* bound on outages, lost connections and refused statements

ASSUME PoolAssumption ==
  /\ NoPara \notin Paras /\ Tested \subseteq Paras
  /\ MaxFaults \in Nat

VARIABLES
  m_dbNames,             \* parameters of the names added and not removed
  template,              \* the named connections, used by the checking thread
  clone,                 \* the connections of the working threads
  m_ThreadsDB,           \* name -> the threads with a clone
  m_ThreadOwnedMainDBs,  \* thread -> the names it has cloned
  bTerm,
  checker, sets,         \* the checking thread and what it has left to confirm
  up,                    \* databases that can be reached
  faults,
  stray                  \* history: clones the ledgers or a removal have missed

ledgers == <<m_ThreadsDB, m_ThreadOwnedMainDBs>>
outside == <<up, faults>>
checking == <<bTerm, checker, sets>>
poolVars == <<m_dbNames, template, clone, ledgers, checking, outside, stray>>

\* A connection that is not registered, and one that is: "stale" is open as
\* far as Qt knows, but the database has dropped it.
None == [para |-> NoPara, state |-> "none"]
Connection == [para : Paras, state : {"closed", "live", "stale"}]

\* What open() makes of a connection to p.
Opened(p) == [para |-> p, state |-> IF p \in up THEN "live" ELSE "closed"]
Dropped(c) == IF c.state = "live" THEN [c EXCEPT !.state = "stale"] ELSE c

\* QSqlDatabase::database: it opens what is closed.
database(c) == IF c.state = "closed" THEN Opened(c.para) ELSE c

PoolInit ==
  /\ m_dbNames = [n \in Names |-> NoPara]
  /\ template = [n \in Names |-> None]
  /\ clone = [w \in Threads |-> [n \in Names |-> None]]
  /\ m_ThreadsDB = [n \in Names |-> {}]
  /\ m_ThreadOwnedMainDBs = [w \in Threads |-> {}]
  /\ bTerm = FALSE /\ checker = "asleep" /\ sets = {}
  /\ up = Paras /\ faults = 0
  /\ stray = {}

-----------------------------------------------------------------------------
(* Called by the main thread.                                              *)

\* The named connection is opened, or given up and forgotten.
addConnection(n, p) ==
  LET ok == p \in up IN
    /\ template' = [template EXCEPT ![n] = IF ok THEN Opened(p) ELSE None]
    /\ m_dbNames' = [m_dbNames EXCEPT ![n] = IF ok THEN p ELSE NoPara]
    /\ UNCHANGED <<clone, ledgers, checking, outside, stray>>

\* The clones on record go with their template.  If the checking thread has
\* taken the template out, nothing but the name is removed.
remove_connection(n) ==
  LET present == template[n] # None
      closed == IF present THEN m_ThreadsDB[n] ELSE {}
  IN
    /\ m_dbNames' = [m_dbNames EXCEPT ![n] = NoPara]
    /\ template' = [template EXCEPT ![n] = None]
    /\ clone' = [w \in Threads |->
                   IF w \in closed THEN [clone[w] EXCEPT ![n] = None] ELSE clone[w]]
    /\ m_ThreadsDB' = [m_ThreadsDB EXCEPT ![n] = @ \ closed]
    /\ m_ThreadOwnedMainDBs' =
         [w \in Threads |-> IF present THEN m_ThreadOwnedMainDBs[w] \ {n}
                            ELSE m_ThreadOwnedMainDBs[w]]
    /\ stray' = (stray \ ({n} \X closed))
                \cup ({n} \X {w \in Threads \ closed : clone[w][n] # None})
    /\ UNCHANGED <<checking, outside>>

\* A working thread has finished: the clones it is known to own are removed.
on_finishedThread(w) ==
  LET owned == m_ThreadOwnedMainDBs[w] IN
    /\ clone' = [clone EXCEPT ![w] =
                   [n \in Names |-> IF n \in owned THEN None ELSE @[n]]]
    /\ m_ThreadsDB' = [n \in Names |-> IF n \in owned THEN m_ThreadsDB[n] \ {w}
                                       ELSE m_ThreadsDB[n]]
    /\ m_ThreadOwnedMainDBs' = [m_ThreadOwnedMainDBs EXCEPT ![w] = {}]
    /\ stray' = stray \ (owned \X {w})
    /\ UNCHANGED <<m_dbNames, template, checking, outside>>

TerminateMe ==
  /\ bTerm' = TRUE
  /\ UNCHANGED <<m_dbNames, template, clone, ledgers, checker, sets, outside, stray>>

-----------------------------------------------------------------------------
(* Called by a working thread.                                             *)

\* mutant: a fresh clone goes into one of the ledgers only
Clone_OneLedger(w, n) ==
  LET c == Opened(template[n].para)
      ok == c.state = "live"
  IN
    /\ clone' = [clone EXCEPT ![w][n] = c]
    /\ m_ThreadOwnedMainDBs' =
         [m_ThreadOwnedMainDBs EXCEPT ![w] = IF ok THEN @ \cup {n} ELSE @ \ {n}]
    /\ stray' = IF ok THEN stray \ {<<n, w>>} ELSE stray \cup {<<n, w>>}
    /\ UNCHANGED m_ThreadsDB

\* A fresh clone goes into both ledgers, one that cannot be opened into none.
Clone(w, n) ==
  LET c == Opened(template[n].para)
      ok == c.state = "live"
  IN
    /\ clone' = [clone EXCEPT ![w][n] = c]
    /\ m_ThreadsDB' = [m_ThreadsDB EXCEPT ![n] = IF ok THEN @ \cup {w} ELSE @ \ {w}]
    /\ m_ThreadOwnedMainDBs' =
         [m_ThreadOwnedMainDBs EXCEPT ![w] = IF ok THEN @ \cup {n} ELSE @ \ {n}]
    /\ stray' = IF ok THEN stray \ {<<n, w>>} ELSE stray \cup {<<n, w>>}

\* A clone that is open after all is used as it is; reading the time of its
\* last use enters it into one of the ledgers.
Reuse(w, n, c) ==
  /\ clone' = [clone EXCEPT ![w][n] = c]
  /\ m_ThreadOwnedMainDBs' = [m_ThreadOwnedMainDBs EXCEPT ![w] = @ \cup {n}]
  /\ UNCHANGED <<m_ThreadsDB, stray>>

\* The clone of thread w is asked for.  It is tested if it has not been used
\* for five seconds ("late"), or never, and replaced if the test fails.
databse(w, n, late) ==
  LET c == database(clone[w][n])
      tested == m_dbNames[n] \in Tested
                /\ (late \/ n \notin m_ThreadOwnedMainDBs[w])
      usable == c.state \in {"live", "stale"} /\ (tested => c.state = "live")
  IN
    /\ \/ template[n] = None /\ UNCHANGED <<clone, ledgers, stray>>
       \/ template[n] # None /\ usable /\ Reuse(w, n, c)
       \/ template[n] # None /\ ~usable /\ Clone(w, n)
    /\ UNCHANGED <<m_dbNames, template, checking, outside>>

\* A handler closes its connection after a failed statement.
close(w, n) ==
  /\ clone' = [clone EXCEPT ![w][n].state = "closed"]
  /\ UNCHANGED <<m_dbNames, template, ledgers, checking, outside, stray>>

-----------------------------------------------------------------------------
(* The checking thread.                                                    *)

\* mutant: the name is taken for a known one
confirmConnection_Unlisted(n) ==
  LET p == IF m_dbNames[n] = NoPara THEN CHOOSE q \in Paras : TRUE ELSE m_dbNames[n]
      c == template[n]
  IN template' =
       [template EXCEPT ![n] =
          IF c # None THEN IF p \in Tested /\ c.state = "stale" THEN None ELSE c
          ELSE IF p \in up THEN Opened(p) ELSE None]

\* The named connection is tested and taken out if that fails; one that has
\* been taken out is opened again; a name that has been removed is left alone.
confirmConnection(n) ==
  LET p == m_dbNames[n]
      c == template[n]
  IN template' =
       [template EXCEPT ![n] =
          IF p = NoPara THEN c
          ELSE IF c # None THEN IF p \in Tested /\ c.state = "stale" THEN None ELSE c
          ELSE IF p \in up THEN Opened(p) ELSE None]

\* run: the names are copied, then confirmed one by one.
StartRound ==
  /\ checker = "asleep"
  /\ \/ bTerm /\ checker' = "ended" /\ UNCHANGED sets
     \/ ~bTerm /\ checker' = "working" /\ sets' = {n \in Names : m_dbNames[n] # NoPara}
  /\ UNCHANGED <<m_dbNames, template, clone, ledgers, bTerm, outside, stray>>

ConfirmNext(n) ==
  /\ checker = "working" /\ n \in sets
  /\ confirmConnection(n)
  /\ sets' = IF bTerm THEN {} ELSE sets \ {n}
  /\ UNCHANGED <<m_dbNames, clone, ledgers, bTerm, checker, outside, stray>>

EndRound ==
  /\ checker = "working" /\ sets = {}
  /\ checker' = IF bTerm THEN "ended" ELSE "asleep"
  /\ UNCHANGED <<m_dbNames, template, clone, ledgers, bTerm, sets, outside, stray>>

-----------------------------------------------------------------------------
(* The databases.                                                          *)

\* A database cannot be reached any more: connections to it are dead.
Outage(p) ==
  LET drop(c) == IF c.para = p THEN Dropped(c) ELSE c IN
    /\ faults < MaxFaults /\ p \in up
    /\ faults' = faults + 1
    /\ up' = up \ {p}
    /\ template' = [n \in Names |-> drop(template[n])]
    /\ clone' = [w \in Threads |-> [n \in Names |-> drop(clone[w][n])]]
    /\ UNCHANGED <<m_dbNames, ledgers, checking, stray>>

Recover(p) ==
  /\ p \notin up
  /\ up' = up \cup {p}
  /\ UNCHANGED <<m_dbNames, template, clone, ledgers, checking, faults, stray>>

\* A database drops one connection, the one that is tested or one in use.
Drop(n) ==
  /\ faults < MaxFaults
  /\ faults' = faults + 1
  /\ \/ /\ template[n].state = "live"
        /\ template' = [template EXCEPT ![n] = Dropped(@)]
        /\ UNCHANGED clone
     \/ /\ \E w \in Threads : /\ clone[w][n].state = "live"
                              /\ clone' = [clone EXCEPT ![w][n] = Dropped(@)]
        /\ UNCHANGED template
  /\ UNCHANGED <<m_dbNames, ledgers, checking, up, stray>>

\* Steps that nobody calls.
PoolItself ==
  \/ StartRound \/ EndRound
  \/ \E n \in Names : ConfirmNext(n) \/ Drop(n)
  \/ \E p \in Paras : Outage(p) \/ Recover(p)

\* Whoever calls: forkServer adds a name only after all have been removed.
PoolNext ==
  \/ PoolItself \/ TerminateMe
  \/ \E n \in Names :
       \/ remove_connection(n)
       \/ \E p \in Paras : m_dbNames[n] = NoPara /\ addConnection(n, p)
  \/ \E w \in Threads :
       \/ on_finishedThread(w)
       \/ \E n \in Names, late \in BOOLEAN : databse(w, n, late)
       \/ \E n \in Names : clone[w][n] # None /\ close(w, n)

PoolSpec == PoolInit /\ [][PoolNext]_poolVars

-----------------------------------------------------------------------------
(* Properties.                                                             *)

PoolTypeOK ==
  /\ m_dbNames \in [Names -> Paras \cup {NoPara}]
  /\ template \in [Names -> Connection \cup {None}]
  /\ clone \in [Threads -> [Names -> Connection \cup {None}]]
  /\ m_ThreadsDB \in [Names -> SUBSET Threads]
  /\ m_ThreadOwnedMainDBs \in [Threads -> SUBSET Names]
  /\ bTerm \in BOOLEAN /\ checker \in {"asleep", "working", "ended"}
  /\ sets \subseteq Names /\ up \subseteq Paras /\ faults \in Nat
  /\ stray \subseteq Names \X Threads

\* A name that has been removed stays removed, although the checking thread
\* goes on with the names it has copied before.
RemovedStaysRemoved ==
  \A n \in Names : template[n] # None => template[n].para = m_dbNames[n]

\* A thread's connection is known to both ledgers, so that it goes when the
\* name is removed or the thread ends, and it leads to the database the name
\* stands for now.  Not so a clone that could not be opened, until it is made
\* anew, and one that was there when the name was removed with its template
\* already taken out.
CloneAccounted ==
  \A n \in Names, w \in Threads :
    clone[w][n] # None /\ <<n, w>> \notin stray =>
      /\ w \in m_ThreadsDB[n] /\ n \in m_ThreadOwnedMainDBs[w]
      /\ clone[w][n].para = m_dbNames[n]
=============================================================================
