--------------------------------- MODULE Tasks ---------------------------------
(* Scheduled tasks, one of each kind at a time under an advisory lock of the    *)
(* database. Of the tasks, the collection of the analytics is modelled step by  *)
(* step; the other modules have the others.                                     *)
EXTENDS Naturals, FiniteSets

CONSTANTS
    TskProcs,       \* processes
    TskOther,       \* tasks other than the collection of the analytics
    TskAhead,       \* months that get their partition ahead
    TskKeep,        \* months that are kept
    TskLastMonth,   \* bound on time
    TskMaxLost,     \* bound on processes killed and sessions lost
    TskNobody

ASSUME TskAssumption ==
    /\ {TskAhead, TskKeep} \subseteq Nat \ {0}
    /\ {TskLastMonth, TskMaxLost} \subseteq Nat
    /\ TskNobody \notin TskProcs

VARIABLES
    tskLock,        \* for each task the process whose session holds the lock
    tskLeft,        \* locks nobody will release, of a session in the pool
    tskProc,        \* what a process is at, and whether its lock's session is lost
    tskMonth,
    tskParts,       \* months that have a partition
    tskRows,        \* snapshots: their month, and whether in the default partition
    tskEnsured,     \* months in which the partitions were ensured
    tskWritten,     \* months in which a snapshot was written
    tskLost
tskVars == <<tskLock, tskLeft, tskProc, tskMonth, tskParts, tskRows, tskEnsured,
             tskWritten, tskLost>>
tskAnalytics == <<tskMonth, tskParts, tskRows, tskEnsured, tskWritten>>

TskTasks == TskOther \cup {"analytics_collect"}
TskIdle == [at |-> "idle", task |-> "none", lost |-> FALSE]

\* The migration makes the first partitions.
TskInit ==
    /\ tskLock = [t \in TskTasks \cup {"unknown"} |-> TskNobody] /\ tskLeft = {}
    /\ tskProc = [p \in TskProcs |-> TskIdle]
    /\ tskMonth = 0 /\ tskParts = 0 .. TskAhead
    /\ tskRows = {} /\ tskEnsured = {} /\ tskWritten = {}
    /\ tskLost = 0

TskAt(p, at) == tskProc[p].at = at
TskGo(p, at) == tskProc' = [tskProc EXCEPT ![p].at = at]
TskRest(p) == tskProc' = [tskProc EXCEPT ![p] = TskIdle]
------------------------------------------------------------------------------
(* Tasks. *)
\* An event names a task there is, or is refused; a path may name any.
TskArrive(p) == \E task \in TskTasks \cup {"unknown"}, via \in {"event", "path"} :
    /\ TskAt(p, "idle")
    /\ via = "event" => task # "unknown"
    /\ tskProc' = [tskProc EXCEPT ![p] = [TskIdle EXCEPT !.at = "locking", !.task = task]]
    /\ UNCHANGED <<tskLock, tskLeft, tskAnalytics, tskLost>>

\* TryAdvisoryLock: a session that holds the lock gets it again, and a session
\* with a lock that was left is one of the pool.
TskTryLock(p) ==
    LET t == tskProc[p].task IN
    /\ TskAt(p, "locking")
    /\ \/ /\ tskLock[t] = TskNobody
          /\ tskLock' = [tskLock EXCEPT ![t] = p]
          /\ TskGo(p, "running") /\ UNCHANGED tskLeft
       \/ tskLock[t] = p /\ t \in tskLeft /\ TskGo(p, "running") /\ UNCHANGED <<tskLock, tskLeft>>
       \/ TskRest(p) /\ UNCHANGED <<tskLock, tskLeft>>    \* skipped, or an error
    /\ UNCHANGED <<tskAnalytics, tskLost>>

\* dispatchTask, for a task that is none and for those of the other modules.
TskWork(p) ==
    /\ TskAt(p, "running") /\ tskProc[p].task # "analytics_collect"
    /\ TskGo(p, "releasing")
    /\ UNCHANGED <<tskLock, tskLeft, tskAnalytics, tskLost>>

\* A request that is over cannot release its lock: the session goes back to the
\* pool with it. One that got a lock that was left releases its own claim on it.
TskRelease(p) ==
    LET t == tskProc[p].task IN
    /\ TskAt(p, "releasing")
    /\ \/ /\ tskLock' = IF tskLock[t] = p /\ t \notin tskLeft /\ ~tskProc[p].lost
                     THEN [tskLock EXCEPT ![t] = TskNobody] ELSE tskLock
          /\ UNCHANGED tskLeft
       \/ /\ tskLeft' = IF tskLock[t] = p /\ ~tskProc[p].lost THEN tskLeft \cup {t} ELSE tskLeft
          /\ UNCHANGED tskLock
    /\ TskRest(p)
    /\ UNCHANGED <<tskAnalytics, tskLost>>

\* The pool closes a session of a certain age.
TskRecycle == \E t \in tskLeft :
    /\ \A p \in TskProcs : TskAt(p, "idle") \/ tskLock[t] # p \/ tskProc[p].task # t
    /\ tskLock' = [tskLock EXCEPT ![t] = TskNobody] /\ tskLeft' = tskLeft \ {t}
    /\ UNCHANGED <<tskProc, tskAnalytics, tskLost>>

\* The database ends the session of a task that runs on.
TskSession(p) ==
    LET t == tskProc[p].task IN
    /\ tskLost < TskMaxLost /\ tskLost' = tskLost + 1
    /\ t # "none" /\ tskLock[t] = p /\ ~TskAt(p, "locking")
    /\ tskLock' = [tskLock EXCEPT ![t] = TskNobody] /\ tskLeft' = tskLeft \ {t}
    /\ tskProc' = [tskProc EXCEPT ![p].lost = TRUE]
    /\ UNCHANGED tskAnalytics

\* A process is killed, and the database ends its sessions.
TskKill(p) ==
    LET mine == {t \in DOMAIN tskLock : tskLock[t] = p} IN
    /\ ~TskAt(p, "idle") /\ tskLost < TskMaxLost /\ tskLost' = tskLost + 1
    /\ tskLock' = [t \in DOMAIN tskLock |-> IF t \in mine THEN TskNobody ELSE tskLock[t]]
    /\ tskLeft' = tskLeft \ mine
    /\ TskRest(p)
    /\ UNCHANGED tskAnalytics
------------------------------------------------------------------------------
(* The collection of the analytics: each step is tried whatever became of the   *)
(* one before it, but for the end of the run's time.                            *)
\* Mutant: the months after this one only.
TskMonthsAhead(month) == month + 1 .. month + TskAhead

TskMonths(month) == month .. month + TskAhead

\* A partition cannot be made while the default one has rows for it, and all are
\* made in one transaction.
TskEnsure(p) ==
    LET missing == TskMonths(tskMonth) \ tskParts IN
    /\ TskAt(p, "running") /\ tskProc[p].task = "analytics_collect"
    /\ \/ /\ \A r \in tskRows : r.default => r.month \notin missing
          /\ tskParts' = tskParts \cup missing /\ tskEnsured' = tskEnsured \cup {tskMonth}
       \/ UNCHANGED <<tskParts, tskEnsured>>
    /\ TskGo(p, "collecting")
    /\ UNCHANGED <<tskLock, tskLeft, tskMonth, tskRows, tskWritten, tskLost>>

TskCollect(p) ==
    /\ TskAt(p, "collecting")
    /\ \/ /\ tskRows' = tskRows \cup {[month |-> tskMonth, default |-> tskMonth \notin tskParts]}
          /\ tskWritten' = tskWritten \cup {tskMonth}
          /\ TskGo(p, "retaining")
       \/ TskGo(p, "retaining") /\ UNCHANGED <<tskRows, tskWritten>>
       \/ TskGo(p, "releasing") /\ UNCHANGED <<tskRows, tskWritten>>
    /\ UNCHANGED <<tskLock, tskLeft, tskMonth, tskParts, tskEnsured, tskLost>>

\* Mutant: the month at the limit is dropped as well.
TskOldOrLimit(month) == month + TskKeep <= tskMonth

TskOld(month) == month + TskKeep < tskMonth

\* The default partition is not dropped from. The views are refreshed last.
TskRetain(p) ==
    /\ TskAt(p, "retaining")
    /\ \/ /\ tskParts' = {m \in tskParts : ~TskOld(m)}
          /\ tskRows' = {r \in tskRows : r.default \/ ~TskOld(r.month)}
       \/ UNCHANGED <<tskParts, tskRows>>
    /\ TskGo(p, "releasing")
    /\ UNCHANGED <<tskLock, tskLeft, tskMonth, tskEnsured, tskWritten, tskLost>>

TskNewMonth ==
    /\ tskMonth < TskLastMonth /\ tskMonth' = tskMonth + 1
    /\ UNCHANGED <<tskLock, tskLeft, tskProc, tskParts, tskRows, tskEnsured, tskWritten,
                   tskLost>>
------------------------------------------------------------------------------
TskNext ==
    \/ \E p \in TskProcs :
        \/ TskArrive(p) \/ TskTryLock(p) \/ TskWork(p) \/ TskRelease(p) \/ TskSession(p) \/ TskKill(p)
        \/ TskEnsure(p) \/ TskCollect(p) \/ TskRetain(p)
    \/ TskRecycle \/ TskNewMonth

TskSpec == TskInit /\ [][TskNext]_tskVars
------------------------------------------------------------------------------
(* Properties. *)
TskRunning(p, t) == tskProc[p].task = t /\ tskProc[p].at \notin {"idle", "locking"}

\* Two runs of a task overlap only if the database ended the session of one of
\* them (HandleScheduledTask: "to prevent concurrent execution of the same task").
TskExclusive ==
    \A p, q \in TskProcs, t \in TskTasks :
        p # q /\ TskRunning(p, t) /\ TskRunning(q, t) => tskProc[p].lost \/ tskProc[q].lost

\* A snapshot lands in the default partition only if no run of its month or the
\* months before, as far as partitions are made ahead, could ensure them
\* (handleCollectAnalytics).
TskPartitioned ==
    \A r \in tskRows : r.default =>
        \A m \in tskEnsured : m > r.month \/ m + TskAhead < r.month

\* Snapshots stay for the months that are kept.
TskRetained ==
    \A m \in tskWritten : m + TskKeep >= tskMonth => \E r \in tskRows : r.month = m

\* Tasks run alone, and the analytics keep what they collect.
TskSound == TskExclusive /\ TskPartitioned /\ TskRetained
==============================================================================
