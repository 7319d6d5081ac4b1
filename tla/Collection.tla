------------------------------- MODULE Collection -------------------------------
(* Collection of recommendations into the cache, and the marker that tells the *)
(* dashboard a collection is in flight. A refresh marks the collection with a  *)
(* token of its own and sends it to the scheduled task, or collects at once;   *)
(* the cron task and a background refresh carry no token and own no marker.    *)
(* One tick is the five minutes after which a marker counts as abandoned.      *)
EXTENDS Naturals, FiniteSets

CONSTANTS
    ColTokens,      \* refreshes, each with the token it would mark
    ColCron,        \* the scheduled task of the cron rule
    ColBackground,  \* the stale-while-revalidate goroutine and cold starts
    ColSubs,        \* subscriptions of the account that is swept
    ColLastTick,    \* bound on the clock
    ColNobody

ASSUME ColAssumption ==
    /\ ColTokens \cap (ColBackground \cup {ColCron}) = {}
    /\ ColNobody \notin ColTokens \cup ColBackground \cup {ColCron}
    /\ ColLastTick \in Nat

ColRuns == ColTokens \cup ColBackground \cup {ColCron}
ColCollecting == {"sweeping", "swept", "clearing"}

VARIABLES colTick, colMark, colLock, colRun, colCache, colLost, colPassed
colVars == <<colTick, colMark, colLock, colRun, colCache, colLost, colPassed>>

ColIdle == [pc |-> "idle", asked |-> {}, seen |-> {}]
ColNoMark == [owner |-> ColNobody, at |-> 0]

ColInit ==
    /\ colTick = 0
    /\ colMark = ColNoMark          \* last_collection_owner_id, _started_at
    /\ colLock = ColNobody          \* the advisory lock of the task
    /\ colRun = [r \in ColRuns |-> ColIdle]
    /\ colCache = {}                \* subscriptions with a cached recommendation
    /\ colLost = {}                 \* tokens whose run crashed or failed to clear
    /\ colPassed = {}               \* tokens another refresh marked over

ColGo(r, pc) == colRun' = [colRun EXCEPT ![r].pc = pc]
ColEnd(r) == colRun' = [colRun EXCEPT ![r] = IF r \in ColTokens THEN [ColIdle EXCEPT !.pc = "done"] ELSE ColIdle]

\* Mutant: the marker is cleared whoever owns it.
ColClearedAny(t, ok) == IF ok THEN ColNoMark ELSE colMark

\* ClearCollectionStarted is scoped to the owner's token and is best effort.
ColCleared(t, ok) == IF ok /\ colMark.owner = t THEN ColNoMark ELSE colMark
ColClearing(t, ok) ==
    /\ colMark' = IF t \in ColTokens THEN ColCleared(t, ok) ELSE colMark
    /\ colLost' = IF ok THEN colLost ELSE colLost \cup ({t} \cap ColTokens)
------------------------------------------------------------------------------
\* postRefreshRecommendations: MarkCollectionStarted, or the reply 409.
ColMark(t) ==
    /\ colRun[t].pc = "idle"
    /\ colMark.owner = ColNobody \/ colMark.at < colTick
    /\ colMark' = [owner |-> t, at |-> colTick]
    /\ colPassed' = colPassed \cup ({colMark.owner} \ {ColNobody})
    /\ ColGo(t, "marked")
    /\ UNCHANGED <<colTick, colLock, colCache, colLost>>

\* runMarkedCollection: the asynchronous invocation, its rollback when it
\* fails, or a collection in this process when there is no function to invoke.
ColInvoke(t) ==
    /\ colRun[t].pc = "marked"
    /\ \/ ColGo(t, "queued") /\ UNCHANGED <<colMark, colLost>>
       \/ ColGo(t, "sweeping") /\ UNCHANGED <<colMark, colLost>>
       \/ ColEnd(t) /\ \E ok \in BOOLEAN : ColClearing(t, ok)
    /\ UNCHANGED <<colTick, colLock, colCache, colPassed>>

\* Mutant: a skipped run leaves its marker.
ColSkipKeepsMarker(t) ==
    /\ colRun[t].pc = "queued"
    /\ IF colLock = ColNobody
       THEN ColGo(t, "sweeping") /\ colLock' = t
       ELSE ColEnd(t) /\ UNCHANGED colLock
    /\ UNCHANGED <<colTick, colMark, colCache, colLost, colPassed>>

\* HandleScheduledTask: a run that finds the lock taken is skipped and gives
\* back its own marker. A lock check that fails is retried with the event.
ColDeliver(t) ==
    /\ colRun[t].pc = "queued"
    /\ IF colLock = ColNobody
       THEN ColGo(t, "sweeping") /\ colLock' = t /\ UNCHANGED <<colMark, colLost>>
       ELSE ColEnd(t) /\ UNCHANGED colLock /\ \E ok \in BOOLEAN : ColClearing(t, ok)
    /\ UNCHANGED <<colTick, colCache, colPassed>>

\* The cron task needs the lock; the background refresh and the cold start do
\* not take it, and one background refresh runs at a time (collecting).
ColStart(r) ==
    /\ r \in ColBackground \cup {ColCron} /\ colRun[r].pc = "idle"
    /\ r = ColCron => colLock = ColNobody
    /\ colLock' = IF r = ColCron THEN r ELSE colLock
    /\ ColGo(r, "sweeping")
    /\ UNCHANGED <<colTick, colMark, colCache, colLost, colPassed>>

------------------------------------------------------------------------------
\* fanOutPerAccount: each subscription answers, with or without a recommend-
\* ation, or fails; none answering is the error of the whole sweep.
ColSweep(r) == \E asked \in SUBSET ColSubs : \E seen \in SUBSET asked :
    /\ colRun[r].pc = "sweeping"
    /\ colRun' = [colRun EXCEPT ![r] = [pc |-> "swept", asked |-> asked, seen |-> seen]]
    /\ UNCHANGED <<colTick, colMark, colLock, colCache, colLost, colPassed>>

\* Mutant: an account that answered for one subscription is evicted for all.
ColEvictsUnasked(run) == IF run.asked # {} THEN ColSubs \ run.seen ELSE {}

\* The account is in the roster that authorizes eviction only when the sweep
\* was complete (tolerateIncompleteSweep).
ColEvicted(run) == IF run.asked = ColSubs THEN ColSubs \ run.seen ELSE {}

\* persistCollection: UpsertRecommendations in one transaction, or an error.
ColPersist(r) == \E ok \in BOOLEAN :
    /\ colRun[r].pc = "swept"
    /\ colCache' = IF ok THEN (colCache \ ColEvicted(colRun[r])) \cup colRun[r].seen ELSE colCache
    /\ colRun' = [colRun EXCEPT ![r] = [ColIdle EXCEPT !.pc = "clearing"]]
    /\ UNCHANGED <<colTick, colMark, colLock, colLost, colPassed>>

\* The deferred clear, and then the release of the lock.
ColFinish(r) == \E ok \in BOOLEAN :
    /\ colRun[r].pc = "clearing" /\ (r \notin ColTokens => ok)
    /\ ColClearing(r, ok)
    /\ IF colLock = r THEN ColGo(r, "releasing") ELSE ColEnd(r)
    /\ UNCHANGED <<colTick, colLock, colCache, colPassed>>

ColRelease(r) ==
    /\ colRun[r].pc = "releasing"
    /\ colLock' = ColNobody
    /\ ColEnd(r)
    /\ UNCHANGED <<colTick, colMark, colCache, colLost, colPassed>>

\* The process dies, or the event is given up; the session's lock goes too.
ColCrash(r) ==
    /\ colRun[r].pc \notin {"idle", "done"}
    /\ ColEnd(r)
    /\ colLost' = colLost \cup ({r} \cap ColTokens)
    /\ colLock' = IF colLock = r THEN ColNobody ELSE colLock
    /\ UNCHANGED <<colTick, colMark, colCache, colPassed>>

ColWait ==
    /\ colTick < ColLastTick
    /\ colTick' = colTick + 1
    /\ UNCHANGED <<colMark, colLock, colRun, colCache, colLost, colPassed>>

ColNext ==
    \/ \E t \in ColTokens : ColMark(t) \/ ColInvoke(t) \/ ColDeliver(t)
    \/ \E r \in ColRuns : \/ ColStart(r) \/ ColSweep(r) \/ ColPersist(r)
                          \/ ColFinish(r) \/ ColRelease(r) \/ ColCrash(r)
    \/ ColWait

ColSpec == ColInit /\ [][ColNext]_colVars
------------------------------------------------------------------------------
\* A marker is never left behind: the run it belongs to is on its way, unless
\* that run crashed or could not reach the database (releaseSkippedCollection-
\* Marker, rollbackMarkedCollection and the deferred clear between them).
ColMarkerBacked ==
    colMark.owner # ColNobody =>
        \/ colMark.owner \in colLost
        \/ colRun[colMark.owner].pc \in ColCollecting \cup {"marked", "queued"}

\* A collection keeps its marker to the end whatever other runs finish, fail or
\* are skipped, until a refresh marks over it (ClearCollectionStarted, #261).
ColMarkerHeld ==
    \A t \in ColTokens :
        colRun[t].pc \in ColCollecting \cup {"queued"} /\ t \notin colPassed
            => colMark.owner = t

\* The collection marker excludes what it must and is never left without a holder.
ColMarkerSound == ColMarkerBacked /\ ColMarkerHeld

\* A cached recommendation disappears only in a persist whose sweep asked its
\* subscription and was told there is none (tolerateIncompleteSweep, #1652).
ColNothingLost ==
    [][\A s \in colCache \ colCache' : \E r \in ColRuns :
            /\ colRun[r].pc = "swept" /\ colRun'[r].pc = "clearing"
            /\ s \in colRun[r].asked /\ s \notin colRun[r].seen]_colVars

================================================================================
