-------------------------------- MODULE ApiUsage --------------------------------
(* The request counts of one API key. Each request is booked in memory and     *)
(* starts a goroutine that flushes the counter; singleflight collapses flushes *)
(* that overlap into one write and hands all its callers the same result.      *)
EXTENDS Naturals, FiniteSets

CONSTANTS
    UseRequests,    \* requests made with the key, one goroutine each
    UseRounds       \* maxAPIKeyUsageFlushRounds

ASSUME UseAssumption == UseRounds \in Nat \ {0, 1}

VARIABLES usePending, useFlight, useStored, useLost, usePc, useLeft
useVars == <<usePending, useFlight, useStored, useLost, usePc, useLeft>>

UseLanded == [delta |-> 0, drained |-> FALSE, members |-> {}]   \* no flush in flight

UseInit ==
    /\ usePending = 0
    /\ useFlight = UseLanded
    /\ useStored = 0 /\ useLost = 0
    /\ usePc = [r \in UseRequests |-> "new"]
    /\ useLeft = [r \in UseRequests |-> UseRounds]

\* RecordUsageAsync books before it starts the goroutine.
UseBook(r) ==
    /\ usePc[r] = "new"
    /\ usePending' = usePending + 1
    /\ usePc' = [usePc EXCEPT ![r] = "round"]
    /\ UNCHANGED <<useFlight, useStored, useLost, useLeft>>

\* Group.Do: the caller leads a flush, or waits for the one in flight.
UseDo(r) ==
    /\ usePc[r] = "round"
    /\ useFlight' = [useFlight EXCEPT !.members = @ \cup {r}]
    /\ usePc' = [usePc EXCEPT ![r] = "waiting"]
    /\ useLeft' = [useLeft EXCEPT ![r] = @ - 1]
    /\ UNCHANGED <<usePending, useStored, useLost>>

\* Mutant: the counter is read and not reset.
UseDrainKeeps ==
    /\ useFlight.members # {} /\ ~useFlight.drained
    /\ useFlight' = [useFlight EXCEPT !.delta = usePending, !.drained = TRUE]
    /\ UNCHANGED <<usePending, useStored, useLost, usePc, useLeft>>

\* drainPendingUsage takes the whole count.
UseDrain ==
    /\ useFlight.members # {} /\ ~useFlight.drained
    /\ useFlight' = [useFlight EXCEPT !.delta = usePending, !.drained = TRUE]
    /\ usePending' = 0
    /\ UNCHANGED <<useStored, useLost, usePc, useLeft>>

\* RecordAPIKeyUsage adds the drained count in one statement, or fails and the
\* count is dropped; nothing is written for zero. The flight's callers resume.
UseLand == \E ok \in BOOLEAN :
    /\ useFlight.drained
    /\ useStored' = IF ok THEN useStored + useFlight.delta ELSE useStored
    /\ useLost' = IF ok THEN useLost ELSE useLost + useFlight.delta
    /\ usePc' = [r \in UseRequests |-> IF r \in useFlight.members THEN "peek" ELSE usePc[r]]
    /\ useFlight' = UseLanded
    /\ UNCHANGED <<usePending, useLeft>>

\* Mutant: a single round.
UseFlushesOnce(r) == FALSE

\* peekPendingUsage: another round while work remains and rounds are left.
UseStays(r) == usePending # 0 /\ useLeft[r] > 0

UsePeek(r) ==
    /\ usePc[r] = "peek"
    /\ usePc' = [usePc EXCEPT ![r] = IF UseStays(r) THEN "round" ELSE "done"]
    /\ UNCHANGED <<usePending, useFlight, useStored, useLost, useLeft>>

UseNext ==
    \/ UseDrain \/ UseLand
    \/ \E r \in UseRequests : UseBook(r) \/ UseDo(r) \/ UsePeek(r)

\* The goroutines are scheduled; a request need not be made.
UseFairness ==
    /\ WF_useVars(UseDrain) /\ WF_useVars(UseLand)
    /\ \A r \in UseRequests : WF_useVars(UseDo(r)) /\ WF_useVars(UsePeek(r))

UseSpec == UseInit /\ [][UseNext]_useVars /\ UseFairness
------------------------------------------------------------------------------
UseBooked == Cardinality({r \in UseRequests : usePc[r] # "new"})

\* Each booked request is in exactly one place: still pending, in the flush in
\* flight, in the store, or dropped by a failed write (flushPendingUsage).
UseCountedOnce == UseBooked = usePending + useFlight.delta + useStored + useLost

\* A pending count always has a goroutine that will flush it, even one that
\* was booked after the flush it joined had drained the counter, and even when
\* every goroutine gives up after its bounded rounds (RecordUsageAsync).
UseNothingStranded ==
    usePending > 0 => \E r \in UseRequests : usePc[r] \in {"round", "waiting", "peek"}

\* A pending count is flushed, whatever else arrives.
UseFlushed == (usePending > 0) ~> (usePending = 0)

\* Every use of a key is counted exactly once, in memory or in the row, and what is
\* in memory has somebody to flush it.
UseBooksSound == UseCountedOnce /\ UseNothingStranded

================================================================================
