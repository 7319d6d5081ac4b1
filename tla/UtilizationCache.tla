---------------------------- MODULE UtilizationCache ----------------------------
(* The utilization of the reservations is cached in a row that all processes read *)
(* and that whoever finds it too old fetches anew.                                *)
EXTENDS Naturals

CONSTANTS
    UtlSoft,        \* age up to which the row is served as it is
    UtlHard,        \* and up to which it is served while it is fetched anew
    UtlSlow,        \* longest time a fetch takes
    UtlReaders,
    UtlLastTick,    \* bound on time
    UtlNone

ASSUME UtlAssumption ==
    /\ {UtlSoft, UtlHard, UtlSlow} \subseteq Nat \ {0}
    /\ UtlHard > UtlSoft /\ UtlLastTick \in Nat
    /\ UtlNone \notin Nat

VARIABLES
    utlNow,
    utlLambda,      \* a function does not work between its invocations
    utlCached,      \* the row: when it was of, and when it was stored
    utlFetch,       \* fetches, of the readers and the one in the background
    utlServed       \* what a reader was served last: when it was of, and when it was served
utlVars == <<utlNow, utlLambda, utlCached, utlFetch, utlServed>>

UtlBackground == "background"

UtlInit ==
    /\ utlNow = 0
    /\ utlLambda \in BOOLEAN
    /\ utlCached = UtlNone
    /\ utlFetch = [r \in UtlReaders \cup {UtlBackground} |-> UtlNone]
    /\ utlServed = [r \in UtlReaders |-> UtlNone]
------------------------------------------------------------------------------
UtlAge == utlNow - utlCached.stored
UtlServe(r, of) == utlServed' = [utlServed EXCEPT ![r] = [of |-> of, at |-> utlNow]]
UtlStart(f) == utlFetch' = [utlFetch EXCEPT ![f] = utlNow]

\* Mutant: the age is not looked at, as long as there is a row to fetch anew.
UtlUsableAnyway == utlCached # UtlNone /\ ~utlLambda

\* What a process that works on its own serves while it fetches.
UtlUsable == utlCached # UtlNone /\ ~utlLambda /\ UtlAge < UtlHard

\* getOrFetch.
UtlAsk(r) ==
    /\ utlFetch[r] = UtlNone
    /\ \/ /\ utlCached # UtlNone /\ UtlAge < UtlSoft
          /\ UtlServe(r, utlCached.of) /\ UNCHANGED utlFetch
       \/ /\ UtlUsable /\ UtlAge >= UtlSoft
          /\ UtlServe(r, utlCached.of)
          /\ IF utlFetch[UtlBackground] = UtlNone THEN UtlStart(UtlBackground) ELSE UNCHANGED utlFetch
       \/ /\ utlCached # UtlNone => UtlAge >= UtlSoft
          /\ ~UtlUsable
          /\ UtlStart(r) /\ UNCHANGED utlServed
    /\ UNCHANGED <<utlNow, utlLambda, utlCached>>

\* A fetch gives what the provider knew when it was asked. It is stored with the
\* time of the store, if it can be stored; a failure is not.
UtlFetched(f) ==
    /\ utlFetch[f] # UtlNone
    /\ utlFetch' = [utlFetch EXCEPT ![f] = UtlNone]
    /\ \/ /\ \/ utlCached' = [of |-> utlFetch[f], stored |-> utlNow]
             \/ UNCHANGED utlCached
          /\ IF f = UtlBackground THEN UNCHANGED utlServed ELSE UtlServe(f, utlFetch[f])
       \/ UNCHANGED <<utlCached, utlServed>>
    /\ UNCHANGED <<utlNow, utlLambda>>

\* A fetch ends in its time.
UtlTick ==
    /\ utlNow < UtlLastTick /\ utlNow' = utlNow + 1
    /\ \A f \in DOMAIN utlFetch : utlFetch[f] # UtlNone => utlNow - utlFetch[f] < UtlSlow
    /\ UNCHANGED <<utlLambda, utlCached, utlFetch, utlServed>>

UtlNext ==
    \/ UtlTick
    \/ \E r \in UtlReaders : UtlAsk(r)
    \/ \E f \in DOMAIN utlFetch : UtlFetched(f)

UtlSpec == UtlInit /\ [][UtlNext]_utlVars
------------------------------------------------------------------------------
(* Properties. *)
\* A reader is served a utilization no older than the hard age and one fetch,
\* however the fetches overlap (getOrFetch).
UtlFresh ==
    \A r \in UtlReaders : utlServed[r] # UtlNone =>
        utlServed[r].at - utlServed[r].of < UtlHard + UtlSlow
==============================================================================
