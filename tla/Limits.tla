-------------------------------- MODULE Limits --------------------------------
(* How many attempts are let through is counted in the memory of a process, and,  *)
(* for a function that is connected, in rows of the database that all share.     *)
EXTENDS Naturals, FiniteSetsExt

CONSTANTS
    LimKeys,        \* callers: an address, an email, a user
    LimMax,         \* attempts per window
    LimWindow,
    LimCap,         \* entries kept in memory
    LimLastTick,    \* bound on time
    LimNone

ASSUME LimAssumption ==
    /\ {LimMax, LimWindow, LimCap} \subseteq Nat \ {0}
    /\ LimLastTick \in Nat
    /\ LimNone \notin [count : Nat, end : Nat]

VARIABLES
    limNow,
    limMemory,      \* for each key, in memory, the attempts and the end of the window
    limRow,         \* the same in the database
    limConnected,   \* whether the database is asked
    limGiven,       \* attempts let through: the key and the time, and how many
    limEvicted      \* keys whose window was forgotten before its end
limVars == <<limNow, limMemory, limRow, limConnected, limGiven, limEvicted>>

LimInit ==
    /\ limNow = 0
    /\ limMemory = [k \in LimKeys |-> LimNone] /\ limRow = limMemory
    /\ limConnected = FALSE
    /\ limGiven = [k \in LimKeys |-> [t \in 0 .. LimLastTick |-> 0]]
    /\ limEvicted = {}
------------------------------------------------------------------------------
\* Mutant: the window's end is kept when its count starts anew.
LimCountKeepsEnd(entry) ==
    IF entry = LimNone THEN [count |-> 1, end |-> limNow + LimWindow]
    ELSE IF entry.end < limNow THEN [entry EXCEPT !.count = 1]
    ELSE [entry EXCEPT !.count = @ + 1]

\* One more attempt, in a window that begins with it if there is none.
LimCount(entry) ==
    IF entry = LimNone \/ entry.end < limNow THEN [count |-> 1, end |-> limNow + LimWindow]
    ELSE [entry EXCEPT !.count = @ + 1]

LimGive(k) ==
    limGiven' = IF k \in limEvicted THEN limGiven ELSE [limGiven EXCEPT ![k][limNow] = @ + 1]

\* DBRateLimiter.Allow: one statement, which counts what is denied as well (the
\* count is of no interest beyond the first that is denied).
LimAllowRow(k) ==
    LET new == LimCount(limRow[k]) IN
    /\ limConnected
    /\ limRow' = [limRow EXCEPT ![k] = [new EXCEPT !.count = IF @ > LimMax THEN LimMax + 1 ELSE @]]
    /\ IF new.count <= LimMax THEN LimGive(k) ELSE UNCHANGED limGiven
    /\ UNCHANGED <<limNow, limMemory, limConnected, limEvicted>>

LimLive(memory, k) == memory[k] # LimNone /\ limNow <= memory[k].end

\* At the cap the windows that ended go, then the oldest down to four fifths.
LimPurged == [k \in LimKeys |-> IF LimLive(limMemory, k) THEN limMemory[k] ELSE LimNone]
LimSize(memory) == Cardinality({k \in LimKeys : memory[k] # LimNone})
LimEvicted == {gone \in SUBSET {k \in LimKeys : LimPurged[k] # LimNone} :
    /\ LimSize(LimPurged) - Cardinality(gone) = (LimCap * 4) \div 5
    /\ \A g \in gone, k \in LimKeys \ gone :
        LimPurged[k] # LimNone => LimPurged[g].end <= LimPurged[k].end}
LimRoom ==
    IF LimSize(limMemory) < LimCap THEN {[memory |-> limMemory, gone |-> {}]}
    ELSE IF LimSize(LimPurged) < LimCap THEN {[memory |-> LimPurged, gone |-> {}]}
    ELSE {[memory |-> [k \in LimKeys |-> IF k \in gone THEN LimNone ELSE LimPurged[k]], gone |-> gone] :
            gone \in LimEvicted}

\* InMemoryRateLimiter.Allow, under its mutex.
LimAllowMemory(k) == \E room \in LimRoom :
    LET entry == room.memory[k] IN
    /\ ~limConnected
    /\ limEvicted' = limEvicted \cup room.gone
    /\ IF LimLive(room.memory, k) /\ entry.count >= LimMax
       THEN limMemory' = room.memory /\ UNCHANGED limGiven
       ELSE limMemory' = [room.memory EXCEPT ![k] = LimCount(entry)] /\ LimGive(k)
    /\ UNCHANGED <<limNow, limRow, limConnected>>

\* A function connects, forgets what is in its memory, and counts anew in the database; what was let through
\* before is not in its rows. Rows that ended long ago are deleted.
LimConnect ==
    /\ ~limConnected /\ limConnected' = TRUE
    /\ limGiven' = [k \in LimKeys |-> [t \in 0 .. LimLastTick |-> 0]] /\ limEvicted' = {}
    /\ limMemory' = limRow
    /\ UNCHANGED <<limNow, limRow>>
LimCleanup == \E k \in LimKeys :
    /\ limRow[k] # LimNone /\ limRow[k].end < limNow
    /\ limRow' = [limRow EXCEPT ![k] = LimNone]
    /\ UNCHANGED <<limNow, limMemory, limConnected, limGiven, limEvicted>>

LimTick ==
    /\ limNow < LimLastTick /\ limNow' = limNow + 1
    /\ UNCHANGED <<limMemory, limRow, limConnected, limGiven, limEvicted>>

LimNext ==
    \/ \E k \in LimKeys : LimAllowRow(k) \/ LimAllowMemory(k)
    \/ LimConnect \/ LimCleanup \/ LimTick

LimSpec == LimInit /\ [][LimNext]_limVars
------------------------------------------------------------------------------
(* Properties. *)
LimSum(k, times) == MapThenSumSet(LAMBDA t : limGiven[k][t], times)

\* In no stretch as long as a window are more than two windows' attempts let
\* through, wherever the windows begin and whoever asks, unless memory had to
\* forget the caller (DBRateLimiter.Allow, InMemoryRateLimiter.Allow).
LimBounded ==
    \A k \in LimKeys \ limEvicted, t \in 0 .. LimLastTick :
        t + LimWindow <= LimLastTick => LimSum(k, t .. t + LimWindow) <= 2 * LimMax
==============================================================================
