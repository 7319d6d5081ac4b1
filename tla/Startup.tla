-------------------------------- MODULE Startup --------------------------------
(* How a process comes up. It checks its configuration at once; the first        *)
(* request connects to the database, brings the schema up to date, sees to the   *)
(* administrator's row and puts the services in place. Any of it can fail and    *)
(* is tried again with the next request, by several processes at once, and a     *)
(* process may be killed at any point. An operator gets a schema that a killed   *)
(* process left dirty going again with an environment variable.                  *)
EXTENDS Naturals, FiniteSets

CONSTANTS
    StaProcs,       \* processes, of one deployment
    StaLast,        \* the last migration
    StaTries,       \* attempts to connect
    StaBase,        \* delay before the second attempt
    StaMaxDelay,    \* longest delay
    StaPatience,    \* how long a request waits for the delays
    StaMaxKills,    \* bound on processes killed
    StaMaxDeploys,  \* bound on what the operator sets
    StaNone

ASSUME StaAssumption ==
    /\ {StaLast, StaTries, StaBase} \subseteq Nat \ {0}
    /\ StaMaxDelay \in Nat /\ StaMaxDelay >= StaBase
    /\ {StaPatience, StaMaxKills, StaMaxDeploys} \subseteq Nat
    /\ StaNone \notin StaProcs

VARIABLES
    staApplied,     \* migrations whose effects are in the schema
    staVersion,     \* schema_migrations: the version, and whether it is dirty
    staDirty,
    staLock,        \* the migrator's advisory lock
    staAdmin,       \* the administrator's row: its password, whether it has a
                    \* group, and whether a password was chosen
    staForce,       \* CUDLY_FORCE_MIGRATION_VERSION of the deployment, or none
    staProc,        \* the processes
    staKills,
    staDeploys
staVars == <<staApplied, staVersion, staDirty, staLock, staAdmin, staForce, staProc,
             staKills, staDeploys>>
staSchema == <<staApplied, staVersion, staDirty>>

StaFresh == [pc |-> "new", tries |-> 0, waited |-> 0, last |-> "pending", key |-> "unread",
             force |-> StaNone]

StaInit ==
    /\ staApplied = {1}
    /\ staVersion = 1 /\ staDirty = FALSE /\ staLock = StaNone
    /\ staAdmin = [password |-> "no row", group |-> FALSE, chosen |-> FALSE]
    /\ staForce = StaNone
    /\ staProc = [p \in StaProcs |-> StaFresh]
    /\ staKills = 0 /\ staDeploys = 0

StaAt(p, pc) == staProc[p].pc = pc
StaGo(p, pc) == staProc' = [staProc EXCEPT ![p].pc = pc]
StaKeep == UNCHANGED <<staForce, staKills, staDeploys>>
StaOnlyProc == UNCHANGED <<staSchema, staLock, staAdmin>> /\ StaKeep

\* The request that brought the process this far fails: the next begins anew.
StaFail(p) == staProc' = [staProc EXCEPT ![p].pc = "cold", ![p].tries = 0, ![p].waited = 0]
------------------------------------------------------------------------------
(* Configuration and connection. *)
\* NewApplication: a configuration that does not do ends the process where it
\* was; one that does is held, with the environment, as long as the process is.
StaBoot(p) ==
    /\ StaAt(p, "new")
    /\ staProc' = [staProc EXCEPT ![p].pc = "cold", ![p].force = staForce]
    /\ StaOnlyProc

\* Before attempt n: the base, doubled each time, up to the longest.
StaDelay(n) ==
    LET grown == StaBase * 2 ^ (n - 2) IN IF grown > StaMaxDelay THEN StaMaxDelay ELSE grown

\* retry.Do: a number of attempts, each after its delay, while the request lasts.
StaTryAgain(n, waited) == n <= StaTries /\ waited <= StaPatience

\* The first request makes the connection, the others wait for it.
StaAttempt(p) ==
    LET n == staProc[p].tries + 1
        waited == staProc[p].waited + (IF n = 1 THEN 0 ELSE StaDelay(n)) IN
    /\ StaAt(p, "cold") \/ StaAt(p, "connecting")
    /\ \/ /\ StaTryAgain(n, waited)
          /\ \/ staProc' = [staProc EXCEPT ![p].pc = "opening", ![p].tries = 0, ![p].waited = 0]
             \/ staProc' = [staProc EXCEPT ![p].pc = "connecting", ![p].tries = n, ![p].waited = waited]
       \/ ~StaTryAgain(n, waited) /\ StaFail(p)
    /\ StaOnlyProc

------------------------------------------------------------------------------
(* Migrations. The library records a version as dirty before it runs it in one  *)
(* transaction, and as clean after, all under an advisory lock.                 *)
\* newMigratorWithRecovery: the version the operator forces goes first. Without
\* the secret of the administrator's password the request fails before that.
StaOpenMigrator(p) ==
    /\ StaAt(p, "opening")
    /\ \/ StaFail(p) /\ UNCHANGED <<staSchema, staLock>>
       \/ StaGo(p, "failed") /\ UNCHANGED <<staSchema, staLock>>
       \/ /\ staProc[p].force # StaNone /\ staLock = StaNone
          /\ staVersion' = staProc[p].force /\ staDirty' = FALSE
          /\ StaGo(p, "healing") /\ UNCHANGED <<staApplied, staLock>>
       \/ staProc[p].force = StaNone /\ StaGo(p, "healing") /\ UNCHANGED <<staSchema, staLock>>
    /\ UNCHANGED staAdmin /\ StaKeep

\* Mutant: the dirty flag is cleared as if the migration had run to its end.
StaHealClears(p) ==
    /\ StaAt(p, "healing") /\ staLock = StaNone
    /\ staDirty' = FALSE
    /\ StaGo(p, "locking")
    /\ UNCHANGED <<staApplied, staVersion, staLock, staAdmin>> /\ StaKeep

\* maybeAutoHealDirty: a dirty version is never cleared, only reported.
StaHeal(p) ==
    /\ StaAt(p, "healing")
    /\ StaGo(p, IF staDirty THEN "failed" ELSE "locking")
    /\ StaOnlyProc

StaLocked(p) ==
    /\ StaAt(p, "locking")
    /\ \/ staLock = StaNone /\ ~staDirty /\ staLock' = p /\ StaGo(p, "up")
       \/ staLock = StaNone /\ staDirty /\ StaGo(p, "failed") /\ UNCHANGED staLock
       \/ staLock # StaNone /\ StaGo(p, "failed") /\ UNCHANGED staLock
    /\ UNCHANGED <<staSchema, staAdmin>> /\ StaKeep

\* Up: the next version is marked, run and recorded; one that was run before
\* fails at what is there already, or does nothing of note.
StaMark(p) ==
    /\ StaAt(p, "up") /\ staVersion < StaLast
    /\ staVersion' = staVersion + 1 /\ staDirty' = TRUE
    /\ StaGo(p, "marked")
    /\ UNCHANGED <<staApplied, staLock, staAdmin>> /\ StaKeep
StaRun(p) ==
    /\ StaAt(p, "marked")
    /\ \/ /\ staApplied' = staApplied \cup {staVersion}
          /\ StaGo(p, "ran") /\ UNCHANGED staLock
       \/ staLock' = StaNone /\ StaGo(p, "failed") /\ UNCHANGED staApplied
    /\ UNCHANGED <<staVersion, staDirty, staAdmin>> /\ StaKeep
StaRecord(p) ==
    /\ StaAt(p, "ran")
    /\ \/ staDirty' = FALSE /\ StaGo(p, "up") /\ UNCHANGED staLock
       \/ staLock' = StaNone /\ StaGo(p, "failed") /\ UNCHANGED staDirty
    /\ UNCHANGED <<staApplied, staVersion, staAdmin>> /\ StaKeep
StaUpToDate(p) ==
    /\ StaAt(p, "up") /\ staVersion = StaLast
    /\ staLock' = StaNone
    /\ StaGo(p, "checking")
    /\ UNCHANGED <<staSchema, staAdmin>> /\ StaKeep

\* RunMigrations reads the version again before it goes on.
StaCheck(p) ==
    /\ StaAt(p, "checking")
    /\ StaGo(p, IF staDirty THEN "failed" ELSE "admin")
    /\ StaOnlyProc
------------------------------------------------------------------------------
(* The administrator. *)
\* Mutant: the password of the secret is written over the one there is.
StaEnsuredAnew(row) == [row EXCEPT !.password = "secret"]

\* An upsert: a row with a password keeps it.
StaEnsured(row) ==
    IF row.password \in {"no row", "none"}
    THEN [row EXCEPT !.password = "secret", !.group = @ \/ row.password = "no row"] ELSE row
\* An empty secret makes a row that has to set a password first.
StaEnsuredEmpty(row) == IF row.password = "no row" THEN [row EXCEPT !.password = "none", !.group = TRUE] ELSE row
\* A row of no group is made one of the administrators.
StaGrouped(row) == [row EXCEPT !.group = TRUE]

StaAdmin(p) ==
    /\ StaAt(p, "admin")
    /\ \/ staAdmin' = StaGrouped(StaEnsured(staAdmin))
       \/ staAdmin' = StaGrouped(StaEnsuredEmpty(staAdmin))
       \/ UNCHANGED staAdmin            \* only logged
    \* What ends after the time it was given counts as failed.
    /\ \E last \in {"ok", "failed"} :
        staProc' = [staProc EXCEPT ![p].pc = "services", ![p].last = last]
    /\ UNCHANGED <<staSchema, staLock>> /\ StaKeep

\* A failure is recorded; the process goes on with the schema as it is.
StaRecorded(p) ==
    /\ StaAt(p, "failed")
    /\ staProc' = [staProc EXCEPT ![p].pc = "services", ![p].last = "failed"]
    /\ StaOnlyProc
------------------------------------------------------------------------------
(* Services. *)
\* The key is fetched once in the life of a process, and so is its failure.
StaKey(known) == IF known = "unread" THEN {"ok", "failed"} ELSE {known}

\* reinitializeAfterConnect: all of it or none.
StaServices(p) == \E key \in StaKey(staProc[p].key), rest \in BOOLEAN :
    /\ StaAt(p, "services")
    /\ staProc' = [staProc EXCEPT ![p].key = key,
                                  ![p].pc = IF key = "ok" /\ rest THEN "serving" ELSE "cold"]
    /\ StaOnlyProc

\* The administrator sets a password of their own; the callback writes it to
\* the secret as well, if it can.
StaOwnPassword ==
    /\ \E p \in StaProcs : StaAt(p, "serving")
    /\ staAdmin.password # "no row"
    /\ staAdmin' = [staAdmin EXCEPT !.password = "own", !.chosen = TRUE]
    /\ UNCHANGED <<staSchema, staLock, staProc>> /\ StaKeep

\* A process is killed: its session, its transaction and its lock with it.
StaKill(p) ==
    /\ staProc[p].pc # "new" /\ staKills < StaMaxKills
    /\ staKills' = staKills + 1
    /\ staProc' = [staProc EXCEPT ![p] = StaFresh]
    /\ staLock' = IF staLock = p THEN StaNone ELSE staLock
    /\ UNCHANGED <<staSchema, staAdmin, staForce, staDeploys>>

\* A process told to stop finishes the requests it has, if they end in time.
StaStop(p) ==
    /\ StaAt(p, "serving") \/ StaAt(p, "cold")
    /\ staKills < StaMaxKills /\ staKills' = staKills + 1
    /\ staProc' = [staProc EXCEPT ![p] = StaFresh]
    /\ UNCHANGED <<staSchema, staLock, staAdmin, staForce, staDeploys>>

\* The operator finds the schema dirty, looks whether the version's effects are
\* there, and sets what to resume from. Processes started from then on have it,
\* and here it is never taken away again.
StaOperator ==
    /\ staDirty /\ staDeploys < StaMaxDeploys /\ staDeploys' = staDeploys + 1
    /\ staForce' = IF staVersion \in staApplied THEN staVersion ELSE staVersion - 1
    /\ UNCHANGED <<staSchema, staLock, staAdmin, staProc, staKills>>

StaNext ==
    \/ \E p \in StaProcs :
        \/ StaBoot(p) \/ StaAttempt(p)
        \/ StaOpenMigrator(p) \/ StaHeal(p) \/ StaLocked(p)
        \/ StaMark(p) \/ StaRun(p) \/ StaRecord(p) \/ StaUpToDate(p) \/ StaCheck(p)
        \/ StaAdmin(p) \/ StaRecorded(p) \/ StaServices(p) \/ StaKill(p) \/ StaStop(p)
    \/ StaOwnPassword \/ StaOperator

StaSpec == StaInit /\ [][StaNext]_staVars
------------------------------------------------------------------------------
(* Properties. *)
\* A version that is recorded as clean has all its migrations in the schema,
\* whoever was killed when, and whatever the operator resumes from as the
\* comment of maybeForceMigrationVersion tells, even if the variable lingers.
StaTruthful == ~staDirty => 1 .. staVersion \subseteq staApplied

\* A process whose health page says the migrations are fine has the schema it
\* was built for (checkMigrations).
StaHealthy ==
    \A p \in StaProcs : StaAt(p, "serving") /\ staProc[p].last = "ok" => 1 .. StaLast \subseteq staApplied

\* A password the administrator chose stays, however many processes start
\* (ensureAdminUserWithPassword).
StaPasswordKept == staAdmin.chosen => staAdmin.password = "own"

\* A process comes up on a schema that is what is recorded of it.
StaSound == StaTruthful /\ StaHealthy /\ StaPasswordKept
==============================================================================
