--------------------------------- MODULE Queue ---------------------------------
(* The batches of the purchase queue, of which some messages fail and come again. *)
EXTENDS Naturals, FiniteSets

CONSTANTS
    QueProcs,       \* invocations at a time
    QueMessages,    \* messages of the queue
    QueReceives     \* receives until a message goes to the dead letters

ASSUME QueAssumption == QueReceives \in Nat \ {0}

VARIABLES
    queReceived,    \* how often a message was received
    queGone,        \* messages that were deleted as handled
    queDone,        \* how often a message was handled
    queProc         \* the batch of an invocation, what is left and what failed of it
queVars == <<queReceived, queGone, queDone, queProc>>

QueIdle == [batch |-> {}, left |-> {}, failed |-> {}]

QueInit ==
    /\ queReceived = [m \in QueMessages |-> 0]
    /\ queGone = {}
    /\ queDone = [m \in QueMessages |-> 0]
    /\ queProc = [p \in QueProcs |-> QueIdle]

QueWaiting == {m \in QueMessages : /\ m \notin queGone /\ queReceived[m] < QueReceives
                                   /\ \A p \in QueProcs : m \notin queProc[p].batch}

\* An event with some of the messages. Without the database it fails at once.
QueInvoke(p) == \E batch \in (SUBSET QueWaiting) \ {{}} :
    /\ queProc[p] = QueIdle
    /\ queReceived' = [m \in QueMessages |-> queReceived[m] + IF m \in batch THEN 1 ELSE 0]
    /\ \/ queProc' = [queProc EXCEPT ![p] = [QueIdle EXCEPT !.batch = batch, !.left = batch]]
       \/ UNCHANGED queProc
    /\ UNCHANGED <<queGone, queDone>>

\* Every message of the batch is tried, whatever became of the others.
QueHandle(p) == \E m \in queProc[p].left :
    /\ \/ /\ queDone' = [queDone EXCEPT ![m] = @ + 1]
          /\ queProc' = [queProc EXCEPT ![p].left = @ \ {m}]
       \/ /\ queProc' = [queProc EXCEPT ![p].left = @ \ {m}, ![p].failed = @ \cup {m}]
          /\ UNCHANGED queDone
    /\ UNCHANGED <<queReceived, queGone>>

\* Mutant: the failures are logged, and the invocation succeeds.
QueFailsNever(proc) == FALSE

QueFails(proc) == proc.failed # {}

\* One failure fails the invocation, and all of its messages come again.
QueAnswer(p) ==
    /\ queProc[p] # QueIdle /\ queProc[p].left = {}
    /\ queGone' = IF QueFails(queProc[p]) THEN queGone ELSE queGone \cup queProc[p].batch
    /\ queProc' = [queProc EXCEPT ![p] = QueIdle]
    /\ UNCHANGED <<queReceived, queDone>>

\* The time of an invocation ends at any point of its batch.
QueTimeout(p) ==
    /\ queProc[p] # QueIdle
    /\ queProc' = [queProc EXCEPT ![p] = QueIdle]
    /\ UNCHANGED <<queReceived, queGone, queDone>>

QueNext == \E p \in QueProcs : QueInvoke(p) \/ QueHandle(p) \/ QueAnswer(p) \/ QueTimeout(p)

QueSpec == QueInit /\ [][QueNext]_queVars
------------------------------------------------------------------------------
\* A message leaves the queue as handled only if it was, however its batches were
\* put together and whatever became of them, and is handled at most once for
\* each time it was received (handleLambdaSQSEvent).
QueSound ==
    \A m \in QueMessages : /\ m \in queGone => queDone[m] > 0
                           /\ queDone[m] <= queReceived[m]
==============================================================================
