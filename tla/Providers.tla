------------------------------- MODULE Providers -------------------------------
(* What each service client does to buy one commitment, and what becomes of it   *)
(* when the same purchase is driven again after a failure, with the same         *)
(* idempotency token. A client differs from the others in how it looks for an    *)
(* earlier purchase, what it hands the provider to recognise a duplicate by, and *)
(* how a purchase gets the tag a later lookup searches for.                      *)
EXTENDS Naturals, FiniteSets

CONSTANTS
    ProvDrivers,        \* drives of the same purchase
    ProvAttempts,       \* purchaseMaxAttempts, and the retries after a full quota
    ProvMaxMade         \* bound on the commitments made

ASSUME ProvAssumption == ProvAttempts \in Nat \ {0} /\ ProvMaxMade \in Nat \ {0}

\* Mutant: the lookup before the purchase, and after a rejected one, is left out.
ByOwnIdBlind == [lookup |-> "none", key |-> {"reject"}, tag |-> "none", dup |-> FALSE, again |-> FALSE]

\* lookup: what the client searches for before it buys ("id", "tag", "none");
\* key:    what the provider may do with a repeated key, no key at all being {};
\* tag:    the purchase carries the tag, gets it afterwards, or never;
\* dup:    a rejected duplicate is looked up and reported as bought;
\* again:  a failed attempt may be repeated within the drive.
ByOwnId == [lookup |-> "id", key |-> {"reject"}, tag |-> "none", dup |-> TRUE, again |-> FALSE]
RDS == ByOwnId
ElastiCache == ByOwnId
MemoryDB == ByOwnId
OpenSearch == ByOwnId
TaggedAfter == [lookup |-> "tag", key |-> {}, tag |-> "after", dup |-> FALSE, again |-> FALSE]
EC2 == TaggedAfter
Redshift == TaggedAfter
SavingsPlans == [lookup |-> "none", key |-> {"return"}, tag |-> "none", dup |-> FALSE, again |-> FALSE]
TwoStep == [lookup |-> "tag", key |-> {}, tag |-> "with", dup |-> FALSE, again |-> TRUE]
AzureCompute == TwoStep
AzureDatabase == TwoStep
AzureCache == TwoStep
AzureManagedRedis == TwoStep
AzureSearch == TwoStep
AzureSynapse == TwoStep
AzureCosmosDB == TwoStep
AzureSavingsPlans == [lookup |-> "none", key |-> {"return"}, tag |-> "none", dup |-> FALSE, again |-> FALSE]
ComputeEngine == [lookup |-> "none", key |-> {"return", "reject"}, tag |-> "none", dup |-> FALSE, again |-> TRUE]

ProvServices == {RDS, ElastiCache, MemoryDB, OpenSearch, EC2, Redshift, SavingsPlans,
    AzureCompute, AzureDatabase, AzureCache, AzureManagedRedis, AzureSearch, AzureSynapse,
    AzureCosmosDB, AzureSavingsPlans, ComputeEngine}

VARIABLES
    provService,    \* the service of the purchase
    provMade,       \* its commitments at the provider, in a set of records
    provDrive,      \* stage, attempt, result and commitment of each drive
    provFault       \* what went wrong so far
provVars == <<provService, provMade, provDrive, provFault>>

ProvNew == [stage |-> "new", attempt |-> 1, id |-> 0, clean |-> FALSE]

ProvInit ==
    /\ provService \in ProvServices
    /\ provMade = {}
    /\ provDrive = [d \in ProvDrivers |-> ProvNew]
    /\ provFault = {}

ProvDone == {"new", "bought", "failed", "crashed"}
ProvAt(d, stage) == provDrive[d].stage = stage
ProvGoto(d, stage) == provDrive' = [provDrive EXCEPT ![d].stage = stage]
ProvBought(d, id) == provDrive' = [provDrive EXCEPT ![d].stage = "bought", ![d].id = id]
ProvLiving == {m \in provMade : m.live}

\* What a lookup finds: live commitments only, by their own id or by their tag.
ProvFound == CASE provService.lookup = "id"  -> ProvLiving
           [] provService.lookup = "tag" -> {m \in ProvLiving : m.tagged}
           [] OTHER                      -> {}

------------------------------------------------------------------------------
\* A drive starts; "clean" marks one that finds the purchase already landed.
ProvStart(d) ==
    /\ ProvAt(d, "new")
    /\ provDrive' = [provDrive EXCEPT ![d].stage = "lookup", ![d].clean = ProvLiving # {}]
    /\ provFault' = IF \E e \in ProvDrivers : provDrive[e].stage \notin ProvDone
                    THEN provFault \cup {"overlap"} ELSE provFault
    /\ UNCHANGED <<provService, provMade>>

\* Mutant: the lookup is left out of a repeated attempt.
ProvLookupOnce(d) ==
    /\ ProvAt(d, "lookup")
    /\ \/ \E m \in ProvFound : provDrive[d].attempt = 1 /\ ProvBought(d, m.id)
       \/ (ProvFound = {} \/ provDrive[d].attempt > 1) /\ ProvGoto(d, "buy")
    /\ UNCHANGED <<provService, provMade, provFault>>

\* idempotencyGuard, FindReservationOrderByIdempotencyToken: a purchase that is
\* found is reported; a lookup that fails ends the drive.
ProvLookup(d) ==
    /\ ProvAt(d, "lookup")
    /\ \/ \E m \in ProvFound : ProvBought(d, m.id)
       \/ ProvFound = {} /\ ProvGoto(d, "buy")
    /\ UNCHANGED <<provService, provMade, provFault>>

ProvLookupFails(d) ==
    /\ ProvAt(d, "lookup") /\ provService.lookup # "none"
    /\ provDrive' = [provDrive EXCEPT ![d].stage = "failed", ![d].clean = FALSE]
    /\ UNCHANGED <<provService, provMade, provFault>>

\* The purchase call makes a commitment, unless the provider has seen its key: an
\* own id or a name is taken for good, a request token returns what it made while
\* the provider remembers it (a Compute Engine commitment has both).
ProvCommit(d) ==
    LET id == Cardinality(provMade) + 1
        rest == IF provService.tag = "after" THEN "tag" ELSE "answer"
    IN /\ ProvAt(d, "buy") /\ Cardinality(provMade) < ProvMaxMade
       /\ provService.key = {} \/ provMade = {}
       /\ provMade' = provMade \cup {[id |-> id, tagged |-> provService.tag = "with", live |-> TRUE]}
       /\ provDrive' = [provDrive EXCEPT ![d].stage = rest, ![d].id = id]
       /\ UNCHANGED <<provService, provFault>>

ProvReturn(d) ==
    /\ ProvAt(d, "buy") /\ "return" \in provService.key
    /\ \E m \in provMade : ProvBought(d, m.id)
    /\ UNCHANGED <<provService, provMade, provFault>>

\* recoverAlreadyExists: the rejected duplicate is looked up again.
ProvReject(d) ==
    /\ ProvAt(d, "buy") /\ "reject" \in provService.key /\ provMade # {}
    /\ \/ provService.dup /\ \E m \in ProvFound : ProvBought(d, m.id)
       \/ (~provService.dup \/ ProvFound = {}) /\ ProvGoto(d, "failed")
    /\ UNCHANGED <<provService, provMade, provFault>>

\* The tag is written after the purchase, best effort.
ProvTag(d) ==
    /\ ProvAt(d, "tag")
    /\ \/ /\ provMade' = {[m EXCEPT !.tagged = m.tagged \/ m.id = provDrive[d].id] : m \in provMade}
          /\ UNCHANGED provFault
       \/ provFault' = provFault \cup {"untagged"} /\ UNCHANGED provMade
    /\ ProvGoto(d, "answer")
    /\ UNCHANGED provService

ProvAnswer(d) ==
    /\ ProvAt(d, "answer")
    /\ ProvGoto(d, "bought")
    /\ UNCHANGED <<provService, provMade, provFault>>

\* The attempt fails: nothing was bought, or the answer of what was bought is
\* lost or unreadable. Only some failures are tried again, from the lookup.
ProvFail(d) ==
    /\ provDrive[d].stage \in {"buy", "tag", "answer"}
    /\ \/ provDrive' = [provDrive EXCEPT ![d].stage = "failed", ![d].clean = FALSE]
       \/ /\ provService.again /\ provDrive[d].attempt < ProvAttempts
          /\ provDrive' = [provDrive EXCEPT ![d].stage = "lookup", ![d].attempt = @ + 1]
    /\ provFault' = IF ProvAt(d, "tag") THEN provFault \cup {"untagged"} ELSE provFault
    /\ UNCHANGED <<provService, provMade>>

ProvCrash(d) ==
    /\ provDrive[d].stage \notin ProvDone
    /\ ProvGoto(d, "crashed")
    /\ provFault' = IF ProvAt(d, "tag") THEN provFault \cup {"untagged"} ELSE provFault
    /\ UNCHANGED <<provService, provMade>>

\* A pending payment fails, or the order is canceled.
ProvPaymentFails(m) ==
    /\ m.live
    /\ provMade' = (provMade \ {m}) \cup {[m EXCEPT !.live = FALSE]}
    /\ provFault' = provFault \cup {"payment"}
    /\ UNCHANGED <<provService, provDrive>>

ProvNext ==
    \/ \E m \in provMade : ProvPaymentFails(m)
    \/ \E d \in ProvDrivers :
          \/ ProvStart(d) \/ ProvLookup(d) \/ ProvLookupFails(d) \/ ProvCommit(d)
          \/ ProvReturn(d) \/ ProvReject(d) \/ ProvTag(d) \/ ProvAnswer(d)
          \/ ProvFail(d) \/ ProvCrash(d)

ProvSpec == ProvInit /\ [][ProvNext]_provVars

------------------------------------------------------------------------------
\* One purchase is one commitment, whatever is lost, crashes or is tried again:
\* always for a service with a key of its own; for one that is looked up by a tag,
\* while the drives of a purchase do not overlap and no purchase stays untagged.
ProvOneLiveCommitment ==
    (provService.key # {} \/ provFault \cap {"overlap", "untagged"} = {})
    => Cardinality(ProvLiving) <= 1

\* A purchase that landed is found: a drive that starts after it, and whose own
\* calls are answered, ends with that commitment and not with an error, although
\* the drive that bought it failed or died. Compute Engine is not held to it: once
\* the request id is forgotten the taken name ends the drive with an error.
ProvLandedIsReported == \A d \in ProvDrivers :
    (provDrive[d].clean /\ "payment" \notin provFault /\ provService # ComputeEngine
       /\ provFault \cap {"overlap", "untagged"} = {})
    => /\ ~ProvAt(d, "failed")
       /\ ProvAt(d, "bought") => \A m \in provMade : m.live /\ m.id = provDrive[d].id

\* A purchase is one commitment, and whoever drives it again hears of it.
ProvSound == ProvOneLiveCommitment /\ ProvLandedIsReported

\* RedriveRefusalReason: every service but Azure savings plans may be driven again
\* without buying twice (no claim is made for drives that overlap).
ProvSafeRedrive == "overlap" \notin provFault => Cardinality(ProvLiving) <= 1
=============================================================================
