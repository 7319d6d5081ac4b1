---------------------------------- MODULE Views ---------------------------------
(* What the pages about purchases show. The history page reads the purchases    *)
(* saved and then, in a second query, the executions that are not among them;   *)
(* the dashboard, the inventory and the analytics read the same table, each     *)
(* with a query and a rule of its own. An execution goes on buying meanwhile.   *)
(* Every commitment costs one and saves one, so money is counted in rows.       *)
EXTENDS FiniteSets, Naturals, Sequences, SequencesExt

CONSTANTS
    ViwRecs,        \* the commitments of the execution
    ViwOld,         \* a commitment bought long before
    ViwPage,        \* most rows on a page
    ViwViewers,     \* who asks for it: their accounts, whether the execution is
                    \* their own, and the account they filter for
    ViwRuns         \* bound on the collections of snapshots

ASSUME ViwAssumption ==
    /\ {ViwPage, ViwRuns} \subseteq Nat \ {0}
    /\ IsFiniteSet(ViwRecs) /\ ViwOld \notin ViwRecs

VARIABLES
    viwStatus,      \* status of the execution
    viwRec,         \* what became of each of its commitments
    viwAccount,     \* the account of each commitment
    viwRevoked,     \* rows whose commitment was given back
    viwTerm,        \* where the old commitment is in its term
    viwReader,      \* a request for the history page
    viwMoved,       \* something changed between its two queries
    viwSnaps        \* savings in each collection of snapshots
viwVars == <<viwStatus, viwRec, viwAccount, viwRevoked, viwTerm, viwReader, viwMoved,
             viwSnaps>>

ViwAccounts == {"one", "two"}
ViwNobody == "none"
\* Rows of purchase_history; those written before accounts had identifiers of
\* their own carry the number of the account only.
ViwRows == {c \in ViwRecs : viwRec[c] = "bought"} \cup {ViwOld}
ViwTied(c) == c # ViwOld
\* Bought, and the row could not be written: noted on the execution.
ViwGap == \E c \in ViwRecs : viwRec[c] = "lost"
------------------------------------------------------------------------------
(* Queries. *)
\* By identifier or by number; with neither, of all accounts.
ViwOf(ids, numbers, c) ==
    \/ ids \cup numbers = {}
    \/ ViwTied(c) /\ viwAccount[c] \in ids
    \/ viwAccount[c] \in numbers
\* The newest, up to a page.
ViwNewest(S) ==
    {P \in SUBSET S : /\ Cardinality(P) <= ViwPage
                      /\ \A c \in S \ P : Cardinality(P) = ViwPage /\ (c # ViwOld => ViwOld \notin P)}
ViwAllHistory == ViwNewest(ViwRows)
ViwFilteredHistory(ids, numbers) == ViwNewest({c \in ViwRows : ViwOf(ids, numbers, c)})
\* In force: not given back, and up to and including the last moment of the term.
ViwActiveHistory(ids, numbers) ==
    {c \in ViwRows \ viwRevoked : (c = ViwOld => viwTerm # "past") /\ ViwOf(ids, numbers, c)}
\* An account is looked for under both of its names.
ViwNames(accounts) == [ids |-> accounts, numbers |-> accounts]
\* The account all commitments of the execution share.
ViwCollapsed ==
    IF \E a \in ViwAccounts : \A c \in ViwRecs : viwAccount[c] = a
    THEN CHOOSE a \in ViwAccounts : \A c \in ViwRecs : viwAccount[c] = a ELSE ViwNobody
ViwPendingExecutions == viwStatus = "pending"
ViwPlannedExecutions == viwStatus = "pending"
------------------------------------------------------------------------------
(* The history page. A viewer has accounts, and started the execution or not.   *)
ViwFetchHistory(filter) ==
    IF filter = {} THEN ViwAllHistory
    ELSE LET n == ViwNames(filter) IN ViwFilteredHistory(n.ids, n.numbers)
ViwMatches(filter) == filter = {} \/ ViwCollapsed \in filter
\* An execution that bought cleanly is on the page by its rows.
ViwExecutionShown(filter) == ~(viwStatus = "completed" /\ ~ViwGap) /\ ViwMatches(filter)
ViwAllowed(reader, account) ==
    account \in reader.accounts \/ (account = ViwNobody /\ reader.mine)
\* Mutant: the execution that marks a gap brings its money along.
ViwAuditGapCounted(status) == FALSE
\* Of what was bought in part the rows are counted, not the execution.
ViwAuditGap(status) == status \in {"completed", "partially_completed"}
ViwProjected == Cardinality(ViwRecs)

\* Items: rows, and the execution under its status.
ViwSummary(rows, revoked, status) ==
    LET live == Cardinality(rows \ revoked)
        counted == status \notin {ViwNobody, "pending", "running", "failed", "expired", "canceled"}
    IN [purchases |-> Cardinality(rows) + (IF status = ViwNobody THEN 0 ELSE 1),
        revoked |-> Cardinality(rows \cap revoked),
        pending |-> status = "pending", progress |-> status = "running",
        failed |-> status = "failed", expired |-> status = "expired",
        completed |-> live + (IF counted THEN 1 ELSE 0),
        upfront |-> live + (IF counted /\ ~ViwAuditGap(status) THEN ViwProjected ELSE 0)]

\* Bound: a behaviour that collects snapshots has no reader of the page.
ViwAsk(accounts, mine, filter) ==
    /\ viwReader.at = "idle" /\ viwSnaps = <<>>
    /\ \E page \in ViwFetchHistory(filter) :
          viwReader' = [at |-> "rows", accounts |-> accounts, mine |-> mine, filter |-> filter,
                        rows |-> page, revoked |-> viwRevoked, status |-> ViwNobody]
    /\ UNCHANGED <<viwStatus, viwRec, viwAccount, viwRevoked, viwTerm, viwMoved, viwSnaps>>
\* The executions are read, and what the viewer may not see is left out. A
\* query for the executions that fails is logged, and the rows are shown alone.
ViwAnswer(listed) ==
    /\ viwReader.at = "rows"
    /\ viwReader' = [viwReader EXCEPT
          !.at = "shown",
          !.rows = {c \in @ : ViwAllowed(viwReader, viwAccount[c])},
          !.status = IF listed /\ ViwExecutionShown(viwReader.filter)
                        /\ ViwAllowed(viwReader, ViwCollapsed) THEN viwStatus ELSE ViwNobody]
    /\ viwMoved' = (viwMoved \/ ~listed)
    /\ UNCHANGED <<viwStatus, viwRec, viwAccount, viwRevoked, viwTerm, viwSnaps>>
ViwShown == ViwSummary(viwReader.rows, viwReader.revoked, viwReader.status)
------------------------------------------------------------------------------
(* The other pages, of all accounts. *)
\* Mutant: the last moment of the term is left out.
ViwInForceBefore(c) == c \notin viwRevoked /\ (c = ViwOld => viwTerm = "within")
\* Each has a rule of its own for a commitment in force.
ViwInForce(c) == c \notin viwRevoked /\ (c = ViwOld => viwTerm # "past")
ViwActive(S) == {c \in S : ViwInForce(c)}
ViwCommitted == ViwActiveHistory({}, {})
ViwPerService == Cardinality(ViwActive(ViwCommitted))
ViwDashboard == [commitments |-> Cardinality(ViwActive(ViwCommitted)), monthly |-> ViwPerService]
\* What is still advised stands for what is bought on demand.
ViwOnDemand == Cardinality({c \in ViwRecs : viwRec[c] = "open"})
ViwPct(covered, onDemand) ==
    IF covered + onDemand = 0 THEN {} ELSE {(100 * covered) \div (covered + onDemand)}
\* Nothing advised reads as covered.
ViwCoverage == IF ViwOnDemand = 0 THEN {100} ELSE ViwPct(ViwDashboard.monthly, ViwOnDemand)
ViwRecords(filter) == IF filter = {} THEN ViwCommitted ELSE ViwActiveHistory(filter, filter)
ViwInventory == ViwActive(ViwRecords({}))
ViwCovered == Cardinality(ViwActive(ViwRecords({})))
ViwByService == ViwPct(ViwCovered, ViwOnDemand)
ViwAggregate == Cardinality({c \in ViwActiveHistory({}, {}) : c = ViwOld => viwTerm # "past"})
ViwUpcoming == ViwPendingExecutions
ViwPlanned == ViwPlannedExecutions
\* Every row, those given back too.
ViwAnalytics == Cardinality(ViwRows)
ViwBreakdown == [a \in ViwAccounts |-> Cardinality({c \in ViwRows : viwAccount[c] = a})]
ViwTotal == FoldSeq(LAMBDA s, t : s + t, 0, viwSnaps)
\* The mean over the collections, whose number nobody controls.
ViwTrend == [sum |-> ViwTotal, over |-> Len(viwSnaps)]
------------------------------------------------------------------------------
ViwInit ==
    /\ viwStatus = "pending"
    /\ viwRec = [c \in ViwRecs |-> "open"]
    /\ viwAccount \in {f \in [ViwRecs \cup {ViwOld} -> ViwAccounts] : f[ViwOld] = "two"}
    /\ viwRevoked = {}
    /\ viwTerm = "within"
    /\ viwReader = [at |-> "idle", accounts |-> {}, mine |-> FALSE, filter |-> {}, rows |-> {},
                    revoked |-> {}, status |-> ViwNobody]
    /\ viwMoved = FALSE
    /\ viwSnaps = <<>>

ViwChange ==
    /\ viwReader.at # "shown"
    /\ viwMoved' = (viwReader.at = "rows")
    /\ UNCHANGED <<viwAccount, viwReader>>
ViwMove(from, to) ==
    /\ ViwChange
    /\ viwStatus \in from
    /\ viwStatus' = to
    /\ UNCHANGED <<viwRec, viwRevoked, viwTerm, viwSnaps>>
ViwApprove == ViwMove({"pending", "scheduled"}, "running")
ViwDelay == ViwMove({"pending"}, "scheduled")
ViwCancel == ViwMove({"pending", "scheduled"}, "canceled")
ViwExpire == ViwMove({"pending"}, "expired")
\* Bought with its row, bought without, or not.
ViwBuy(c, fate) ==
    /\ ViwChange
    /\ viwStatus = "running" /\ viwRec[c] = "open"
    /\ viwRec' = [viwRec EXCEPT ![c] = fate]
    /\ UNCHANGED <<viwStatus, viwRevoked, viwTerm, viwSnaps>>
ViwFinish ==
    /\ \A c \in ViwRecs : viwRec[c] # "open"
    /\ ViwMove({"running"},
               IF \A c \in ViwRecs : viwRec[c] = "failed" THEN "failed"
               ELSE IF \E c \in ViwRecs : viwRec[c] = "failed" THEN "partially_completed"
               ELSE "completed")
ViwRevoke(c) ==
    /\ ViwChange
    /\ c \in ViwRows \ viwRevoked
    /\ viwRevoked' = viwRevoked \cup {c}
    /\ UNCHANGED <<viwStatus, viwRec, viwTerm, viwSnaps>>
ViwAge ==
    /\ ViwChange
    /\ \/ viwTerm = "within" /\ viwTerm' = "last"
       \/ viwTerm = "last" /\ viwTerm' = "past"
    /\ UNCHANGED <<viwStatus, viwRec, viwRevoked, viwSnaps>>
\* By the schedule or by hand; no row is written when nothing is in force.
ViwCollect ==
    /\ ViwChange
    /\ viwReader.at = "idle" /\ Len(viwSnaps) < ViwRuns
    /\ viwSnaps' = IF ViwAggregate = 0 THEN viwSnaps ELSE Append(viwSnaps, ViwAggregate)
    /\ UNCHANGED <<viwStatus, viwRec, viwRevoked, viwTerm>>

ViwNext ==
    \/ \E v \in ViwViewers : ViwAsk(v.accounts, v.mine, v.filter)
    \/ \E listed \in BOOLEAN : ViwAnswer(listed)
    \/ ViwApprove \/ ViwDelay \/ ViwCancel \/ ViwExpire \/ ViwFinish \/ ViwAge \/ ViwCollect
    \/ \E c \in ViwRecs, fate \in {"bought", "lost", "failed"} : ViwBuy(c, fate)
    \/ \E c \in ViwRecs \cup {ViwOld} : ViwRevoke(c)

ViwSpec == ViwInit /\ [][ViwNext]_viwVars
------------------------------------------------------------------------------
\* A page read while nothing changed shows what the viewer may see of its first
\* page of rows and, unless it bought cleanly, the execution.
ViwComplete ==
    viwReader.at = "shown" /\ ~viwMoved =>
        /\ \A c \in ViwRows : \/ c \in viwReader.rows
                              \/ ~ViwAllowed(viwReader, viwAccount[c])
                              \/ viwReader.filter \notin {{}, {viwAccount[c]}}
                              \/ Cardinality(ViwRows) > ViwPage
        /\ viwStatus \notin {"completed"} /\ viwReader.filter = {} /\ ViwCollapsed \in viwReader.accounts
              => viwReader.status = viwStatus
\* No money is on the page twice: what is counted is a row that was saved and
\* not given back, or is about to be bought.
ViwMoneyOnce ==
    viwReader.at = "shown" =>
        ViwShown.upfront = Cardinality(viwReader.rows \ viwReader.revoked)
                           + (IF viwReader.status = "scheduled" THEN ViwProjected ELSE 0)
\* An execution is missing from a page, by itself and by its rows, only when it
\* ended cleanly after the rows were read, or the second query failed.
ViwLostOnlyMidway ==
    /\ viwReader.at = "shown" /\ viwReader.accounts = ViwAccounts /\ viwReader.mine
    /\ viwReader.filter = {} /\ viwReader.status = ViwNobody /\ viwReader.rows \cap ViwRecs = {}
    => viwMoved
\* The pages agree on what is in force, and on what is to come.
ViwAgree ==
    /\ ViwOnDemand > 0 => ViwCoverage = ViwByService
    /\ ViwDashboard.commitments = Cardinality(ViwInventory)
    /\ ViwAggregate = ViwDashboard.monthly /\ ViwCovered = ViwDashboard.monthly
    /\ ViwUpcoming => ViwExecutionShown({})
    /\ ViwAnalytics = Cardinality(ViwRows \cap viwRevoked) + Cardinality(ViwRows \ viwRevoked)
\* The trend lies between what was in force at one collection and at another,
\* however often snapshots were taken.
ViwTrendSound ==
    Len(viwSnaps) > 0 =>
        \E i, j \in DOMAIN viwSnaps : /\ viwSnaps[i] * ViwTrend.over <= ViwTrend.sum
                                      /\ ViwTrend.sum <= viwSnaps[j] * ViwTrend.over
ViwSound == ViwComplete /\ ViwMoneyOnce /\ ViwLostOnlyMidway /\ ViwAgree /\ ViwTrendSound
==============================================================================
