------------------------------ MODULE Marketplace ------------------------------
(* Selling one Standard reserved instance on the AWS Marketplace: list requests   *)
(* claim the listing slot of the history row, create the listing and record it;   *)
(* cancel requests withdraw it. Either may lose its answer, its write, or die.    *)
EXTENDS Naturals, Sequences, FiniteSets

CONSTANTS
    MktCallers,     \* concurrent list and cancel requests
    MktMaxListings, \* bound on the listings created
    NoListing       \* listing_id is NULL

ASSUME MktAssumption == MktMaxListings \in Nat /\ NoListing \notin Nat

VARIABLES
    mktRow,         \* listing_id, listing_state and offering_class of the row
    mktAws,         \* the state of every listing at AWS, in the order of creation
    mktReq,         \* the stage of each request and the row it read
    mktFault        \* what went wrong so far
mktVars == <<mktRow, mktAws, mktReq, mktFault>>

MktIdle == [stage |-> "idle"]
MktListed(id, state) == [id |-> id, state |-> state, class |-> mktRow.class]
MktLive == {l \in DOMAIN mktAws : mktAws[l] \in {"pending", "active"}}

MktInit ==
    /\ \E class \in {"", "standard"} :
          mktRow = [id |-> NoListing, state |-> "", class |-> class]
    /\ mktAws = <<>>
    /\ mktReq = [c \in MktCallers |-> MktIdle]
    /\ mktFault = {}

MktStep(c, stage) == mktReq' = [mktReq EXCEPT ![c].stage = stage]

\* validateMarketplaceListRequest: a row that shows an active listing is refused.
MktRead(c) ==
    /\ mktReq[c] = MktIdle /\ mktRow.state # "active"
    /\ mktReq' = [mktReq EXCEPT ![c] = [stage |-> "read", copy |-> mktRow]]
    /\ UNCHANGED <<mktRow, mktAws, mktFault>>

\* populateOfferingClass: only for a row without a class, and its write is best effort.
MktClass(c) ==
    /\ mktReq[c].stage = "read"
    /\ IF mktReq[c].copy.class = "" THEN mktRow' \in {mktRow, [mktRow EXCEPT !.class = "standard"]}
                                     ELSE UNCHANGED mktRow
    /\ MktStep(c, "classed")
    /\ UNCHANGED <<mktAws, mktFault>>

\* Mutant: the slot is claimed from any state but active.
MktClaimsPending(c) ==
    /\ mktReq[c].stage = "classed"
    /\ IF mktRow.state = "active"
       THEN mktReq' = [mktReq EXCEPT ![c] = MktIdle] /\ UNCHANGED mktRow
       ELSE mktRow' = [mktRow EXCEPT !.state = "pending"] /\ MktStep(c, "claimed")
    /\ UNCHANGED <<mktAws, mktFault>>

\* ClaimMarketplaceListingSlot: a compare-and-set on the state.
MktClaim(c) ==
    /\ mktReq[c].stage = "classed"
    /\ IF mktRow.state \in {"active", "pending"}
       THEN mktReq' = [mktReq EXCEPT ![c] = MktIdle] /\ UNCHANGED mktRow
       ELSE mktRow' = [mktRow EXCEPT !.state = "pending"] /\ MktStep(c, "claimed")
    /\ UNCHANGED <<mktAws, mktFault>>

\* CreateMarketplaceListing with a token of its own; AWS answers with the state
\* the listing has. The call fails, or its answer is lost.
MktCreate(c) ==
    /\ mktReq[c].stage = "claimed" /\ Len(mktAws) < MktMaxListings
    /\ \/ \E state \in {"pending", "active"} :
          /\ mktAws' = Append(mktAws, state)
          /\ \/ mktReq' = [mktReq EXCEPT ![c] = [stage |-> "created", copy |-> @.copy,
                                                 listing |-> Len(mktAws'), state |-> state]]
                /\ UNCHANGED mktFault
             \/ MktStep(c, "release") /\ mktFault' = mktFault \cup {"lost"}
       \/ MktStep(c, "release") /\ UNCHANGED <<mktAws, mktFault>>
    /\ UNCHANGED mktRow

\* UpdatePurchaseHistoryListing records the listing, or fails.
MktRecord(c) ==
    /\ mktReq[c].stage = "created"
    /\ \/ mktRow' = MktListed(mktReq[c].listing, mktReq[c].state)
          /\ mktReq' = [mktReq EXCEPT ![c] = MktIdle]
       \/ MktStep(c, "rollback") /\ UNCHANGED mktRow
    /\ UNCHANGED <<mktAws, mktFault>>

\* Mutant: a listing that could not be recorded is left live.
MktNoRollback(c) ==
    /\ mktReq[c].stage = "rollback"
    /\ MktStep(c, "release")
    /\ UNCHANGED <<mktRow, mktAws, mktFault>>

\* The compensating cancel of a listing that could not be recorded; it may fail.
MktRollback(c) ==
    /\ mktReq[c].stage = "rollback"
    /\ \/ mktAws' = [mktAws EXCEPT ![mktReq[c].listing] = "cancelled"] /\ UNCHANGED mktFault
       \/ mktFault' = mktFault \cup {"rollback"} /\ UNCHANGED mktAws
    /\ MktStep(c, "release")
    /\ UNCHANGED mktRow

\* releaseMarketplaceClaim: the listing fields the request had read, best effort.
MktRelease(c) ==
    /\ mktReq[c].stage = "release"
    /\ mktRow' \in {mktRow, MktListed(mktReq[c].copy.id, mktReq[c].copy.state)}
    /\ mktReq' = [mktReq EXCEPT ![c] = MktIdle]
    /\ UNCHANGED <<mktAws, mktFault>>

MktCrash(c) ==
    /\ mktReq[c] # MktIdle
    /\ mktReq' = [mktReq EXCEPT ![c] = MktIdle]
    /\ UNCHANGED <<mktRow, mktAws, mktFault>>

\* marketplaceCancel: the listing of an active row is canceled at AWS and the row
\* updated afterwards.
MktCancelRead(c) ==
    /\ mktReq[c] = MktIdle /\ mktRow.state = "active"
    /\ mktReq' = [mktReq EXCEPT ![c] = [stage |-> "cancel", copy |-> mktRow]]
    /\ UNCHANGED <<mktRow, mktAws, mktFault>>

MktCancel(c) ==
    LET listing == mktReq[c].copy.id
    IN /\ mktReq[c].stage = "cancel"
       /\ \/ /\ listing \in MktLive
             /\ mktAws' = [mktAws EXCEPT ![listing] = "cancelled"]
             /\ MktStep(c, "canceled")
          \/ mktReq' = [mktReq EXCEPT ![c] = MktIdle] /\ UNCHANGED mktAws
       /\ UNCHANGED <<mktRow, mktFault>>

MktCancelRecord(c) ==
    /\ mktReq[c].stage = "canceled"
    /\ mktRow' \in {mktRow, MktListed(mktReq[c].copy.id, "cancelled")}
    /\ mktReq' = [mktReq EXCEPT ![c] = MktIdle]
    /\ UNCHANGED <<mktAws, mktFault>>

\* AWS makes a pending listing active.
MktActivate == \E l \in DOMAIN mktAws :
    /\ mktAws[l] = "pending"
    /\ mktAws' = [mktAws EXCEPT ![l] = "active"]
    /\ UNCHANGED <<mktRow, mktReq, mktFault>>

MktNext ==
    \/ MktActivate
    \/ \E c \in MktCallers :
          \/ MktRead(c) \/ MktClass(c) \/ MktClaim(c) \/ MktCreate(c) \/ MktRecord(c)
          \/ MktRollback(c) \/ MktRelease(c) \/ MktCrash(c)
          \/ MktCancelRead(c) \/ MktCancel(c) \/ MktCancelRecord(c)

MktSpec == MktInit /\ [][MktNext]_mktVars

------------------------------------------------------------------------------
\* An instance is not offered twice: the claim leaves at most one live listing,
\* however list and cancel requests overlap, writes fail and processes die, unless
\* AWS created a listing the request did not learn of or would not cancel.
MktOneLiveListing == mktFault = {} => Cardinality(MktLive) <= 1

\* The row knows the live listing: while no request is at work on it, a listing
\* that is live at AWS is the row's, or the row is held in the pending state by
\* a request that died.
MktLiveListingKnown ==
    ((\A c \in MktCallers : mktReq[c].stage \in {"idle", "read", "classed"}) /\ mktFault = {})
    => \A l \in MktLive : mktRow.id = l \/ mktRow.state = "pending"

\* An instance has one live listing at most, and its row knows it.
MktSoleListing == MktOneLiveListing /\ MktLiveListingKnown
=============================================================================
