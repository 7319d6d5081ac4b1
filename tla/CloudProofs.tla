------------------------------ MODULE CloudProofs ------------------------------
(* What is done at the clouds, proved for any number of requests, drives, pages   *)
(* and listings: a purchase has one live listing (Marketplace) and one commitment *)
(* (Providers), an exchange stays inside its permission (DirectExchange) and fits *)
(* what is used (Reshape), and an answer is what was asked for (Catalog).         *)
EXTENDS Marketplace, Providers, DirectExchange, Reshape, Catalog,
        SumTheorems, SequenceTheorems, FunctionTheorems

-----------------------------------------------------------------------------
(* Marketplace: a purchase has one live listing at most and its row knows it.  *)

\* The fields of a row, and the records a request goes through: with the row it
\* read, and with the listing it made.
MktId == Nat \cup {NoListing}
MktRowType ==
    [id : MktId, state : {"", "pending", "active", "cancelled"}, class : {"", "standard"}]
MktBare == [stage : {"idle"}]
MktWithCopy ==
    [stage : {"read", "classed", "claimed", "release", "cancel", "canceled"}, copy : MktRowType]
MktWithListing ==
    [stage : {"created", "rollback", "release"}, copy : MktRowType, listing : Nat,
     state : {"pending", "active"}]

\* The states of a listing at AWS.
MktStates == {"pending", "active", "cancelled"}

MktTypeInv ==
    /\ mktRow \in MktRowType
    /\ mktAws \in Seq(MktStates)
    /\ mktReq \in [MktCallers -> MktBare \cup MktWithCopy \cup MktWithListing]

\* The listings rows and requests speak of were made by AWS.
MktKnownIds ==
    /\ mktRow.id # NoListing => mktRow.id \in 1 .. Len(mktAws)
    /\ \A c \in MktCallers : mktReq[c].stage # "idle" /\ mktReq[c].copy.id # NoListing
                             => mktReq[c].copy.id \in 1 .. Len(mktAws)
    /\ \A c \in MktCallers : mktReq[c].stage \in {"created", "rollback"}
                             => mktReq[c].listing \in 1 .. Len(mktAws)

\* A request that has claimed the slot and not given it back.
MktHolds(c) == mktReq[c].stage \in {"claimed", "created", "rollback", "release"}

\* The slot is held by one request, and the row shows it as long.
MktHeldByOne ==
    /\ \A c \in MktCallers : MktHolds(c) => mktRow.state = "pending"
    /\ \A c, d \in MktCallers : MktHolds(c) /\ MktHolds(d) => c = d

\* What the row says of the live listing, of which there is one.
MktRowCovers ==
    /\ \A l \in MktLive : /\ mktRow.state \in {"pending", "active"}
                          /\ mktRow.state = "active" => mktRow.id = l
    /\ \A l, m \in MktLive : l = m

\* A holder knows what it made.
MktHolderKnows == \A c \in MktCallers :
    /\ mktReq[c].stage \in {"claimed", "release"} => MktLive = {}
    /\ mktReq[c].stage \in {"created", "rollback"} => MktLive \subseteq {mktReq[c].listing}

\* Of the cancel requests, one finds the listing live and records it; until it
\* does, the row is active and nobody can claim it.
MktCancelAlone ==
    /\ \A c \in MktCallers : mktReq[c].stage = "canceled" => mktRow.state = "active" /\ MktLive = {}
    /\ \A c, d \in MktCallers :
          mktReq[c].stage = "canceled" /\ mktReq[d].stage = "canceled" => c = d
    /\ \A c \in MktCallers : mktReq[c].stage = "cancel" /\ mktReq[c].copy.id \in MktLive
                             => mktRow.state = "active"

MktSlotInv == MktHeldByOne /\ MktRowCovers /\ MktHolderKnows /\ MktCancelAlone

\* The inductive invariant: once AWS has kept something from a request, only the
\* types remain.
MktInv == MktTypeInv /\ MktKnownIds /\ (mktFault = {} => MktSlotInv)

------------------------------------------------------------------------------
(* The records. *)

\* Every request has a stage, and one that is at work the row it read.
LEMMA MktReqFields ==
    ASSUME MktTypeInv, NEW c \in MktCallers
    PROVE  /\ mktReq[c] \in MktBare \cup MktWithCopy \cup MktWithListing
           /\ mktReq[c].stage \in {"idle", "read", "classed", "claimed", "release", "cancel",
                                   "canceled", "created", "rollback"}
           /\ mktReq[c].stage # "idle" => mktReq[c].copy \in MktRowType
           /\ mktReq[c].stage \in {"created", "rollback"} =>
                 mktReq[c] \in MktWithListing
  <1>1. mktReq[c] \in MktBare \cup MktWithCopy \cup MktWithListing
    BY DEF MktTypeInv
  <1>2. CASE mktReq[c] \in MktBare
    BY <1>2 DEF MktBare
  <1>3. CASE mktReq[c] \in MktWithCopy
    BY <1>3 DEF MktWithCopy
  <1>4. CASE mktReq[c] \in MktWithListing
    BY <1>4 DEF MktWithListing
  <1> QED
    BY <1>1, <1>2, <1>3, <1>4

\* A change of stage leaves the copy and the listing.
LEMMA MktCopyStage ==
    ASSUME NEW r \in MktWithCopy,
           NEW s \in {"read", "classed", "claimed", "release", "cancel", "canceled"}
    PROVE  /\ [r EXCEPT !.stage = s] \in MktWithCopy
           /\ [r EXCEPT !.stage = s].stage = s
           /\ [r EXCEPT !.stage = s].copy = r.copy
  BY DEF MktWithCopy

LEMMA MktListingStage ==
    ASSUME NEW r \in MktWithListing, NEW s \in {"created", "rollback", "release"}
    PROVE  /\ [r EXCEPT !.stage = s] \in MktWithListing
           /\ [r EXCEPT !.stage = s].stage = s
           /\ [r EXCEPT !.stage = s].copy = r.copy
           /\ [r EXCEPT !.stage = s].listing = r.listing
  BY DEF MktWithListing

\* A request at rest.
LEMMA MktIdleType == MktIdle \in MktBare /\ MktIdle.stage = "idle"
  BY DEF MktIdle, MktBare

\* The listings there are, and one more.
LEMMA MktLiveAppend ==
    ASSUME MktTypeInv, NEW state \in {"pending", "active"}, mktAws' = Append(mktAws, state)
    PROVE  /\ mktAws' \in Seq(MktStates)
           /\ Len(mktAws') = Len(mktAws) + 1
           /\ Len(mktAws) \in Nat
           /\ MktLive' = MktLive \cup {Len(mktAws) + 1}
  <1>1. mktAws \in Seq(MktStates) /\ Len(mktAws) \in Nat /\ DOMAIN mktAws = 1 .. Len(mktAws)
    BY LenProperties DEF MktTypeInv
  <1>2. /\ mktAws' \in Seq(MktStates) /\ Len(mktAws') = Len(mktAws) + 1
        /\ \A i \in 1 .. Len(mktAws) : mktAws'[i] = mktAws[i]
        /\ mktAws'[Len(mktAws) + 1] = state
    <2>1. state \in MktStates
      BY DEF MktStates
    <2> QED
      BY <1>1, <2>1, AppendProperties
  <1>3. DOMAIN mktAws' = 1 .. Len(mktAws) + 1
    BY <1>1, <1>2, LenProperties
  <1> QED
    BY <1>1, <1>2, <1>3 DEF MktLive

\* A listing that is withdrawn, or becomes active.
LEMMA MktLiveCancel ==
    ASSUME MktTypeInv, NEW l \in 1 .. Len(mktAws), NEW state \in MktStates,
           mktAws' = [mktAws EXCEPT ![l] = state]
    PROVE  /\ mktAws' \in Seq(MktStates)
           /\ Len(mktAws') = Len(mktAws)
           /\ state = "cancelled" => MktLive' = MktLive \ {l}
           /\ state = "active" /\ l \in MktLive => MktLive' = MktLive
  <1>1. mktAws \in Seq(MktStates) /\ DOMAIN mktAws = 1 .. Len(mktAws)
    BY LenProperties DEF MktTypeInv
  <1>2. /\ mktAws' \in Seq(MktStates) /\ Len(mktAws') = Len(mktAws)
        /\ \A i \in 1 .. Len(mktAws) : mktAws'[i] = IF i = l THEN state ELSE mktAws[i]
    BY <1>1, ExceptSeq
  <1>3. DOMAIN mktAws' = 1 .. Len(mktAws)
    BY <1>2, LenProperties
  <1> QED
    BY <1>1, <1>2, <1>3 DEF MktLive

\* The live listings are those AWS made.
LEMMA MktLiveMade == MktTypeInv => MktLive \subseteq 1 .. Len(mktAws)
  BY DEF MktTypeInv, MktLive

\* A request that goes to a record of its own, and the others stay.
LEMMA MktMoves ==
    ASSUME MktTypeInv, NEW c \in MktCallers,
           NEW r \in MktBare \cup MktWithCopy \cup MktWithListing,
           mktReq' = [mktReq EXCEPT ![c] = r]
    PROVE  /\ mktReq' \in [MktCallers -> MktBare \cup MktWithCopy \cup MktWithListing]
           /\ mktReq'[c] = r
           /\ \A d \in MktCallers : d # c => mktReq'[d] = mktReq[d]
  BY DEF MktTypeInv

\* A request with a copy that goes to another stage.
LEMMA MktCopyMoves ==
    ASSUME MktTypeInv, NEW c \in MktCallers, mktReq[c] \in MktWithCopy,
           NEW s \in {"read", "classed", "claimed", "release", "cancel", "canceled"},
           MktStep(c, s)
    PROVE  /\ mktReq' \in [MktCallers -> MktBare \cup MktWithCopy \cup MktWithListing]
           /\ mktReq'[c].stage = s /\ mktReq'[c].copy = mktReq[c].copy
           /\ \A d \in MktCallers : d # c => mktReq'[d] = mktReq[d]
  <1> DEFINE r == [mktReq[c] EXCEPT !.stage = s]
  <1>1. mktReq' = [mktReq EXCEPT ![c] = r]
    BY DEF MktStep
  <1>2. r \in MktWithCopy /\ r.stage = s /\ r.copy = mktReq[c].copy
    BY MktCopyStage
  <1> HIDE DEF r
  <1> QED
    BY <1>1, <1>2, MktMoves

\* The same of a request with a listing.
LEMMA MktListingMoves ==
    ASSUME MktTypeInv, NEW c \in MktCallers, mktReq[c] \in MktWithListing,
           NEW s \in {"created", "rollback", "release"}, MktStep(c, s)
    PROVE  /\ mktReq' \in [MktCallers -> MktBare \cup MktWithCopy \cup MktWithListing]
           /\ mktReq'[c].stage = s /\ mktReq'[c].copy = mktReq[c].copy
           /\ mktReq'[c].listing = mktReq[c].listing
           /\ \A d \in MktCallers : d # c => mktReq'[d] = mktReq[d]
  <1> DEFINE r == [mktReq[c] EXCEPT !.stage = s]
  <1>1. mktReq' = [mktReq EXCEPT ![c] = r]
    BY DEF MktStep
  <1>2. r \in MktWithListing /\ r.stage = s /\ r.copy = mktReq[c].copy /\ r.listing = mktReq[c].listing
    BY MktListingStage
  <1> HIDE DEF r
  <1> QED
    BY <1>1, <1>2, MktMoves

\* A request that comes to rest.
LEMMA MktRests ==
    ASSUME MktTypeInv, NEW c \in MktCallers, mktReq' = [mktReq EXCEPT ![c] = MktIdle]
    PROVE  /\ mktReq' \in [MktCallers -> MktBare \cup MktWithCopy \cup MktWithListing]
           /\ mktReq'[c].stage = "idle"
           /\ \A d \in MktCallers : d # c => mktReq'[d] = mktReq[d]
  BY MktMoves, MktIdleType

\* Where a request has a copy only.
LEMMA MktHasCopy ==
    ASSUME MktTypeInv, NEW c \in MktCallers,
           mktReq[c].stage \in {"read", "classed", "claimed", "cancel", "canceled"}
    PROVE  mktReq[c] \in MktWithCopy
  BY MktReqFields DEF MktBare, MktWithListing

\* The row with another listing.
LEMMA MktListedRow ==
    ASSUME MktTypeInv, NEW id \in MktId, NEW state \in {"", "pending", "active", "cancelled"}
    PROVE  [id |-> id, state |-> state, class |-> mktRow.class] \in MktRowType
  BY DEF MktTypeInv, MktRowType

------------------------------------------------------------------------------
(* The steps. *)

\* A step after which a request holds nothing and has withdrawn nothing, and that
\* leaves the listings and what the row says of them.
LEMMA MktQuietStep ==
    ASSUME MktSlotInv, NEW c \in MktCallers,
           mktReq'[c].stage \in {"idle", "read", "classed"},
           \A d \in MktCallers : d # c => mktReq'[d] = mktReq[d],
           mktRow'.id = mktRow.id, mktRow'.state = mktRow.state, MktLive' = MktLive
    PROVE  MktSlotInv'
  <1>1. MktHeldByOne'
    BY DEF MktSlotInv, MktHeldByOne, MktHolds
  <1>2. MktRowCovers'
    BY DEF MktSlotInv, MktRowCovers
  <1>3. MktHolderKnows'
    BY DEF MktSlotInv, MktHolderKnows
  <1>4. MktCancelAlone'
    BY DEF MktSlotInv, MktCancelAlone
  <1> QED
    BY <1>1, <1>2, <1>3, <1>4 DEF MktSlotInv

\* The first read of a request.
LEMMA MktReadKeeps ==
    ASSUME MktInv, NEW c \in MktCallers, MktRead(c)
    PROVE  MktInv'
  <1>1. MktTypeInv /\ MktKnownIds
    BY DEF MktInv
  <1> DEFINE r == [stage |-> "read", copy |-> mktRow]
  <1>2. r \in MktWithCopy
    BY <1>1 DEF MktTypeInv, MktWithCopy
  <1>3. mktReq' = [mktReq EXCEPT ![c] = r] /\ UNCHANGED <<mktRow, mktAws, mktFault>>
    BY DEF MktRead
  <1>4. /\ mktReq' \in [MktCallers -> MktBare \cup MktWithCopy \cup MktWithListing]
        /\ mktReq'[c].stage = "read" /\ mktReq'[c].copy = mktRow
        /\ \A d \in MktCallers : d # c => mktReq'[d] = mktReq[d]
    BY <1>1, <1>2, <1>3, MktMoves
  <1>5. MktTypeInv' /\ MktKnownIds'
    BY <1>1, <1>3, <1>4 DEF MktTypeInv, MktKnownIds
  <1>6. MktLive' = MktLive
    BY <1>3 DEF MktLive
  <1> QED
    BY <1>3, <1>4, <1>5, <1>6, MktQuietStep DEF MktInv

\* The class of the offering is put in the row.
LEMMA MktClassKeeps ==
    ASSUME MktInv, NEW c \in MktCallers, MktClass(c)
    PROVE  MktInv'
  <1>1. MktTypeInv /\ MktKnownIds /\ mktReq[c] \in MktWithCopy
    BY MktHasCopy DEF MktInv, MktClass
  <1>2. /\ mktReq' \in [MktCallers -> MktBare \cup MktWithCopy \cup MktWithListing]
        /\ mktReq'[c].stage = "classed" /\ mktReq'[c].copy = mktReq[c].copy
        /\ \A d \in MktCallers : d # c => mktReq'[d] = mktReq[d]
    BY <1>1, MktCopyMoves DEF MktClass
  <1>3. mktRow' \in MktRowType /\ mktRow'.id = mktRow.id /\ mktRow'.state = mktRow.state
    BY <1>1 DEF MktClass, MktTypeInv, MktRowType
  <1>4. UNCHANGED <<mktAws, mktFault>> /\ mktReq[c].stage = "read"
    BY DEF MktClass
  <1>5. MktTypeInv' /\ MktKnownIds'
    BY <1>1, <1>2, <1>3, <1>4 DEF MktTypeInv, MktKnownIds
  <1>6. MktLive' = MktLive
    BY <1>4 DEF MktLive
  <1> QED
    BY <1>2, <1>3, <1>4, <1>5, <1>6, MktQuietStep DEF MktInv

\* A request that gives up, by a refusal or a crash, with nothing else changed.
LEMMA MktRestKeeps ==
    ASSUME MktInv, NEW c \in MktCallers, mktReq' = [mktReq EXCEPT ![c] = MktIdle],
           UNCHANGED <<mktRow, mktAws, mktFault>>
    PROVE  MktInv'
  <1>1. MktTypeInv /\ MktKnownIds
    BY DEF MktInv
  <1>2. /\ mktReq' \in [MktCallers -> MktBare \cup MktWithCopy \cup MktWithListing]
        /\ mktReq'[c].stage = "idle"
        /\ \A d \in MktCallers : d # c => mktReq'[d] = mktReq[d]
    BY <1>1, MktRests
  <1>3. MktTypeInv' /\ MktKnownIds'
    BY <1>1, <1>2 DEF MktTypeInv, MktKnownIds
  <1>4. MktLive' = MktLive
    BY DEF MktLive
  <1> QED
    BY <1>2, <1>3, <1>4, MktQuietStep DEF MktInv

\* The claim: whoever finds the slot free has it alone, and nothing is live.
LEMMA MktClaimKeeps ==
    ASSUME MktInv, NEW c \in MktCallers, MktClaim(c)
    PROVE  MktInv'
  <1>1. MktTypeInv /\ MktKnownIds /\ mktReq[c] \in MktWithCopy
    BY MktHasCopy DEF MktInv, MktClaim
  <1>2. CASE mktRow.state \in {"active", "pending"}
    BY <1>2, MktRestKeeps DEF MktClaim
  <1>3. CASE mktRow.state \notin {"active", "pending"}
    <2>1. /\ mktRow' = [mktRow EXCEPT !.state = "pending"] /\ MktStep(c, "claimed")
          /\ UNCHANGED <<mktAws, mktFault>> /\ mktReq[c].stage = "classed"
      BY <1>3 DEF MktClaim
    <2>2. /\ mktReq' \in [MktCallers -> MktBare \cup MktWithCopy \cup MktWithListing]
          /\ mktReq'[c].stage = "claimed" /\ mktReq'[c].copy = mktReq[c].copy
          /\ \A d \in MktCallers : d # c => mktReq'[d] = mktReq[d]
      BY <1>1, <2>1, MktCopyMoves
    <2>3. mktRow' \in MktRowType /\ mktRow'.id = mktRow.id /\ mktRow'.state = "pending"
      BY <1>1, <2>1 DEF MktTypeInv, MktRowType
    <2>4. MktTypeInv' /\ MktKnownIds'
      BY <1>1, <2>1, <2>2, <2>3 DEF MktTypeInv, MktKnownIds
    <2>5. MktLive' = MktLive
      BY <2>1 DEF MktLive
    <2>6. ASSUME mktFault' = {} PROVE MktSlotInv'
      <3>1. MktSlotInv
        BY <2>1, <2>6 DEF MktInv
      <3>2. MktLive = {} /\ \A d \in MktCallers : ~MktHolds(d) /\ mktReq[d].stage # "canceled"
        BY <1>3, <3>1 DEF MktSlotInv, MktRowCovers, MktHeldByOne, MktCancelAlone
      <3>3. MktHeldByOne'
        BY <2>2, <2>3, <3>2 DEF MktHeldByOne, MktHolds
      <3>4. MktRowCovers' /\ MktHolderKnows'
        BY <2>2, <2>5, <3>2 DEF MktRowCovers, MktHolderKnows, MktHolds
      <3>5. MktCancelAlone'
        BY <2>2, <2>5, <3>2 DEF MktCancelAlone
      <3> QED
        BY <3>3, <3>4, <3>5 DEF MktSlotInv
    <2> QED
      BY <2>4, <2>6 DEF MktInv
  <1> QED
    BY <1>2, <1>3

\* The call that makes the listing: made, failed, or made without an answer.
LEMMA MktCreateKeeps ==
    ASSUME MktInv, NEW c \in MktCallers, MktCreate(c)
    PROVE  MktInv'
  <1>1. /\ MktTypeInv /\ MktKnownIds /\ mktReq[c] \in MktWithCopy
        /\ mktReq[c].stage = "claimed" /\ mktRow' = mktRow
        /\ mktReq[c].copy \in MktRowType
    BY MktHasCopy, MktReqFields DEF MktInv, MktCreate
  <1>2. mktFault' = {} => MktSlotInv /\ mktFault' = mktFault
    BY DEF MktInv, MktCreate
  <1>3. MktSlotInv => /\ MktLive = {} /\ mktRow.state = "pending"
                      /\ \A d \in MktCallers : /\ MktHolds(d) => d = c
                                               /\ mktReq[d].stage # "canceled"
    BY <1>1 DEF MktSlotInv, MktHolderKnows, MktHeldByOne, MktHolds, MktCancelAlone
  <1>4. CASE /\ MktStep(c, "release")
             /\ UNCHANGED <<mktAws, mktFault>>
    <2>1. /\ mktReq' \in [MktCallers -> MktBare \cup MktWithCopy \cup MktWithListing]
          /\ mktReq'[c].stage = "release" /\ mktReq'[c].copy = mktReq[c].copy
          /\ \A d \in MktCallers : d # c => mktReq'[d] = mktReq[d]
      BY <1>1, <1>4, MktCopyMoves
    <2>2. MktTypeInv' /\ MktKnownIds'
      BY <1>1, <1>4, <2>1 DEF MktTypeInv, MktKnownIds
    <2>3. MktLive' = MktLive
      BY <1>4 DEF MktLive
    <2>4. ASSUME mktFault' = {} PROVE MktSlotInv'
      BY <1>1, <1>2, <1>3, <2>1, <2>3, <2>4
         DEF MktSlotInv, MktHeldByOne, MktHolds, MktRowCovers, MktHolderKnows, MktCancelAlone
    <2> QED
      BY <2>2, <2>4 DEF MktInv
  <1>5. ASSUME NEW state \in {"pending", "active"}, mktAws' = Append(mktAws, state),
               MktStep(c, "release"), mktFault' = mktFault \cup {"lost"}
        PROVE  MktInv'
    <2>1. /\ mktReq' \in [MktCallers -> MktBare \cup MktWithCopy \cup MktWithListing]
          /\ mktReq'[c].stage = "release" /\ mktReq'[c].copy = mktReq[c].copy
          /\ \A d \in MktCallers : d # c => mktReq'[d] = mktReq[d]
      BY <1>1, <1>5, MktCopyMoves
    <2>2. mktAws' \in Seq(MktStates) /\ Len(mktAws') = Len(mktAws) + 1 /\ Len(mktAws) \in Nat
      BY <1>1, <1>5, MktLiveAppend
    <2>3. MktTypeInv' /\ MktKnownIds'
      BY <1>1, <2>1, <2>2 DEF MktTypeInv, MktKnownIds
    <2> QED
      BY <1>5, <2>3 DEF MktInv
  <1>6. ASSUME NEW state \in {"pending", "active"}, mktAws' = Append(mktAws, state),
               mktReq' = [mktReq EXCEPT ![c] = [stage |-> "created", copy |-> @.copy,
                                                listing |-> Len(mktAws'), state |-> state]],
               mktFault' = mktFault
        PROVE  MktInv'
    <2> DEFINE r == [stage |-> "created", copy |-> mktReq[c].copy,
                     listing |-> Len(mktAws'), state |-> state]
    <2>1. /\ mktAws' \in Seq(MktStates) /\ Len(mktAws') = Len(mktAws) + 1 /\ Len(mktAws) \in Nat
          /\ MktLive' = MktLive \cup {Len(mktAws) + 1}
      BY <1>1, <1>6, MktLiveAppend
    <2>2. r \in MktWithListing
      BY <1>1, <2>1 DEF MktWithListing
    <2>3. /\ mktReq' \in [MktCallers -> MktBare \cup MktWithCopy \cup MktWithListing]
          /\ mktReq'[c] = r
          /\ \A d \in MktCallers : d # c => mktReq'[d] = mktReq[d]
      BY <1>1, <1>6, <2>2, MktMoves
    <2>4. /\ mktReq'[c].stage = "created" /\ mktReq'[c].copy = mktReq[c].copy
          /\ mktReq'[c].listing = Len(mktAws) + 1
      BY <2>1, <2>3
    <2>5. MktTypeInv' /\ MktKnownIds'
      BY <1>1, <2>1, <2>3, <2>4 DEF MktTypeInv, MktKnownIds
    <2>6. ASSUME mktFault' = {} PROVE MktSlotInv'
      <3>1. /\ MktSlotInv /\ MktLive' = {Len(mktAws) + 1} /\ mktRow'.state = "pending"
            /\ \A d \in MktCallers : d # c => ~MktHolds(d)
            /\ \A d \in MktCallers : mktReq[d].stage # "canceled"
        BY <1>1, <1>2, <1>3, <2>1, <2>6
      <3>2. MktHeldByOne' /\ MktRowCovers' /\ MktHolderKnows'
        BY <2>3, <2>4, <3>1 DEF MktHeldByOne, MktHolds, MktRowCovers, MktHolderKnows
      <3>3. \A d \in MktCallers : mktReq[d].stage = "cancel"
                => mktReq[d].copy.id # Len(mktAws) + 1
        BY <1>1, <2>1, MktAssumption DEF MktKnownIds
      <3>4. MktCancelAlone'
        BY <2>3, <2>4, <3>1, <3>3 DEF MktCancelAlone
      <3> QED
        BY <3>2, <3>4 DEF MktSlotInv
    <2> QED
      BY <2>5, <2>6 DEF MktInv
  <1> QED
    BY <1>4, <1>5, <1>6 DEF MktCreate

\* The listing is recorded on the row, or is to be withdrawn.
LEMMA MktRecordKeeps ==
    ASSUME MktInv, NEW c \in MktCallers, MktRecord(c)
    PROVE  MktInv'
  <1>1. /\ MktTypeInv /\ MktKnownIds /\ mktReq[c] \in MktWithListing
        /\ mktReq[c].stage = "created" /\ UNCHANGED <<mktAws, mktFault>>
    BY MktReqFields DEF MktInv, MktRecord
  <1>2. MktLive' = MktLive
    BY <1>1 DEF MktLive
  <1>3. mktReq[c].state \in {"pending", "active"} /\ mktReq[c].listing \in 1 .. Len(mktAws)
    BY <1>1 DEF MktWithListing, MktKnownIds
  <1>4. MktSlotInv => /\ MktLive \subseteq {mktReq[c].listing} /\ mktRow.state = "pending"
                      /\ \A d \in MktCallers : /\ MktHolds(d) => d = c
                                               /\ mktReq[d].stage # "canceled"
                                               /\ mktReq[d].stage = "cancel"
                                                    => mktReq[d].copy.id \notin MktLive
    BY <1>1 DEF MktSlotInv, MktHolderKnows, MktHeldByOne, MktHolds, MktCancelAlone
  <1>5. CASE /\ mktRow' = MktListed(mktReq[c].listing, mktReq[c].state)
             /\ mktReq' = [mktReq EXCEPT ![c] = MktIdle]
    <2>1. /\ mktReq' \in [MktCallers -> MktBare \cup MktWithCopy \cup MktWithListing]
          /\ mktReq'[c].stage = "idle"
          /\ \A d \in MktCallers : d # c => mktReq'[d] = mktReq[d]
      BY <1>1, <1>5, MktRests
    <2>2. /\ mktRow' \in MktRowType /\ mktRow'.id = mktReq[c].listing
          /\ mktRow'.state = mktReq[c].state
      <3>1. mktReq[c].listing \in MktId
        BY <1>1 DEF MktWithListing, MktId
      <3> QED
        BY <1>1, <1>3, <1>5, <3>1, MktListedRow DEF MktListed
    <2>3. MktTypeInv' /\ MktKnownIds'
      BY <1>1, <1>3, <2>1, <2>2 DEF MktTypeInv, MktKnownIds
    <2>4. ASSUME mktFault' = {} PROVE MktSlotInv'
      <3>1. MktSlotInv
        BY <1>1, <2>4 DEF MktInv
      <3>2. MktHeldByOne' /\ MktRowCovers'
        BY <1>2, <1>3, <1>4, <2>1, <2>2, <3>1 DEF MktHeldByOne, MktHolds, MktRowCovers
      <3>3. MktHolderKnows' /\ MktCancelAlone'
        BY <1>2, <1>4, <2>1, <3>1 DEF MktHolderKnows, MktHolds, MktCancelAlone
      <3> QED
        BY <3>2, <3>3 DEF MktSlotInv
    <2> QED
      BY <2>3, <2>4 DEF MktInv
  <1>6. CASE MktStep(c, "rollback") /\ UNCHANGED mktRow
    <2>1. /\ mktReq' \in [MktCallers -> MktBare \cup MktWithCopy \cup MktWithListing]
          /\ mktReq'[c].stage = "rollback" /\ mktReq'[c].copy = mktReq[c].copy
          /\ mktReq'[c].listing = mktReq[c].listing
          /\ \A d \in MktCallers : d # c => mktReq'[d] = mktReq[d]
      BY <1>1, <1>6, MktListingMoves
    <2>2. MktTypeInv' /\ MktKnownIds'
      BY <1>1, <1>3, <1>6, <2>1 DEF MktTypeInv, MktKnownIds
    <2>3. ASSUME mktFault' = {} PROVE MktSlotInv'
      <3>1. MktSlotInv
        BY <1>1, <2>3 DEF MktInv
      <3>2. MktHeldByOne' /\ MktRowCovers'
        BY <1>2, <1>4, <1>6, <2>1, <3>1 DEF MktSlotInv, MktHeldByOne, MktHolds, MktRowCovers
      <3>3. MktHolderKnows' /\ MktCancelAlone'
        BY <1>2, <1>4, <1>6, <2>1, <3>1 DEF MktHolderKnows, MktHolds, MktCancelAlone
      <3> QED
        BY <3>2, <3>3 DEF MktSlotInv
    <2> QED
      BY <2>2, <2>3 DEF MktInv
  <1> QED
    BY <1>5, <1>6 DEF MktRecord

\* The listing that was not recorded is withdrawn, if that works.
LEMMA MktRollbackKeeps ==
    ASSUME MktInv, NEW c \in MktCallers, MktRollback(c)
    PROVE  MktInv'
  <1>1. /\ MktTypeInv /\ MktKnownIds /\ mktReq[c] \in MktWithListing
        /\ mktReq[c].stage = "rollback" /\ UNCHANGED mktRow /\ MktStep(c, "release")
        /\ mktReq[c].listing \in 1 .. Len(mktAws)
    BY MktReqFields DEF MktInv, MktRollback, MktKnownIds
  <1>2. /\ mktReq' \in [MktCallers -> MktBare \cup MktWithCopy \cup MktWithListing]
        /\ mktReq'[c].stage = "release" /\ mktReq'[c].copy = mktReq[c].copy
        /\ \A d \in MktCallers : d # c => mktReq'[d] = mktReq[d]
    BY <1>1, MktListingMoves
  <1>3. CASE mktFault' = mktFault \cup {"rollback"} /\ UNCHANGED mktAws
    <2>1. MktTypeInv' /\ MktKnownIds'
      BY <1>1, <1>2, <1>3 DEF MktTypeInv, MktKnownIds
    <2> QED
      BY <1>3, <2>1 DEF MktInv
  <1>4. CASE mktAws' = [mktAws EXCEPT ![mktReq[c].listing] = "cancelled"] /\ UNCHANGED mktFault
    <2>1. /\ mktAws' \in Seq(MktStates) /\ Len(mktAws') = Len(mktAws)
          /\ MktLive' = MktLive \ {mktReq[c].listing}
      BY <1>1, <1>4, MktLiveCancel DEF MktStates
    <2>2. MktTypeInv' /\ MktKnownIds'
      BY <1>1, <1>2, <2>1 DEF MktTypeInv, MktKnownIds
    <2>3. ASSUME mktFault' = {} PROVE MktSlotInv'
      <3>1. MktSlotInv
        BY <1>4, <2>3 DEF MktInv
      <3>2. MktLive' = {}
        BY <1>1, <2>1, <3>1 DEF MktSlotInv, MktHolderKnows
      <3>3. /\ mktRow.state = "pending"
            /\ \A d \in MktCallers : /\ MktHolds(d) => d = c
                                     /\ mktReq[d].stage # "canceled"
        BY <1>1, <3>1 DEF MktSlotInv, MktHeldByOne, MktHolds, MktCancelAlone
      <3>4. MktHeldByOne' /\ MktRowCovers' /\ MktHolderKnows' /\ MktCancelAlone'
        BY <1>1, <1>2, <3>2, <3>3
           DEF MktHeldByOne, MktHolds, MktRowCovers, MktHolderKnows, MktCancelAlone
      <3> QED
        BY <3>4 DEF MktSlotInv
    <2> QED
      BY <2>2, <2>3 DEF MktInv
  <1> QED
    BY <1>3, <1>4 DEF MktRollback

\* The slot is given back, or its release fails and it stays taken.
LEMMA MktReleaseKeeps ==
    ASSUME MktInv, NEW c \in MktCallers, MktRelease(c)
    PROVE  MktInv'
  <1>1. /\ MktTypeInv /\ MktKnownIds /\ mktReq[c].stage = "release"
        /\ mktReq[c].copy \in MktRowType /\ UNCHANGED <<mktAws, mktFault>>
        /\ mktReq' = [mktReq EXCEPT ![c] = MktIdle]
    BY MktReqFields DEF MktInv, MktRelease
  <1>2. CASE mktRow' = mktRow
    BY <1>1, <1>2, MktRestKeeps
  <1>3. CASE mktRow' = MktListed(mktReq[c].copy.id, mktReq[c].copy.state)
    <2>1. mktRow' \in MktRowType /\ mktRow'.id = mktReq[c].copy.id
      BY <1>1, <1>3, MktListedRow DEF MktListed, MktRowType
    <2>2. /\ mktReq' \in [MktCallers -> MktBare \cup MktWithCopy \cup MktWithListing]
          /\ mktReq'[c].stage = "idle"
          /\ \A d \in MktCallers : d # c => mktReq'[d] = mktReq[d]
      BY <1>1, MktRests
    <2>3. MktTypeInv' /\ MktKnownIds'
      BY <1>1, <2>1, <2>2 DEF MktTypeInv, MktKnownIds
    <2>4. MktLive' = MktLive
      BY <1>1 DEF MktLive
    <2>5. ASSUME mktFault' = {} PROVE MktSlotInv'
      <3>1. MktSlotInv
        BY <1>1, <2>5 DEF MktInv
      <3>2. /\ MktLive = {}
            /\ \A d \in MktCallers : /\ MktHolds(d) => d = c
                                     /\ mktReq[d].stage # "canceled"
        BY <1>1, <3>1 DEF MktSlotInv, MktHolderKnows, MktHeldByOne, MktHolds, MktCancelAlone
      <3>3. MktHeldByOne' /\ MktRowCovers' /\ MktHolderKnows' /\ MktCancelAlone'
        BY <2>2, <2>4, <3>2 DEF MktHeldByOne, MktHolds, MktRowCovers, MktHolderKnows, MktCancelAlone
      <3> QED
        BY <3>3 DEF MktSlotInv
    <2> QED
      BY <2>3, <2>5 DEF MktInv
  <1> QED
    BY <1>2, <1>3 DEF MktRelease

\* A cancel request reads an active row.
LEMMA MktCancelReadKeeps ==
    ASSUME MktInv, NEW c \in MktCallers, MktCancelRead(c)
    PROVE  MktInv'
  <1>1. MktTypeInv /\ MktKnownIds
    BY DEF MktInv
  <1> DEFINE r == [stage |-> "cancel", copy |-> mktRow]
  <1>2. r \in MktWithCopy
    BY <1>1 DEF MktTypeInv, MktWithCopy
  <1>3. /\ mktReq' = [mktReq EXCEPT ![c] = r] /\ UNCHANGED <<mktRow, mktAws, mktFault>>
        /\ mktRow.state = "active"
    BY DEF MktCancelRead
  <1>4. /\ mktReq' \in [MktCallers -> MktBare \cup MktWithCopy \cup MktWithListing]
        /\ mktReq'[c].stage = "cancel" /\ mktReq'[c].copy = mktRow
        /\ \A d \in MktCallers : d # c => mktReq'[d] = mktReq[d]
    BY <1>1, <1>2, <1>3, MktMoves
  <1>5. MktTypeInv' /\ MktKnownIds'
    BY <1>1, <1>3, <1>4 DEF MktTypeInv, MktKnownIds
  <1>6. MktLive' = MktLive
    BY <1>3 DEF MktLive
  <1>7. ASSUME mktFault' = {} PROVE MktSlotInv'
    <2>1. MktSlotInv
      BY <1>3, <1>7 DEF MktInv
    <2>2. MktHeldByOne' /\ MktRowCovers' /\ MktHolderKnows'
      BY <1>3, <1>4, <1>6, <2>1
         DEF MktSlotInv, MktHeldByOne, MktHolds, MktRowCovers, MktHolderKnows
    <2>3. MktCancelAlone'
      BY <1>3, <1>4, <1>6, <2>1 DEF MktSlotInv, MktCancelAlone
    <2> QED
      BY <2>2, <2>3 DEF MktSlotInv
  <1> QED
    BY <1>5, <1>7 DEF MktInv

\* The listing of the row is withdrawn at AWS, if it is live.
LEMMA MktCancelKeeps ==
    ASSUME MktInv, NEW c \in MktCallers, MktCancel(c)
    PROVE  MktInv'
  <1>1. /\ MktTypeInv /\ MktKnownIds /\ mktReq[c] \in MktWithCopy
        /\ mktReq[c].stage = "cancel" /\ UNCHANGED <<mktRow, mktFault>>
    BY MktHasCopy DEF MktInv, MktCancel
  <1>2. CASE mktReq' = [mktReq EXCEPT ![c] = MktIdle] /\ UNCHANGED mktAws
    BY <1>1, <1>2, MktRestKeeps
  <1>3. CASE /\ mktReq[c].copy.id \in MktLive
             /\ mktAws' = [mktAws EXCEPT ![mktReq[c].copy.id] = "cancelled"]
             /\ MktStep(c, "canceled")
    <2>1. mktReq[c].copy.id \in 1 .. Len(mktAws)
      BY <1>1, <1>3, MktLiveMade
    <2>2. /\ mktAws' \in Seq(MktStates) /\ Len(mktAws') = Len(mktAws)
          /\ MktLive' = MktLive \ {mktReq[c].copy.id}
      BY <1>1, <1>3, <2>1, MktLiveCancel DEF MktStates
    <2>3. /\ mktReq' \in [MktCallers -> MktBare \cup MktWithCopy \cup MktWithListing]
          /\ mktReq'[c].stage = "canceled" /\ mktReq'[c].copy = mktReq[c].copy
          /\ \A d \in MktCallers : d # c => mktReq'[d] = mktReq[d]
      BY <1>1, <1>3, MktCopyMoves
    <2>4. MktTypeInv' /\ MktKnownIds'
      BY <1>1, <2>2, <2>3 DEF MktTypeInv, MktKnownIds
    <2>5. ASSUME mktFault' = {} PROVE MktSlotInv'
      <3>1. MktSlotInv
        BY <1>1, <2>5 DEF MktInv
      <3>2. mktRow.state = "active" /\ MktLive' = {}
        BY <1>1, <1>3, <2>2, <3>1 DEF MktSlotInv, MktRowCovers, MktCancelAlone
      <3>3. \A d \in MktCallers : ~MktHolds(d) /\ mktReq[d].stage # "canceled"
        BY <1>3, <3>1, <3>2 DEF MktSlotInv, MktHeldByOne, MktCancelAlone
      <3>4. MktHeldByOne' /\ MktRowCovers' /\ MktHolderKnows' /\ MktCancelAlone'
        BY <1>1, <2>3, <3>2, <3>3
           DEF MktHeldByOne, MktHolds, MktRowCovers, MktHolderKnows, MktCancelAlone
      <3> QED
        BY <3>4 DEF MktSlotInv
    <2> QED
      BY <2>4, <2>5 DEF MktInv
  <1> QED
    BY <1>2, <1>3 DEF MktCancel

\* The row learns that its listing is withdrawn, or does not.
LEMMA MktCancelRecordKeeps ==
    ASSUME MktInv, NEW c \in MktCallers, MktCancelRecord(c)
    PROVE  MktInv'
  <1>1. /\ MktTypeInv /\ MktKnownIds /\ mktReq[c].stage = "canceled"
        /\ mktReq[c].copy \in MktRowType /\ UNCHANGED <<mktAws, mktFault>>
        /\ mktReq' = [mktReq EXCEPT ![c] = MktIdle]
    BY MktReqFields DEF MktInv, MktCancelRecord
  <1>2. CASE mktRow' = mktRow
    BY <1>1, <1>2, MktRestKeeps
  <1>3. CASE mktRow' = MktListed(mktReq[c].copy.id, "cancelled")
    <2>1. mktRow' \in MktRowType /\ mktRow'.id = mktReq[c].copy.id
      BY <1>1, <1>3, MktListedRow DEF MktListed, MktRowType
    <2>2. /\ mktReq' \in [MktCallers -> MktBare \cup MktWithCopy \cup MktWithListing]
          /\ mktReq'[c].stage = "idle"
          /\ \A d \in MktCallers : d # c => mktReq'[d] = mktReq[d]
      BY <1>1, MktRests
    <2>3. MktTypeInv' /\ MktKnownIds'
      BY <1>1, <2>1, <2>2 DEF MktTypeInv, MktKnownIds
    <2>4. MktLive' = MktLive
      BY <1>1 DEF MktLive
    <2>5. ASSUME mktFault' = {} PROVE MktSlotInv'
      <3>1. MktSlotInv
        BY <1>1, <2>5 DEF MktInv
      <3>2. /\ MktLive = {}
            /\ \A d \in MktCallers : /\ ~MktHolds(d)
                                     /\ mktReq[d].stage = "canceled" => d = c
        BY <1>1, <3>1 DEF MktSlotInv, MktHeldByOne, MktCancelAlone
      <3>3. MktHeldByOne' /\ MktRowCovers' /\ MktHolderKnows' /\ MktCancelAlone'
        BY <2>2, <2>4, <3>2 DEF MktHeldByOne, MktHolds, MktRowCovers, MktHolderKnows, MktCancelAlone
      <3> QED
        BY <3>3 DEF MktSlotInv
    <2> QED
      BY <2>3, <2>5 DEF MktInv
  <1> QED
    BY <1>2, <1>3 DEF MktCancelRecord

\* A pending listing becomes active: it was live before.
LEMMA MktActivateKeeps ==
    ASSUME MktInv, MktActivate
    PROVE  MktInv'
  <1>1. MktTypeInv /\ MktKnownIds /\ UNCHANGED <<mktRow, mktReq, mktFault>>
    BY DEF MktInv, MktActivate
  <1>2. PICK l \in DOMAIN mktAws : mktAws[l] = "pending" /\ mktAws' = [mktAws EXCEPT ![l] = "active"]
    BY DEF MktActivate
  <1>3. l \in MktLive /\ l \in 1 .. Len(mktAws)
    BY <1>1, <1>2, MktLiveMade DEF MktLive
  <1>4. mktAws' \in Seq(MktStates) /\ Len(mktAws') = Len(mktAws) /\ MktLive' = MktLive
    BY <1>1, <1>2, <1>3, MktLiveCancel DEF MktStates
  <1>5. MktTypeInv' /\ MktKnownIds'
    BY <1>1, <1>4 DEF MktTypeInv, MktKnownIds
  <1>6. MktSlotInv => MktSlotInv'
    BY <1>1, <1>4
       DEF MktSlotInv, MktHeldByOne, MktHolds, MktRowCovers, MktHolderKnows, MktCancelAlone
  <1> QED
    BY <1>1, <1>5, <1>6 DEF MktInv

------------------------------------------------------------------------------
(* The theorem. *)

\* Nothing is listed at first.
LEMMA MktInitInv == MktInit => MktInv
  <1> SUFFICES ASSUME MktInit PROVE MktInv
    OBVIOUS
  <1>1. /\ mktRow \in MktRowType /\ mktRow.id = NoListing
        /\ mktAws = <<>> /\ mktReq = [c \in MktCallers |-> MktIdle]
    <2>1. PICK class \in {"", "standard"} :
             mktRow = [id |-> NoListing, state |-> "", class |-> class]
      BY DEF MktInit
    <2>2. NoListing \in MktId
      BY DEF MktId
    <2> QED
      BY <2>1, <2>2 DEF MktInit, MktRowType
  <1>2. mktAws \in Seq(MktStates) /\ MktLive = {}
    BY <1>1 DEF MktLive
  <1>3. MktTypeInv /\ \A c \in MktCallers : mktReq[c].stage = "idle"
    BY <1>1, <1>2, MktIdleType DEF MktTypeInv
  <1>4. MktKnownIds
    BY <1>1, <1>3 DEF MktKnownIds
  <1>5. MktSlotInv
    BY <1>2, <1>3 DEF MktSlotInv, MktHeldByOne, MktHolds, MktRowCovers, MktHolderKnows, MktCancelAlone
  <1> QED
    BY <1>3, <1>4, <1>5 DEF MktInv

LEMMA MktNextKeeps == MktInv /\ [MktNext]_mktVars => MktInv'
  <1> SUFFICES ASSUME MktInv, [MktNext]_mktVars PROVE MktInv'
    OBVIOUS
  <1>1. CASE MktActivate
    BY <1>1, MktActivateKeeps
  <1>2. ASSUME NEW c \in MktCallers, MktRead(c) \/ MktClass(c) \/ MktClaim(c) \/ MktCreate(c)
        PROVE  MktInv'
    BY <1>2, MktReadKeeps, MktClassKeeps, MktClaimKeeps, MktCreateKeeps
  <1>3. ASSUME NEW c \in MktCallers, MktRecord(c) \/ MktRollback(c) \/ MktRelease(c)
        PROVE  MktInv'
    BY <1>3, MktRecordKeeps, MktRollbackKeeps, MktReleaseKeeps
  <1>4. ASSUME NEW c \in MktCallers, MktCrash(c)
        PROVE  MktInv'
    BY <1>4, MktRestKeeps DEF MktCrash
  <1>5. ASSUME NEW c \in MktCallers, MktCancelRead(c) \/ MktCancel(c) \/ MktCancelRecord(c)
        PROVE  MktInv'
    BY <1>5, MktCancelReadKeeps, MktCancelKeeps, MktCancelRecordKeeps
  <1>6. CASE UNCHANGED mktVars
    <2>1. UNCHANGED <<mktRow, mktAws, mktReq, mktFault>> /\ MktLive' = MktLive
      BY <1>6 DEF mktVars, MktLive
    <2> QED
      BY <2>1 DEF MktInv, MktTypeInv, MktKnownIds, MktSlotInv, MktHeldByOne, MktHolds,
                  MktRowCovers, MktHolderKnows, MktCancelAlone
  <1> QED
    BY <1>1, <1>2, <1>3, <1>4, <1>5, <1>6 DEF MktNext

\* The invariant gives what is claimed.
LEMMA MktInvSole == MktInv => MktSoleListing
  <1> SUFFICES ASSUME MktInv PROVE MktSoleListing
    OBVIOUS
  <1>1. MktOneLiveListing
    <2> SUFFICES ASSUME mktFault = {} PROVE Cardinality(MktLive) <= 1
      BY DEF MktOneLiveListing
    <2>1. \A l, m \in MktLive : l = m
      BY DEF MktInv, MktSlotInv, MktRowCovers
    <2>2. CASE MktLive = {}
      BY <2>2, FS_EmptySet
    <2>3. ASSUME NEW l \in MktLive PROVE Cardinality(MktLive) <= 1
      <3>1. MktLive = {l}
        BY <2>1
      <3> QED
        BY <3>1, FS_Singleton
    <2> QED
      BY <2>2, <2>3
  <1>2. MktLiveListingKnown
    BY DEF MktLiveListingKnown, MktInv, MktSlotInv, MktRowCovers
  <1> QED
    BY <1>1, <1>2 DEF MktSoleListing

\* An instance is not offered twice and its row knows the offer, however many
\* list and cancel requests overlap, whichever of them die and whichever writes
\* fail (handler_marketplace.go): unless AWS made a listing its request did not
\* hear of or would not withdraw one.
THEOREM MarketplaceSound == MktSpec => []MktSoleListing
  <1>1. MktSpec => []MktInv
    BY MktInitInv, MktNextKeeps, PTL DEF MktSpec
  <1> QED
    BY <1>1, MktInvSole, PTL

-----------------------------------------------------------------------------
(* Direct exchanges: one commit in a window, inside the permission.              *)

DxStages == {"gates", "price", "requote", "claim", "commit", "ended", "refused"}
DxReqType == [stage : DxStages, body : DxBodies, price : Nat, claimed : Nat]

DxShape ==
    /\ dxNow \in Nat /\ dxPrice \in Nat /\ dxPerm \in DxPermissions
    /\ dxReq \in [DxRequests -> DxReqType \cup {DxNew}]
    /\ \A c \in dxClaims : c.at \in Nat /\ c.by \in DxRequests

\* Where a request has its claim, and where it has been quoted a price.
DxClaimed(r) ==
    \/ DxAt(r, "commit")
    \/ dxReq[r].stage \in {"price", "requote"} /\ dxReq[r].body.cloud = "aws"
DxQuoted(r) ==
    \/ dxReq[r].stage \in {"requote", "commit"}
    \/ DxAt(r, "claim") /\ dxReq[r].body.cloud = "azure"

\* Past the gates a request is within the permission, past the quote under its cap.
DxPassed ==
    \A r \in DxRequests :
        /\ dxReq[r].stage \in {"price", "requote", "claim", "commit"} =>
              /\ DxSourceOwned(dxReq[r].body) /\ DxRegionsAllowed(dxReq[r].body)
              /\ DxAmountAllowed(dxReq[r].body)
        /\ DxQuoted(r) => dxReq[r].price <= dxReq[r].body.cap
        /\ DxAt(r, "requote") => dxReq[r].body.cloud = "aws"

\* Whoever claimed to exchange the same: requests on their way, and commits.
DxHolder(by, body, at) == [by |-> by, key |-> DxKey(body), at |-> at]
DxHolders ==
    {DxHolder(r, dxReq[r].body, dxReq[r].claimed) : r \in {q \in DxRequests : DxClaimed(q)}}
    \cup {DxHolder(d.by, d.body, d.claimed) : d \in dxDone}

\* A claim of the key is at least as late as whoever holds it; holders are apart.
DxCovered ==
    /\ \A h \in DxHolders : h.at \in Nat /\ \E c \in dxClaims : c.key = h.key /\ h.at <= c.at
    /\ \A c \in dxClaims : c.at <= dxNow
DxSpaced ==
    \A g, h \in DxHolders : g.by # h.by /\ g.key = h.key
        => g.at + DxWindow < h.at \/ h.at + DxWindow < g.at

\* Azure's claim is the last step before the commit.
DxAzureLast ==
    \A c \in dxClaims : c.cloud = "azure" => dxReq[c.by].stage \in {"commit", "ended"}

DxInv == DxShape /\ DxPassed /\ DxCovered /\ DxSpaced /\ DxAzureLast /\ DxWithinPermission

\* What is known of a request that was submitted.
LEMMA DxReqFacts ==
    ASSUME DxInv, NEW r \in DxRequests, dxReq[r].stage # "new"
    PROVE  /\ dxReq[r] \in DxReqType /\ dxReq[r].body \in DxBodies
           /\ dxReq[r].price \in Nat /\ dxReq[r].claimed \in Nat
           /\ dxReq[r].body.cloud \in {"aws", "azure"} /\ dxReq[r].body.cap \in Nat
           /\ DOMAIN dxReq[r] = {"stage", "body", "price", "claimed"}
<1>1. dxReq[r] \in DxReqType
  BY DEF DxInv, DxShape, DxNew
<1>2. QED
  BY <1>1, DxAssumption DEF DxReqType

\* The order of the steps: what comes after each of them.
LEMMA DxOrderFacts ==
    ASSUME DxInv, NEW r \in DxRequests, dxReq[r].stage \in {"gates", "price", "claim"}
    PROVE  /\ dxReq[r].stage = "gates" =>
                 DxNextStage(r) = IF dxReq[r].body.cloud = "azure" THEN "price" ELSE "claim"
           /\ dxReq[r].stage = "price" =>
                 DxNextStage(r) = IF dxReq[r].body.cloud = "azure" THEN "claim" ELSE "requote"
           /\ dxReq[r].stage = "claim" =>
                 DxNextStage(r) = IF dxReq[r].body.cloud = "azure" THEN "commit" ELSE "price"
<1> DEFINE stage == dxReq[r].stage
           cloud == dxReq[r].body.cloud
           order == DxOrder(cloud)
           i == CHOOSE j \in 1 .. (Len(order) - 1) : order[j] = stage
<1>1. DxNextStage(r) = order[1 + i]
  BY DEF DxNextStage
<1>2. CASE cloud = "azure"
  <2>1. order = <<"gates", "price", "claim", "commit">> /\ Len(order) = 4
    BY <1>2 DEF DxOrder
  <2>2. /\ order[1] = "gates" /\ order[2] = "price" /\ order[3] = "claim" /\ order[4] = "commit"
    BY <2>1
  <2> HIDE DEF order
  <2>3. \E j \in 1 .. (Len(order) - 1) : order[j] = stage
    BY <2>1, <2>2
  <2>4. i \in 1 .. (Len(order) - 1) /\ order[i] = stage
    BY <2>3
  <2>5. i \in {1, 2, 3}
    BY <2>1, <2>4
  <2> HIDE DEF i
  <2>6. /\ i = 1 => 1 + i = 2
        /\ i = 2 => 1 + i = 3
        /\ i = 3 => 1 + i = 4
    BY <2>5
  <2>7. QED
    BY <1>1, <1>2, <2>2, <2>4, <2>5, <2>6
<1>3. CASE cloud # "azure"
  <2>1. order = <<"gates", "claim", "price", "requote", "commit">> /\ Len(order) = 5
    BY <1>3 DEF DxOrder
  <2>2. /\ order[1] = "gates" /\ order[2] = "claim" /\ order[3] = "price"
        /\ order[4] = "requote" /\ order[5] = "commit"
    BY <2>1
  <2> HIDE DEF order
  <2>3. \E j \in 1 .. (Len(order) - 1) : order[j] = stage
    BY <2>1, <2>2
  <2>4. i \in 1 .. (Len(order) - 1) /\ order[i] = stage
    BY <2>3
  <2>5. i \in {1, 2, 3, 4}
    BY <2>1, <2>4
  <2> HIDE DEF i
  <2>6. /\ i = 1 => 1 + i = 2
        /\ i = 2 => 1 + i = 3
        /\ i = 3 => 1 + i = 4
    BY <2>5
  <2>7. QED
    BY <1>1, <1>3, <2>2, <2>4, <2>5, <2>6
<1>4. QED
  BY <1>2, <1>3

\* The second quote is the last step but one.
LEMMA DxRequoteFacts ==
    ASSUME DxInv, NEW r \in DxRequests, dxReq[r].stage = "requote"
    PROVE  DxNextStage(r) = "commit"
<1> DEFINE cloud == dxReq[r].body.cloud
           order == DxOrder(cloud)
           i == CHOOSE j \in 1 .. (Len(order) - 1) : order[j] = dxReq[r].stage
<1>1. cloud = "aws"
  BY DEF DxInv, DxPassed, DxAt
<1>2. DxNextStage(r) = order[1 + i]
  BY DEF DxNextStage
<1>3. order = <<"gates", "claim", "price", "requote", "commit">> /\ Len(order) = 5
  BY <1>1 DEF DxOrder
<1>4. /\ order[1] = "gates" /\ order[2] = "claim" /\ order[3] = "price"
      /\ order[4] = "requote" /\ order[5] = "commit"
  BY <1>3
<1> HIDE DEF order
<1>5. \E j \in 1 .. (Len(order) - 1) : order[j] = dxReq[r].stage
  BY <1>3, <1>4
<1>6. i \in 1 .. (Len(order) - 1) /\ order[i] = dxReq[r].stage
  BY <1>5
<1>7. i \in {1, 2, 3, 4}
  BY <1>3, <1>6
<1> HIDE DEF i
<1>8. i = 4
  BY <1>4, <1>6, <1>7
<1>9. 1 + i = 5
  BY <1>8
<1>10. QED
  BY <1>2, <1>4, <1>9

\* What a request that goes on has to satisfy, whatever it was before.
DxFit(new) ==
    /\ new \in DxReqType
    /\ new.stage \in {"price", "requote", "claim", "commit"} =>
          DxSourceOwned(new.body) /\ DxRegionsAllowed(new.body) /\ DxAmountAllowed(new.body)
    /\ new.stage \in {"requote", "commit"} \/ (new.stage = "claim" /\ new.body.cloud = "azure")
          => new.price <= new.body.cap
    /\ new.stage = "requote" => new.body.cloud = "aws"
DxHolds(new) ==
    new.stage = "commit" \/ (new.stage \in {"price", "requote"} /\ new.body.cloud = "aws")

\* The requests after a step of one of them that fits.
LEMMA DxFitFacts ==
    ASSUME DxInv, NEW r \in DxRequests, NEW new, DxFit(new), UNCHANGED dxPerm,
           dxReq' = [dxReq EXCEPT ![r] = new]
    PROVE  /\ dxReq' \in [DxRequests -> DxReqType \cup {DxNew}]
           /\ dxReq'[r] = new /\ \A q \in DxRequests \ {r} : dxReq'[q] = dxReq[q]
           /\ DxPassed'
<1>1. /\ dxReq' \in [DxRequests -> DxReqType \cup {DxNew}]
      /\ dxReq'[r] = new /\ \A q \in DxRequests \ {r} : dxReq'[q] = dxReq[q]
  BY DEF DxInv, DxShape, DxFit
<1>2. DxPassed'
  BY <1>1 DEF DxInv, DxPassed, DxFit, DxQuoted, DxAt, DxSourceOwned, DxRegionsAllowed,
              DxAmountAllowed, DxRegions
<1>3. QED
  BY <1>1, <1>2

\* A request goes on without a claim it did not have.
LEMMA DxMoveStep ==
    ASSUME DxInv, NEW r \in DxRequests, NEW new, DxFit(new),
           dxReq' = [dxReq EXCEPT ![r] = new],
           UNCHANGED <<dxPerm, dxPrice, dxNow, dxClaims, dxDone>>,
           DxHolds(new) => /\ DxClaimed(r)
                           /\ new.body = dxReq[r].body /\ new.claimed = dxReq[r].claimed,
           dxReq[r].stage \in {"commit", "ended"} => new.stage \in {"commit", "ended"}
    PROVE  DxInv'
<1>1. /\ dxReq' \in [DxRequests -> DxReqType \cup {DxNew}]
      /\ dxReq'[r] = new /\ \A q \in DxRequests \ {r} : dxReq'[q] = dxReq[q]
      /\ DxPassed'
  BY DxFitFacts
<1>2. DxShape'
  BY <1>1 DEF DxInv, DxShape
<1>3. DxHolders' \subseteq DxHolders
  BY <1>1 DEF DxHolders, DxHolder, DxClaimed, DxAt, DxHolds
<1>4. DxCovered' /\ DxSpaced'
  BY <1>3 DEF DxInv, DxCovered, DxSpaced
<1>5. DxAzureLast'
  BY <1>1 DEF DxInv, DxShape, DxAzureLast
<1>6. DxWithinPermission'
  BY DEF DxInv, DxWithinPermission
<1>7. QED
  BY <1>1, <1>2, <1>4, <1>5, <1>6 DEF DxInv

\* A request stops: it is refused, or it ends.
LEMMA DxStopStep ==
    ASSUME DxInv, NEW r \in DxRequests, NEW stage \in {"refused", "ended"}, DxGoTo(r, stage),
           UNCHANGED <<dxPerm, dxPrice, dxNow, dxClaims, dxDone>>, dxReq[r].stage # "new",
           stage = "refused" => dxReq[r].stage \notin {"commit", "ended"}
    PROVE  DxInv'
<1> DEFINE new == [dxReq[r] EXCEPT !.stage = stage]
<1>1. /\ dxReq' = [dxReq EXCEPT ![r] = new] /\ new \in DxReqType /\ new.stage = stage
  BY DxReqFacts DEF DxGoTo, DxReqType, DxStages
<1> HIDE DEF new
<1>2. DxFit(new) /\ ~DxHolds(new)
  BY <1>1 DEF DxFit, DxHolds
<1>3. QED
  BY <1>1, <1>2, DxMoveStep

\* A request is submitted.
LEMMA DxSubmitStep ==
    ASSUME DxInv, NEW r \in DxRequests, DxSubmit(r)
    PROVE  DxInv'
<1>1. PICK b \in DxBodies : dxReq' = [dxReq EXCEPT ![r] =
              [stage |-> "gates", body |-> b, price |-> 0, claimed |-> 0]]
  BY DEF DxSubmit
<1> DEFINE new == [stage |-> "gates", body |-> b, price |-> 0, claimed |-> 0]
<1>2. /\ dxReq' = [dxReq EXCEPT ![r] = new] /\ new \in DxReqType /\ new.stage = "gates"
  BY <1>1 DEF DxReqType, DxStages
<1> HIDE DEF new
<1>3. DxFit(new) /\ ~DxHolds(new)
  BY <1>2 DEF DxFit, DxHolds
<1>4. UNCHANGED <<dxPerm, dxPrice, dxNow, dxClaims, dxDone>> /\ dxReq[r].stage = "new"
  BY DEF DxSubmit, DxAt
<1>5. QED
  BY <1>2, <1>3, <1>4, DxMoveStep

\* A request passes the gates, or is refused by them.
LEMMA DxAuthorizeStep ==
    ASSUME DxInv, NEW r \in DxRequests, DxAuthorize(r)
    PROVE  DxInv'
<1>1. UNCHANGED <<dxPerm, dxPrice, dxNow, dxClaims, dxDone>> /\ dxReq[r].stage = "gates"
  BY DEF DxAuthorize, DxAt
<1>2. CASE DxRefuse(r)
  BY <1>1, <1>2, DxStopStep DEF DxRefuse
<1>3. CASE /\ DxSourceOwned(dxReq[r].body) /\ DxRegionsAllowed(dxReq[r].body)
           /\ DxAmountAllowed(dxReq[r].body)
           /\ DxGoTo(r, DxNextStage(r))
  <2>1. PICK stage \in {"price", "claim"} :
           /\ stage = DxNextStage(r)
           /\ stage = IF dxReq[r].body.cloud = "azure" THEN "price" ELSE "claim"
    BY <1>1, DxOrderFacts
  <2> DEFINE new == [dxReq[r] EXCEPT !.stage = stage]
  <2>2. /\ dxReq' = [dxReq EXCEPT ![r] = new] /\ new \in DxReqType
        /\ new.stage = stage /\ new.body = dxReq[r].body
    BY <1>1, <1>3, <2>1, DxReqFacts DEF DxGoTo, DxReqType, DxStages
  <2> HIDE DEF new
  <2>3. DxFit(new) /\ ~DxHolds(new)
    BY <1>3, <2>1, <2>2, DxReqFacts DEF DxFit, DxHolds
  <2>4. QED
    BY <1>1, <2>2, <2>3, DxMoveStep
<1>4. QED
  BY <1>2, <1>3 DEF DxAuthorize

\* A request is quoted a price under its cap, or is refused.
LEMMA DxQuoteStep ==
    ASSUME DxInv, NEW r \in DxRequests, DxQuote(r)
    PROVE  DxInv'
<1>1. /\ UNCHANGED <<dxPerm, dxPrice, dxNow, dxClaims, dxDone>>
      /\ dxReq[r].stage \in {"price", "requote"}
  BY DEF DxQuote
<1>2. CASE DxRefuse(r)
  BY <1>1, <1>2, DxStopStep DEF DxRefuse
<1>3. CASE /\ dxPrice <= dxReq[r].body.cap
           /\ dxReq' = [dxReq EXCEPT ![r].stage = DxNextStage(r), ![r].price = dxPrice]
  <2>1. PICK stage \in {"claim", "requote", "commit"} :
           /\ stage = DxNextStage(r)
           /\ stage = "claim" => dxReq[r].body.cloud = "azure"
           /\ stage \in {"requote", "commit"} => dxReq[r].body.cloud = "aws"
    <3>1. dxReq[r].stage = "requote" => dxReq[r].body.cloud = "aws" /\ DxNextStage(r) = "commit"
      BY DxRequoteFacts DEF DxInv, DxPassed, DxAt
    <3>2. dxReq[r].stage = "price" =>
             DxNextStage(r) = IF dxReq[r].body.cloud = "azure" THEN "claim" ELSE "requote"
      BY DxOrderFacts
    <3>3. dxReq[r].body.cloud \in {"aws", "azure"}
      BY <1>1, DxReqFacts
    <3>4. QED
      BY <1>1, <3>1, <3>2, <3>3
  <2> DEFINE new == [dxReq[r] EXCEPT !.stage = stage, !.price = dxPrice]
  <2>2. dxReq' = [dxReq EXCEPT ![r] = new]
    BY <1>3, <2>1
  <2>3. /\ new \in DxReqType /\ new.stage = stage /\ new.body = dxReq[r].body
        /\ new.price = dxPrice /\ new.claimed = dxReq[r].claimed
    BY <1>1, <2>1, DxReqFacts DEF DxReqType, DxStages, DxInv, DxShape
  <2> HIDE DEF new
  <2>4. /\ DxSourceOwned(dxReq[r].body) /\ DxRegionsAllowed(dxReq[r].body)
        /\ DxAmountAllowed(dxReq[r].body)
    BY <1>1 DEF DxInv, DxPassed
  <2>5. DxFit(new)
    BY <1>3, <2>1, <2>3, <2>4 DEF DxFit
  <2>6. DxHolds(new) => DxClaimed(r)
    BY <1>1, <2>1, <2>3 DEF DxHolds, DxClaimed
  <2>7. QED
    BY <1>1, <2>2, <2>3, <2>5, <2>6, DxMoveStep
<1>4. QED
  BY <1>2, <1>3 DEF DxQuote

\* A request claims its exchange, when nobody did within the window.
LEMMA DxClaimStep ==
    ASSUME DxInv, NEW r \in DxRequests, DxClaim(r)
    PROVE  DxInv'
<1>1. UNCHANGED <<dxPerm, dxPrice, dxNow, dxDone>> /\ dxReq[r].stage = "claim"
  BY DEF DxClaim, DxAt
<1>2. CASE DxRefuse(r) /\ UNCHANGED dxClaims
  BY <1>1, <1>2, DxStopStep DEF DxRefuse
<1>3. CASE ~(DxRefuse(r) /\ UNCHANGED dxClaims)
  <2>1. PICK b \in DxBodies : b = dxReq[r].body /\ b.cloud \in {"aws", "azure"}
    BY <1>1, DxReqFacts
  <2> DEFINE key == DxKey(b)
             claim == [key |-> key, at |-> dxNow, by |-> r, cloud |-> b.cloud]
  <2>2. /\ DxFree(key) /\ dxClaims' = {c \in dxClaims : c.key # key} \cup {claim}
        /\ dxReq' = [dxReq EXCEPT ![r].stage = DxNextStage(r), ![r].claimed = dxNow]
    BY <1>3, <2>1 DEF DxClaim
  <2>3. PICK stage \in {"commit", "price"} :
           stage = DxNextStage(r) /\ stage = IF b.cloud = "azure" THEN "commit" ELSE "price"
    BY <1>1, <2>1, DxOrderFacts
  <2> DEFINE new == [dxReq[r] EXCEPT !.stage = stage, !.claimed = dxNow]
  <2>4. dxReq' = [dxReq EXCEPT ![r] = new]
    BY <2>2, <2>3
  <2>5. /\ new \in DxReqType /\ new.stage = stage /\ new.body = b
        /\ new.price = dxReq[r].price /\ new.claimed = dxNow
    BY <1>1, <2>1, <2>3, DxReqFacts DEF DxReqType, DxStages, DxInv, DxShape
  <2>6. claim.key = key /\ claim.at = dxNow /\ claim.by = r /\ claim.cloud = b.cloud
    OBVIOUS
  <2>7. /\ DxSourceOwned(b) /\ DxRegionsAllowed(b) /\ DxAmountAllowed(b)
        /\ b.cloud = "azure" => dxReq[r].price <= b.cap
    BY <1>1, <2>1 DEF DxInv, DxPassed, DxQuoted, DxAt
  <2> HIDE DEF new, claim, key
  <2>8. DxFit(new)
    BY <2>1, <2>3, <2>5, <2>7 DEF DxFit
  <2>9. /\ dxReq' \in [DxRequests -> DxReqType \cup {DxNew}]
        /\ dxReq'[r] = new /\ \A q \in DxRequests \ {r} : dxReq'[q] = dxReq[q]
        /\ DxPassed'
    BY <1>1, <2>4, <2>8, DxFitFacts
  <2>10. /\ dxNow \in Nat /\ DxWindow \in Nat
         /\ \A c \in dxClaims : c.at \in Nat /\ c.at <= dxNow
    BY DxAssumption DEF DxInv, DxShape, DxCovered
  <2>11. DxShape'
    BY <1>1, <2>2, <2>6, <2>9, <2>10 DEF DxInv, DxShape
  <2> DEFINE mine == DxHolder(r, b, dxNow)
  <2>12. mine.by = r /\ mine.key = key /\ mine.at = dxNow
    BY DEF DxHolder, key
  <2>13. DxHolders' \subseteq DxHolders \cup {mine}
    BY <1>1, <2>5, <2>9 DEF DxHolders, DxClaimed, DxAt, DxHolder
  <2> HIDE DEF mine
  <2>14. \A h \in DxHolders : h.at \in Nat /\ (h.key = key => h.at + DxWindow < dxNow)
    <3> SUFFICES ASSUME NEW h \in DxHolders
                 PROVE  h.at \in Nat /\ (h.key = key => h.at + DxWindow < dxNow)
      OBVIOUS
    <3>1. PICK c \in dxClaims : c.key = h.key /\ h.at <= c.at /\ h.at \in Nat
      BY DEF DxInv, DxCovered
    <3>2. h.key = key => c.at + DxWindow < dxNow
      BY <2>2, <3>1 DEF DxFree
    <3>3. QED
      BY <2>10, <3>1, <3>2
  <2>15. DxCovered'
    <3>1. \A h \in DxHolders : h.key # key => \E c \in dxClaims' : c.key = h.key /\ h.at <= c.at
      BY <2>2 DEF DxInv, DxCovered
    <3>2. claim \in dxClaims' /\ \A c \in dxClaims' : c.at <= dxNow
      BY <2>2, <2>6, <2>10
    <3>3. \A h \in DxHolders \cup {mine} :
             h.at \in Nat /\ \E c \in dxClaims' : c.key = h.key /\ h.at <= c.at
      <4>1. ASSUME NEW h \in DxHolders, h.key = key PROVE h.at <= dxNow /\ h.at \in Nat
        BY <2>10, <2>14, <4>1
      <4>2. QED
        BY <2>6, <2>10, <2>12, <2>14, <3>1, <3>2, <4>1
    <3>4. QED
      BY <1>1, <2>13, <3>2, <3>3 DEF DxCovered
  <2>16. DxSpaced'
    BY <2>12, <2>13, <2>14 DEF DxInv, DxSpaced
  <2>17. DxAzureLast'
    <3>1. \A c \in dxClaims' : c = claim \/ c \in dxClaims
      BY <2>2
    <3>2. \A c \in dxClaims : c.cloud = "azure" => c.by # r
      BY <1>1 DEF DxInv, DxAzureLast
    <3>3. QED
      BY <2>3, <2>5, <2>6, <2>9, <3>1, <3>2 DEF DxInv, DxShape, DxAzureLast
  <2>18. DxWithinPermission'
    BY <1>1 DEF DxInv, DxWithinPermission
  <2>19. QED
    BY <2>9, <2>11, <2>15, <2>16, <2>17, <2>18 DEF DxInv
<1>4. QED
  BY <1>2, <1>3

\* The cloud commits what a request holds.
LEMMA DxCommitStep ==
    ASSUME DxInv, NEW r \in DxRequests, DxCommit(r)
    PROVE  DxInv'
<1>1. UNCHANGED <<dxPerm, dxPrice, dxNow, dxClaims>> /\ dxReq[r].stage = "commit"
  BY DEF DxCommit, DxAt
<1>2. PICK b \in DxBodies, price \in Nat, at \in Nat :
         /\ b = dxReq[r].body /\ price = dxReq[r].price /\ at = dxReq[r].claimed
         /\ b.cloud \in {"aws", "azure"} /\ b.cap \in Nat
  BY <1>1, DxReqFacts
<1> DEFINE new == [dxReq[r] EXCEPT !.stage = "ended"]
           done == [by |-> r, body |-> b, quoted |-> price, claimed |-> at]
<1>3. /\ dxReq' = [dxReq EXCEPT ![r] = new] /\ dxDone' = dxDone \cup {done}
  BY <1>2 DEF DxCommit, DxEnd, DxGoTo
<1>4. new \in DxReqType /\ new.stage = "ended"
  BY <1>1, DxReqFacts DEF DxReqType, DxStages
<1>5. done.by = r /\ done.body = b /\ done.quoted = price /\ done.claimed = at
  OBVIOUS
<1> HIDE DEF new, done
<1>6. DxFit(new)
  BY <1>4 DEF DxFit
<1>7. /\ dxReq' \in [DxRequests -> DxReqType \cup {DxNew}]
      /\ dxReq'[r] = new /\ \A q \in DxRequests \ {r} : dxReq'[q] = dxReq[q]
      /\ DxPassed'
  BY <1>1, <1>3, <1>6, DxFitFacts
<1>8. DxShape'
  BY <1>1, <1>7 DEF DxInv, DxShape
<1>9. DxHolders' \subseteq DxHolders
  <2>1. DxHolder(r, b, at) \in DxHolders
    BY <1>1, <1>2 DEF DxHolders, DxClaimed, DxAt
  <2>2. DxHolder(done.by, done.body, done.claimed) = DxHolder(r, b, at)
    BY <1>5
  <2>3. ASSUME NEW q \in DxRequests, DxClaimed(q)' PROVE q # r /\ DxClaimed(q)
    BY <1>4, <1>7, <2>3 DEF DxClaimed, DxAt
  <2>4. ASSUME NEW q \in DxRequests, DxClaimed(q)'
        PROVE  DxHolder(q, dxReq'[q].body, dxReq'[q].claimed) \in DxHolders
    BY <1>7, <2>3, <2>4 DEF DxHolders
  <2>5. \A d \in dxDone : DxHolder(d.by, d.body, d.claimed) \in DxHolders
    BY DEF DxHolders
  <2>6. QED
    BY <1>3, <2>1, <2>2, <2>4, <2>5 DEF DxHolders
<1>10. DxCovered' /\ DxSpaced'
  BY <1>1, <1>9 DEF DxInv, DxCovered, DxSpaced
<1>11. DxAzureLast'
  BY <1>1, <1>4, <1>7 DEF DxInv, DxShape, DxAzureLast
<1>12. DxWithinPermission'
  <2>1. /\ DxSourceOwned(b) /\ DxRegionsAllowed(b) /\ DxAmountAllowed(b) /\ price <= b.cap
    BY <1>1, <1>2 DEF DxInv, DxPassed, DxQuoted, DxAt
  <2>2. dxPerm.amount \in Nat
    BY DxAssumption DEF DxInv, DxShape
  <2>3. b.cloud = "azure" => b.source.billed = b.sub
    BY <2>1 DEF DxSourceOwned
  <2>4. dxPerm.regions # {} => /\ b.target \in dxPerm.regions
                               /\ b.cloud = "azure" => b.source.region \in dxPerm.regions
    BY <2>1 DEF DxRegionsAllowed, DxRegions
  <2>5. dxPerm.amount # 0 => price <= dxPerm.amount /\ b.currency = "USD"
    BY <1>2, <2>1, <2>2 DEF DxAmountAllowed
  <2>6. QED
    BY <1>1, <1>3, <1>5, <2>3, <2>4, <2>5 DEF DxInv, DxWithinPermission
<1>13. QED
  BY <1>7, <1>8, <1>10, <1>11, <1>12 DEF DxInv

\* The clock and the price move, or a request dies.
LEMMA DxOtherStep ==
    ASSUME DxInv, DxTick \/ DxPriceMoves \/ \E r \in DxRequests : DxDie(r)
    PROVE  DxInv'
<1>1. CASE \E r \in DxRequests : DxDie(r)
  <2>1. PICK r \in DxRequests : DxDie(r)
    BY <1>1
  <2>2. QED
    BY <2>1, DxStopStep DEF DxDie, DxEnd
<1>2. CASE DxTick \/ DxPriceMoves
  <2>1. /\ UNCHANGED <<dxReq, dxPerm, dxClaims, dxDone>>
        /\ dxNow' \in {dxNow, dxNow + 1} /\ dxPrice' \in Nat /\ dxNow \in Nat
    BY <1>2, DxAssumption DEF DxTick, DxPriceMoves, DxInv, DxShape
  <2>2. DxHolders' = DxHolders
    BY <2>1 DEF DxHolders, DxClaimed, DxAt
  <2>3. DxShape' /\ DxAzureLast' /\ DxWithinPermission'
    BY <2>1 DEF DxInv, DxShape, DxAzureLast, DxWithinPermission
  <2>4. DxPassed'
    BY <2>1 DEF DxInv, DxPassed, DxQuoted, DxAt, DxSourceOwned, DxRegionsAllowed, DxAmountAllowed
  <2>5. DxSpaced'
    BY <2>2 DEF DxInv, DxSpaced
  <2>6. DxCovered'
    BY <2>1, <2>2 DEF DxInv, DxShape, DxCovered
  <2>7. QED
    BY <2>3, <2>4, <2>5, <2>6 DEF DxInv
<1>3. QED
  BY <1>1, <1>2

\* Every step of the direct exchanges keeps their claims apart.
LEMMA DxStep ==
    ASSUME DxInv, [DxNext]_dxVars
    PROVE  DxInv'
<1>1. CASE DxNext
  BY <1>1, DxSubmitStep, DxAuthorizeStep, DxQuoteStep, DxClaimStep, DxCommitStep, DxOtherStep
     DEF DxNext
<1>2. CASE UNCHANGED dxVars
  <2>1. UNCHANGED <<dxReq, dxPerm, dxPrice, dxNow, dxClaims, dxDone>>
    BY <1>2 DEF dxVars
  <2>2. DxHolders' = DxHolders
    BY <2>1 DEF DxHolders, DxClaimed, DxAt
  <2>3. DxPassed'
    BY <2>1 DEF DxInv, DxPassed, DxQuoted, DxAt, DxSourceOwned, DxRegionsAllowed, DxAmountAllowed
  <2>4. QED
    BY <2>1, <2>2, <2>3 DEF DxInv, DxShape, DxCovered, DxSpaced, DxAzureLast, DxWithinPermission
<1>3. QED
  BY <1>1, <1>2

\* At first there is no request and no claim.
LEMMA DxStart == DxInit => DxInv
<1> SUFFICES ASSUME DxInit PROVE DxInv
  OBVIOUS
<1>1. DxShape
  BY DxAssumption DEF DxInit, DxShape
<1>2. \A r \in DxRequests : dxReq[r].stage = "new"
  BY DEF DxInit, DxNew
<1>3. DxHolders = {}
  BY <1>2 DEF DxInit, DxHolders, DxClaimed, DxAt
<1>4. QED
  BY <1>1, <1>2, <1>3
     DEF DxInit, DxInv, DxPassed, DxQuoted, DxAt, DxCovered, DxSpaced, DxAzureLast,
         DxWithinPermission

\* Commits are holders, and holders of one key are apart.
LEMMA DxPromise == DxInv => DxSound
<1> SUFFICES ASSUME DxInv PROVE DxSound
  OBVIOUS
<1>1. DxOncePerWindow
  <2> SUFFICES ASSUME NEW d \in dxDone, NEW e \in dxDone, d.by # e.by,
                      DxBought(d.body) = DxBought(e.body)
               PROVE  d.claimed + DxWindow < e.claimed \/ e.claimed + DxWindow < d.claimed
    BY DEF DxOncePerWindow
  <2> DEFINE g == DxHolder(d.by, d.body, d.claimed)
             h == DxHolder(e.by, e.body, e.claimed)
  <2>1. g \in DxHolders /\ h \in DxHolders
    BY DEF DxHolders
  <2>2. g.by = d.by /\ h.by = e.by /\ g.at = d.claimed /\ h.at = e.claimed /\ g.key = h.key
    BY DEF DxHolder, DxKey
  <2> HIDE DEF g, h
  <2>3. QED
    BY <2>1, <2>2 DEF DxInv, DxSpaced
<1>2. DxAzureRefusedHoldsNone
  BY DEF DxInv, DxAzureLast, DxAzureRefusedHoldsNone
<1>3. QED
  BY <1>1, <1>2 DEF DxInv, DxSound, DxClaimsSound

\* The same exchange is committed once in a window, by requests within their
\* permission, and Azure's refused requests hold no claim (claimExchangeSubmit,
\* authorizeAzureExchangeExecution), for any requests, prices and window.
THEOREM DirectSound == DxSpec => []DxSound
BY DxStart, DxStep, DxPromise, PTL DEF DxSpec

-----------------------------------------------------------------------------
(* The clients of the providers: one commitment for one purchase.                *)

ProvStages == {"new", "lookup", "buy", "tag", "answer", "bought", "failed", "crashed"}
ProvDriveType == [stage : ProvStages, attempt : Nat, id : Nat, clean : BOOLEAN]
ProvMadeType == [id : Nat, tagged : BOOLEAN, live : BOOLEAN]

ProvShape ==
    /\ provService \in ProvServices
    /\ provDrive \in [ProvDrivers -> ProvDriveType]
    /\ provMade \subseteq ProvMadeType /\ IsFiniteSet(provMade)

\* Drives that overlap are a fault, and so is a payment that fails.
ProvFaulty ==
    /\ "overlap" \notin provFault => \A d, e \in ProvDrivers :
          d # e => provDrive[d].stage \in ProvDone \/ provDrive[e].stage \in ProvDone
    /\ "payment" \notin provFault => \A m \in provMade : m.live

\* A service with a key makes one commitment. One with a tag has one that is tagged
\* or about to be, and none when it buys.
ProvKeyed == provService.key # {} => \A m, n \in provMade : m = n
ProvTagged ==
    provService.key = {} /\ provFault \cap {"overlap", "untagged"} = {} =>
        /\ \A m, n \in ProvLiving : m = n
        /\ \A d \in ProvDrivers : ProvAt(d, "buy") => ProvLiving = {}
        /\ \A m \in ProvLiving :
              m.tagged \/ \E d \in ProvDrivers : ProvAt(d, "tag") /\ provDrive[d].id = m.id

\* A drive that started after the purchase finds it.
ProvClean ==
    provFault \cap {"overlap", "untagged", "payment"} = {} /\ provService # ComputeEngine =>
        \A d \in ProvDrivers : provDrive[d].clean =>
            /\ provMade # {}
            /\ provDrive[d].stage \notin {"tag", "answer", "failed"}
            /\ ProvAt(d, "buy") => provService.lookup = "none"
            /\ ProvAt(d, "bought") => \A m \in provMade : m.id = provDrive[d].id

ProvInv == ProvShape /\ ProvFaulty /\ ProvKeyed /\ ProvTagged /\ ProvClean

\* What a service does, by how it recognises a purchase.
LEMMA ProvServiceFacts ==
    ASSUME NEW s \in ProvServices
    PROVE  /\ s.key = {} => s.lookup = "tag" /\ s.tag \in {"after", "with"}
           /\ s.key # {} /\ s # ComputeEngine =>
                 /\ s.lookup \in {"id", "none"}
                 /\ s.lookup = "none" => "reject" \notin s.key
<1>1. s \in {ByOwnId, TaggedAfter, TwoStep, SavingsPlans, AzureSavingsPlans, ComputeEngine}
  BY DEF ProvServices, RDS, ElastiCache, MemoryDB, OpenSearch, EC2, Redshift,
         AzureCompute, AzureDatabase, AzureCache, AzureManagedRedis, AzureSearch, AzureSynapse,
         AzureCosmosDB
<1>2. CASE s = ByOwnId
  BY <1>2 DEF ByOwnId
<1>3. CASE s = TaggedAfter
  BY <1>3 DEF TaggedAfter
<1>4. CASE s = TwoStep
  BY <1>4 DEF TwoStep
<1>5. CASE s = SavingsPlans \/ s = AzureSavingsPlans
  BY <1>5 DEF SavingsPlans, AzureSavingsPlans
<1>6. CASE s = ComputeEngine
  <2>1. s.key # {}
    BY <1>6 DEF ComputeEngine
  <2>2. QED
    BY <1>6, <2>1
<1>7. QED
  BY <1>1, <1>2, <1>3, <1>4, <1>5, <1>6

\* What is known of a drive.
LEMMA ProvDriveFacts ==
    ASSUME ProvInv, NEW d \in ProvDrivers
    PROVE  /\ provDrive[d] \in ProvDriveType /\ provDrive[d].attempt \in Nat
           /\ provDrive[d].stage \in ProvStages
BY DEF ProvInv, ProvShape, ProvDriveType

\* While no drives overlap and no purchase stays untagged, what a drive that looks
\* up could find is all there is.
LEMMA ProvFoundFacts ==
    ASSUME ProvInv, NEW d \in ProvDrivers, ProvAt(d, "lookup"),
           provFault \cap {"overlap", "untagged"} = {}
    PROVE  /\ provService.key = {} => ProvFound = ProvLiving
           /\ provService.lookup = "id" => ProvFound = ProvLiving
<1>1. provService.lookup = "id" => ProvFound = ProvLiving
  BY DEF ProvFound
<1>2. provService.key = {} => provService.lookup = "tag"
  BY ProvServiceFacts DEF ProvInv, ProvShape
<1>3. ASSUME provService.key = {}, NEW m \in ProvLiving PROVE m.tagged
  <2>1. \A e \in ProvDrivers : provDrive[e].stage # "tag"
    BY DEF ProvInv, ProvFaulty, ProvAt, ProvDone
  <2>2. QED
    BY <1>3, <2>1 DEF ProvInv, ProvTagged, ProvAt
<1>4. provService.key = {} => ProvFound = ProvLiving
  BY <1>2, <1>3 DEF ProvFound
<1>5. QED
  BY <1>1, <1>4

\* A step of one drive that makes no commitment.
LEMMA ProvDriveStep ==
    ASSUME ProvInv, NEW d \in ProvDrivers, NEW new \in ProvDriveType,
           provDrive' = [provDrive EXCEPT ![d] = new], UNCHANGED <<provService, provMade>>,
           provFault \subseteq provFault',
           "payment" \in provFault' => "payment" \in provFault,
           \/ new.stage \in ProvDone \/ provDrive[d].stage \notin ProvDone
           \/ "overlap" \in provFault'
           \/ \A e \in ProvDrivers : provDrive[e].stage \in ProvDone,
           provDrive[d].stage = "tag" => "untagged" \in provFault',
           new.stage = "buy" /\ provService.key = {} /\ provFault \cap {"overlap", "untagged"} = {}
                => ProvLiving = {},
           new.clean /\ provFault \cap {"overlap", "untagged", "payment"} = {}
                     /\ provService # ComputeEngine
                => /\ provMade # {} /\ new.stage \notin {"tag", "answer", "failed"}
                   /\ new.stage = "buy" => provService.lookup = "none"
                   /\ new.stage = "bought" => \A m \in provMade : m.id = new.id
    PROVE  ProvInv'
<1>1. /\ provDrive' \in [ProvDrivers -> ProvDriveType]
      /\ provDrive'[d] = new /\ \A e \in ProvDrivers \ {d} : provDrive'[e] = provDrive[e]
  BY DEF ProvInv, ProvShape
<1>2. ProvLiving' = ProvLiving
  BY DEF ProvLiving
<1>3. ProvShape'
  BY <1>1 DEF ProvInv, ProvShape
<1>4. ProvFaulty'
  <2>1. ASSUME "overlap" \notin provFault', NEW e \in ProvDrivers, NEW f \in ProvDrivers, e # f
        PROVE  provDrive'[e].stage \in ProvDone \/ provDrive'[f].stage \in ProvDone
    <3>1. provDrive[e].stage \in ProvDone \/ provDrive[f].stage \in ProvDone
      BY <2>1 DEF ProvInv, ProvFaulty
    <3>2. QED
      BY <1>1, <2>1, <3>1
  <2>2. "payment" \notin provFault' => \A m \in provMade : m.live
    BY DEF ProvInv, ProvFaulty
  <2>3. QED
    BY <2>1, <2>2 DEF ProvFaulty
<1>5. ProvKeyed'
  BY DEF ProvInv, ProvKeyed
<1>6. ProvTagged'
  BY <1>1, <1>2 DEF ProvInv, ProvTagged, ProvAt
<1>7. ProvClean'
  BY <1>1 DEF ProvInv, ProvClean, ProvAt
<1>8. QED
  BY <1>3, <1>4, <1>5, <1>6, <1>7 DEF ProvInv

\* A drive in some stage, with a commitment: it keeps its attempts, and is clean or
\* as clean as it was.
LEMMA ProvGoFacts ==
    ASSUME ProvInv, NEW d \in ProvDrivers, NEW stage \in ProvStages, ProvGoto(d, stage)
    PROVE  \E new \in ProvDriveType :
              /\ provDrive' = [provDrive EXCEPT ![d] = new] /\ new.stage = stage
              /\ new.id = provDrive[d].id /\ new.clean = provDrive[d].clean
<1> DEFINE new == [provDrive[d] EXCEPT !.stage = stage]
<1>1. /\ new \in ProvDriveType /\ new.stage = stage /\ new.id = provDrive[d].id
      /\ new.clean = provDrive[d].clean /\ provDrive' = [provDrive EXCEPT ![d] = new]
  BY ProvDriveFacts DEF ProvGoto, ProvDriveType
<1> HIDE DEF new
<1>2. QED
  BY <1>1

\* A drive that reports what was bought.
LEMMA ProvBoughtFacts ==
    ASSUME ProvInv, NEW d \in ProvDrivers, NEW id \in Nat, ProvBought(d, id)
    PROVE  \E new \in ProvDriveType :
              /\ provDrive' = [provDrive EXCEPT ![d] = new] /\ new.stage = "bought"
              /\ new.id = id /\ new.clean = provDrive[d].clean
<1> DEFINE new == [provDrive[d] EXCEPT !.stage = "bought", !.id = id]
<1>1. /\ new \in ProvDriveType /\ new.stage = "bought" /\ new.id = id
      /\ new.clean = provDrive[d].clean /\ provDrive' = [provDrive EXCEPT ![d] = new]
  BY ProvDriveFacts DEF ProvBought, ProvDriveType, ProvStages
<1> HIDE DEF new
<1>2. QED
  BY <1>1

\* A drive starts, and finds what has landed.
LEMMA ProvStartStep ==
    ASSUME ProvInv, NEW d \in ProvDrivers, ProvStart(d)
    PROVE  ProvInv'
<1> DEFINE clean == ProvLiving # {}
           new == [provDrive[d] EXCEPT !.stage = "lookup", !.clean = clean]
<1>1. provDrive[d].stage = "new" /\ UNCHANGED <<provService, provMade>>
  BY DEF ProvStart, ProvAt
<1>2. clean \in BOOLEAN /\ (clean => provMade # {})
  BY DEF ProvLiving
<1>3. provDrive' = [provDrive EXCEPT ![d] = new]
  BY DEF ProvStart
<1> HIDE DEF clean
<1>4. new \in ProvDriveType /\ new.stage = "lookup" /\ new.clean = clean
  BY <1>2, ProvDriveFacts DEF ProvDriveType, ProvStages
<1> HIDE DEF new
<1>5. /\ provFault \subseteq provFault' /\ ("payment" \in provFault' => "payment" \in provFault)
      /\ "overlap" \in provFault' \/ \A e \in ProvDrivers : provDrive[e].stage \in ProvDone
  BY DEF ProvStart
<1>6. QED
  BY <1>1, <1>2, <1>3, <1>4, <1>5, ProvDriveStep

\* What a drive that is clean finds, and what there is when it finds nothing.
LEMMA ProvLookupStep ==
    ASSUME ProvInv, NEW d \in ProvDrivers, ProvLookup(d)
    PROVE  ProvInv'
<1>1. UNCHANGED <<provService, provMade, provFault>> /\ ProvAt(d, "lookup")
  BY DEF ProvLookup
<1>2. provDrive[d].stage = "lookup" /\ "lookup" \notin ProvDone
  BY <1>1 DEF ProvAt, ProvDone
<1>3. CASE \E m \in ProvFound : ProvBought(d, m.id)
  <2>1. PICK m \in ProvFound : ProvBought(d, m.id)
    BY <1>3
  <2>2. m \in ProvLiving /\ m \in provMade /\ m.id \in Nat
    BY DEF ProvFound, ProvLiving, ProvInv, ProvShape, ProvMadeType
  <2>3. PICK new \in ProvDriveType :
           /\ provDrive' = [provDrive EXCEPT ![d] = new] /\ new.stage = "bought"
           /\ new.id = m.id /\ new.clean = provDrive[d].clean
    BY <2>1, <2>2, ProvBoughtFacts
  <2>4. provFault \cap {"overlap", "untagged", "payment"} = {} => \A n \in provMade : n = m
    <3> SUFFICES ASSUME provFault \cap {"overlap", "untagged", "payment"} = {}
                 PROVE  \A n \in provMade : n = m
      OBVIOUS
    <3>1. provMade = ProvLiving
      BY DEF ProvInv, ProvFaulty, ProvLiving
    <3>2. CASE provService.key = {}
      BY <2>2, <3>1, <3>2 DEF ProvInv, ProvTagged
    <3>3. CASE provService.key # {}
      BY <2>2, <3>3 DEF ProvInv, ProvKeyed
    <3>4. QED
      BY <3>2, <3>3
  <2>5. QED
    BY <1>1, <1>2, <2>2, <2>3, <2>4, ProvDriveStep DEF ProvDone
<1>4. CASE ProvFound = {} /\ ProvGoto(d, "buy")
  <2>1. PICK new \in ProvDriveType :
           /\ provDrive' = [provDrive EXCEPT ![d] = new] /\ new.stage = "buy"
           /\ new.clean = provDrive[d].clean
    BY <1>4, ProvGoFacts DEF ProvStages
  <2>2. provService.key = {} /\ provFault \cap {"overlap", "untagged"} = {} => ProvLiving = {}
    BY <1>1, <1>4, ProvFoundFacts
  <2>3. new.clean /\ provFault \cap {"overlap", "untagged", "payment"} = {}
                  /\ provService # ComputeEngine
           => provMade # {} /\ provService.lookup = "none"
    <3> SUFFICES ASSUME new.clean, provFault \cap {"overlap", "untagged", "payment"} = {},
                        provService # ComputeEngine
                 PROVE  provMade # {} /\ provService.lookup = "none"
      OBVIOUS
    <3>1. provMade # {} /\ provMade = ProvLiving
      BY <2>1 DEF ProvInv, ProvClean, ProvFaulty, ProvLiving
    <3>2. provService.key # {}
      BY <2>2, <3>1
    <3>3. provService.lookup # "id"
      BY <1>1, <1>4, <3>1, ProvFoundFacts
    <3>4. QED
      BY <3>1, <3>2, <3>3, ProvServiceFacts DEF ProvInv, ProvShape
  <2>4. QED
    BY <1>1, <1>2, <2>1, <2>2, <2>3, ProvDriveStep
<1>5. QED
  BY <1>3, <1>4 DEF ProvLookup

\* The provider gives back what it made, or rejects the duplicate, which is looked up.
LEMMA ProvRepeatStep ==
    ASSUME ProvInv, NEW d \in ProvDrivers, ProvReturn(d) \/ ProvReject(d)
    PROVE  ProvInv'
<1>1. /\ UNCHANGED <<provService, provMade, provFault>> /\ provDrive[d].stage = "buy"
      /\ "buy" \notin ProvDone /\ provService.key # {}
  BY DEF ProvReturn, ProvReject, ProvAt, ProvDone
<1>2. CASE \E m \in provMade : ProvBought(d, m.id)
  <2>1. PICK m \in provMade : ProvBought(d, m.id)
    BY <1>2
  <2>2. m.id \in Nat /\ \A n \in provMade : n = m
    BY <1>1 DEF ProvInv, ProvShape, ProvMadeType, ProvKeyed
  <2>3. PICK new \in ProvDriveType :
           /\ provDrive' = [provDrive EXCEPT ![d] = new] /\ new.stage = "bought"
           /\ new.id = m.id /\ new.clean = provDrive[d].clean
    BY <2>1, <2>2, ProvBoughtFacts
  <2>4. QED
    BY <1>1, <2>2, <2>3, ProvDriveStep DEF ProvDone
<1>3. CASE ProvReject(d) /\ ProvGoto(d, "failed")
  <2>1. PICK new \in ProvDriveType :
           /\ provDrive' = [provDrive EXCEPT ![d] = new] /\ new.stage = "failed"
           /\ new.clean = provDrive[d].clean
    BY <1>3, ProvGoFacts DEF ProvStages
  <2>2. ~(new.clean /\ provFault \cap {"overlap", "untagged", "payment"} = {}
                    /\ provService # ComputeEngine)
    <3> SUFFICES ASSUME new.clean, provFault \cap {"overlap", "untagged", "payment"} = {},
                        provService # ComputeEngine
                 PROVE  FALSE
      OBVIOUS
    <3>1. provService.lookup = "none"
      BY <1>1, <2>1 DEF ProvInv, ProvClean, ProvAt
    <3>2. "reject" \in provService.key
      BY <1>3 DEF ProvReject
    <3>3. QED
      BY <1>1, <3>1, <3>2, ProvServiceFacts DEF ProvInv, ProvShape
  <2>3. QED
    BY <1>1, <2>1, <2>2, ProvDriveStep DEF ProvDone
<1>4. ProvFound \subseteq provMade
  BY DEF ProvFound, ProvLiving
<1>5. QED
  BY <1>2, <1>3, <1>4 DEF ProvReturn, ProvReject

\* A drive fails, dies, or has its answer; a tag it was about to write is not written.
LEMMA ProvEndStep ==
    ASSUME ProvInv, NEW d \in ProvDrivers,
           ProvLookupFails(d) \/ ProvAnswer(d) \/ ProvFail(d) \/ ProvCrash(d)
    PROVE  ProvInv'
<1>1. /\ UNCHANGED <<provService, provMade>> /\ provDrive[d].stage \notin ProvDone
      /\ provFault \subseteq provFault' /\ ("payment" \in provFault' => "payment" \in provFault)
      /\ provDrive[d].stage = "tag" => "untagged" \in provFault'
  BY DEF ProvLookupFails, ProvAnswer, ProvFail, ProvCrash, ProvAt, ProvDone
<1>2. ASSUME NEW new \in ProvDriveType, provDrive' = [provDrive EXCEPT ![d] = new],
             new.stage # "buy",
             new.clean => /\ provDrive[d].clean
                          /\ \/ new.stage \in {"lookup", "crashed"}
                             \/ provDrive[d].stage = "answer"
      PROVE  ProvInv'
  <2>1. new.clean /\ provFault \cap {"overlap", "untagged", "payment"} = {}
                  /\ provService # ComputeEngine
           => provMade # {} /\ new.stage \in {"lookup", "crashed"}
    BY <1>2 DEF ProvInv, ProvClean
  <2>2. QED
    BY <1>1, <1>2, <2>1, ProvDriveStep
<1>3. CASE ProvLookupFails(d)
  <2> DEFINE new == [provDrive[d] EXCEPT !.stage = "failed", !.clean = FALSE]
  <2>1. provDrive' = [provDrive EXCEPT ![d] = new]
    BY <1>3 DEF ProvLookupFails
  <2>2. new \in ProvDriveType /\ new.stage = "failed" /\ new.clean = FALSE
    BY ProvDriveFacts DEF ProvDriveType, ProvStages
  <2> HIDE DEF new
  <2>3. QED
    BY <1>2, <2>1, <2>2
<1>4. CASE ProvAnswer(d)
  <2>1. PICK new \in ProvDriveType :
           /\ provDrive' = [provDrive EXCEPT ![d] = new] /\ new.stage = "bought"
           /\ new.clean = provDrive[d].clean
    BY <1>4, ProvGoFacts DEF ProvAnswer, ProvStages
  <2>2. provDrive[d].stage = "answer"
    BY <1>4 DEF ProvAnswer, ProvAt
  <2>3. QED
    BY <1>2, <2>1, <2>2
<1>5. CASE ProvFail(d)
  <2>1. CASE provDrive' = [provDrive EXCEPT ![d].stage = "failed", ![d].clean = FALSE]
    <3> DEFINE new == [provDrive[d] EXCEPT !.stage = "failed", !.clean = FALSE]
    <3>1. provDrive' = [provDrive EXCEPT ![d] = new]
      BY <2>1
    <3>2. new \in ProvDriveType /\ new.stage = "failed" /\ new.clean = FALSE
      BY ProvDriveFacts DEF ProvDriveType, ProvStages
    <3> HIDE DEF new
    <3>3. QED
      BY <1>2, <3>1, <3>2
  <2>2. CASE provDrive' = [provDrive EXCEPT ![d].stage = "lookup", ![d].attempt = @ + 1]
    <3> DEFINE new == [provDrive[d] EXCEPT !.stage = "lookup", !.attempt = @ + 1]
    <3>1. provDrive' = [provDrive EXCEPT ![d] = new]
      BY <2>2
    <3>2. provDrive[d].attempt + 1 \in Nat
      BY ProvDriveFacts DEF ProvDriveType
    <3>3. new.stage = "lookup" /\ new.clean = provDrive[d].clean
      BY ProvDriveFacts DEF ProvDriveType
    <3>4. new \in ProvDriveType
      BY <3>2, ProvDriveFacts DEF ProvDriveType, ProvStages
    <3> HIDE DEF new
    <3>5. QED
      BY <1>2, <3>1, <3>3, <3>4
  <2>3. QED
    BY <1>5, <2>1, <2>2 DEF ProvFail
<1>6. CASE ProvCrash(d)
  <2>1. PICK new \in ProvDriveType :
           /\ provDrive' = [provDrive EXCEPT ![d] = new] /\ new.stage = "crashed"
           /\ new.clean = provDrive[d].clean
    BY <1>6, ProvGoFacts DEF ProvCrash, ProvStages
  <2>2. QED
    BY <1>2, <2>1
<1>7. QED
  BY <1>3, <1>4, <1>5, <1>6

\* A commitment is made: the first of a service with a key; for one with a tag there
\* is no other while drives do not overlap and purchases get their tag.
LEMMA ProvCommitStep ==
    ASSUME ProvInv, NEW d \in ProvDrivers, ProvCommit(d)
    PROVE  ProvInv'
<1> DEFINE id == Cardinality(provMade) + 1
           rest == IF provService.tag = "after" THEN "tag" ELSE "answer"
           tagged == provService.tag = "with"
           one == [id |-> id, tagged |-> tagged, live |-> TRUE]
           new == [provDrive[d] EXCEPT !.stage = rest, !.id = id]
<1>1. /\ provDrive[d].stage = "buy" /\ (provService.key = {} \/ provMade = {})
      /\ provMade' = provMade \cup {one} /\ provDrive' = [provDrive EXCEPT ![d] = new]
      /\ UNCHANGED <<provService, provFault>>
  BY DEF ProvCommit, ProvAt
<1>2. id \in Nat
  BY FS_CardinalityType DEF ProvInv, ProvShape
<1>3. one \in ProvMadeType /\ one.id = id /\ one.live
  BY <1>2 DEF ProvMadeType
<1>4. one.tagged = tagged /\ tagged \in BOOLEAN
  OBVIOUS
<1> HIDE DEF id
<1>5. /\ new \in ProvDriveType /\ new.stage = rest /\ rest \in {"tag", "answer"} /\ new.id = id
      /\ new.clean = provDrive[d].clean
  BY <1>2, ProvDriveFacts DEF ProvDriveType, ProvStages
<1>6. tagged \/ rest = "tag" \/ provService.tag \notin {"after", "with"}
  OBVIOUS
<1> HIDE DEF one, new, rest, tagged
<1>7. /\ provDrive' \in [ProvDrivers -> ProvDriveType]
      /\ provDrive'[d] = new /\ \A e \in ProvDrivers \ {d} : provDrive'[e] = provDrive[e]
  BY <1>1, <1>5 DEF ProvInv, ProvShape
<1>8. IsFiniteSet(provMade')
  BY <1>1, FS_AddElement DEF ProvInv, ProvShape
<1>9. ProvShape'
  BY <1>1, <1>3, <1>7, <1>8 DEF ProvInv, ProvShape
<1>10. ProvFaulty'
  <2>1. "buy" \notin ProvDone
    BY DEF ProvDone
  <2>2. QED
    BY <1>1, <1>3, <1>7, <2>1 DEF ProvInv, ProvFaulty
<1>11. ProvKeyed'
  BY <1>1 DEF ProvInv, ProvKeyed
<1>12. ProvTagged'
  <2> SUFFICES ASSUME provService.key = {}, provFault \cap {"overlap", "untagged"} = {}
               PROVE  /\ \A m, n \in ProvLiving' : m = n
                      /\ \A e \in ProvDrivers : provDrive'[e].stage = "buy" => ProvLiving' = {}
                      /\ \A m \in ProvLiving' : m.tagged \/ \E e \in ProvDrivers :
                            provDrive'[e].stage = "tag" /\ provDrive'[e].id = m.id
    BY <1>1 DEF ProvTagged, ProvAt
  <2>1. ProvLiving = {}
    BY <1>1 DEF ProvInv, ProvTagged, ProvAt
  <2>2. ProvLiving' = {one}
    BY <1>1, <1>3, <2>1 DEF ProvLiving
  <2>3. \A e \in ProvDrivers : provDrive'[e].stage # "buy"
    BY <1>1, <1>5, <1>7 DEF ProvInv, ProvFaulty, ProvDone
  <2>4. provService.tag \in {"after", "with"}
    BY ProvServiceFacts DEF ProvInv, ProvShape
  <2>5. one.tagged \/ (provDrive'[d].stage = "tag" /\ provDrive'[d].id = one.id)
    BY <1>3, <1>4, <1>5, <1>6, <1>7, <2>4
  <2>6. QED
    BY <2>2, <2>3, <2>5
<1>13. ProvClean'
  <2>1. ASSUME provFault \cap {"overlap", "untagged", "payment"} = {},
               provService # ComputeEngine, NEW e \in ProvDrivers, provDrive[e].clean
        PROVE  FALSE
    <3>1. provMade # {} /\ provMade = ProvLiving
      BY <2>1 DEF ProvInv, ProvClean, ProvFaulty, ProvLiving
    <3>2. provService.key = {}
      BY <1>1, <3>1
    <3>3. QED
      BY <1>1, <2>1, <3>1, <3>2 DEF ProvInv, ProvTagged, ProvAt
  <2>2. \A e \in ProvDrivers : provDrive'[e].clean = provDrive[e].clean
    BY <1>5, <1>7
  <2>3. QED
    BY <1>1, <2>1, <2>2 DEF ProvClean
<1>14. QED
  BY <1>9, <1>10, <1>11, <1>12, <1>13 DEF ProvInv

\* A purchase gets its tag, or stays untagged.
LEMMA ProvTagStep ==
    ASSUME ProvInv, NEW d \in ProvDrivers, ProvTag(d)
    PROVE  ProvInv'
<1>1. provDrive[d].stage = "tag" /\ UNCHANGED provService /\ "tag" \notin ProvDone
  BY DEF ProvTag, ProvAt, ProvDone
<1>2. PICK new \in ProvDriveType :
         /\ provDrive' = [provDrive EXCEPT ![d] = new] /\ new.stage = "answer"
         /\ new.id = provDrive[d].id /\ new.clean = provDrive[d].clean
  BY ProvGoFacts DEF ProvTag, ProvStages
<1>3. ~(provDrive[d].clean /\ provFault \cap {"overlap", "untagged", "payment"} = {}
                           /\ provService # ComputeEngine)
  BY <1>1 DEF ProvInv, ProvClean
<1>4. CASE provFault' = provFault \cup {"untagged"} /\ UNCHANGED provMade
  BY <1>1, <1>2, <1>3, <1>4, ProvDriveStep
<1>5. CASE /\ provMade' = {[m EXCEPT !.tagged = m.tagged \/ m.id = provDrive[d].id] : m \in provMade}
           /\ UNCHANGED provFault
  <2> DEFINE Tag(m) == m.tagged \/ m.id = provDrive[d].id
             f == [m \in provMade |-> [m EXCEPT !.tagged = Tag(m)]]
  <2>1. provMade' = {f[m] : m \in provMade}
    BY <1>5
  <2>2. \A m \in provMade : /\ f[m] \in ProvMadeType /\ f[m].id = m.id /\ f[m].live = m.live
                            /\ f[m].tagged = Tag(m)
    <3> SUFFICES ASSUME NEW m \in provMade
                 PROVE  /\ f[m] \in ProvMadeType /\ f[m].id = m.id /\ f[m].live = m.live
                        /\ f[m].tagged = Tag(m)
      OBVIOUS
    <3>1. m \in ProvMadeType /\ Tag(m) \in BOOLEAN
      BY DEF ProvInv, ProvShape
    <3> HIDE DEF Tag
    <3>2. f[m] = [m EXCEPT !.tagged = Tag(m)]
      OBVIOUS
    <3>3. QED
      BY <3>1, <3>2 DEF ProvMadeType
  <2>3. f \in [provMade -> {f[m] : m \in provMade}]
    OBVIOUS
  <2>4. \A m \in provMade : f[m].tagged <=> (m.tagged \/ m.id = provDrive[d].id)
    BY <2>2
  <2> HIDE DEF f
  <2>5. IsFiniteSet(provMade')
    <3>1. f \in Surjection(provMade, {f[m] : m \in provMade})
      BY <2>3 DEF Surjection
    <3>2. IsFiniteSet({f[m] : m \in provMade})
      BY <3>1, FS_Surjection DEF ProvInv, ProvShape
    <3>3. QED
      BY <2>1, <3>2
  <2>6. /\ provDrive' \in [ProvDrivers -> ProvDriveType]
        /\ provDrive'[d] = new /\ \A e \in ProvDrivers \ {d} : provDrive'[e] = provDrive[e]
    BY <1>2 DEF ProvInv, ProvShape
  <2>7. ProvShape'
    BY <1>1, <2>1, <2>2, <2>5, <2>6 DEF ProvInv, ProvShape
  <2>8. ProvLiving' = {f[m] : m \in ProvLiving}
    BY <2>1, <2>2 DEF ProvLiving
  <2>9. ProvFaulty'
    BY <1>1, <1>5, <2>1, <2>2, <2>6 DEF ProvInv, ProvFaulty
  <2>10. ProvKeyed'
    BY <1>1, <2>1 DEF ProvInv, ProvKeyed
  <2>11. ProvTagged'
    <3> SUFFICES ASSUME provService.key = {}, provFault \cap {"overlap", "untagged"} = {}
                 PROVE  /\ \A m, n \in ProvLiving' : m = n
                        /\ \A e \in ProvDrivers : provDrive'[e].stage = "buy" => ProvLiving' = {}
                        /\ \A m \in ProvLiving' : m.tagged
      BY <1>1, <1>5 DEF ProvTagged, ProvAt
    <3>1. \A m, n \in ProvLiving : m = n
      BY DEF ProvInv, ProvTagged
    <3>2. \A e \in ProvDrivers : provDrive[e].stage = "tag" => e = d
      BY <1>1 DEF ProvInv, ProvFaulty, ProvDone
    <3>3. \A m \in ProvLiving : m \in provMade /\ f[m].tagged
      BY <2>4, <3>2 DEF ProvInv, ProvTagged, ProvAt, ProvLiving
    <3>4. \A e \in ProvDrivers : provDrive'[e].stage = "buy" => ProvLiving = {}
      BY <1>2, <2>6 DEF ProvInv, ProvTagged, ProvAt
    <3>5. QED
      BY <2>8, <3>1, <3>3, <3>4
  <2>12. ProvClean'
    BY <1>1, <1>2, <1>3, <1>5, <2>1, <2>2, <2>6 DEF ProvInv, ProvClean, ProvAt
  <2>13. QED
    BY <2>7, <2>9, <2>10, <2>11, <2>12 DEF ProvInv
<1>6. QED
  BY <1>4, <1>5 DEF ProvTag

\* A payment fails: there is one commitment less that lives.
LEMMA ProvPaymentStep ==
    ASSUME ProvInv, NEW m \in provMade, ProvPaymentFails(m)
    PROVE  ProvInv'
<1> DEFINE dead == [m EXCEPT !.live = FALSE]
<1>1. /\ provMade' = (provMade \ {m}) \cup {dead} /\ UNCHANGED <<provService, provDrive>>
      /\ provFault' = provFault \cup {"payment"}
  BY DEF ProvPaymentFails
<1>2. dead \in ProvMadeType /\ ~dead.live
  BY DEF ProvInv, ProvShape, ProvMadeType
<1> HIDE DEF dead
<1>3. IsFiniteSet(provMade')
  BY <1>1, FS_AddElement, FS_RemoveElement DEF ProvInv, ProvShape
<1>4. ProvLiving' \subseteq ProvLiving
  BY <1>1, <1>2 DEF ProvLiving
<1>5. ProvShape'
  BY <1>1, <1>2, <1>3 DEF ProvInv, ProvShape
<1>6. ProvFaulty' /\ ProvKeyed' /\ ProvClean'
  BY <1>1 DEF ProvInv, ProvFaulty, ProvKeyed, ProvClean
<1>7. ProvTagged'
  BY <1>1, <1>4 DEF ProvInv, ProvTagged, ProvAt
<1>8. QED
  BY <1>5, <1>6, <1>7 DEF ProvInv

\* A purchase is one commitment, and whoever drives it again hears of it
\* (idempotencyGuard, FindReservationOrderByIdempotencyToken, recoverAlreadyExists),
\* for any service, any number of drives and attempts.
THEOREM ProvidersSound == ProvSpec => []ProvSound
<1>1. ProvInit => ProvInv
  <2> SUFFICES ASSUME ProvInit PROVE ProvInv
    OBVIOUS
  <2>1. ProvShape
    BY FS_EmptySet DEF ProvInit, ProvShape, ProvNew, ProvDriveType, ProvStages
  <2>2. \A d \in ProvDrivers : provDrive[d].stage = "new" /\ ~provDrive[d].clean
    BY DEF ProvInit, ProvNew
  <2>3. QED
    BY <2>1, <2>2 DEF ProvInit, ProvInv, ProvFaulty, ProvKeyed, ProvTagged, ProvClean, ProvLiving,
                      ProvAt, ProvDone
<1>2. ProvInv /\ [ProvNext]_provVars => ProvInv'
  <2> SUFFICES ASSUME ProvInv, [ProvNext]_provVars PROVE ProvInv'
    OBVIOUS
  <2>1. CASE ProvNext
    BY <2>1, ProvStartStep, ProvLookupStep, ProvRepeatStep, ProvEndStep, ProvCommitStep,
       ProvTagStep, ProvPaymentStep DEF ProvNext
  <2>2. CASE UNCHANGED provVars
    BY <2>2 DEF provVars, ProvInv, ProvShape, ProvFaulty, ProvKeyed, ProvTagged, ProvClean,
                ProvLiving, ProvAt
  <2>3. QED
    BY <2>1, <2>2
<1>3. ProvInv => ProvSound
  <2> SUFFICES ASSUME ProvInv PROVE ProvSound
    OBVIOUS
  <2>1. ProvOneLiveCommitment
    <3> SUFFICES ASSUME provService.key # {} \/ provFault \cap {"overlap", "untagged"} = {}
                 PROVE  Cardinality(ProvLiving) <= 1
      BY DEF ProvOneLiveCommitment
    <3>1. \A m, n \in ProvLiving : m = n
      BY DEF ProvInv, ProvKeyed, ProvTagged, ProvLiving
    <3>2. ProvLiving = {} \/ \E m : ProvLiving = {m}
      BY <3>1
    <3>3. CASE ProvLiving = {}
      <4>1. Cardinality(ProvLiving) = 0
        BY <3>3, FS_EmptySet
      <4>2. QED
        BY <4>1
    <3>4. ASSUME NEW m, ProvLiving = {m}
          PROVE  Cardinality(ProvLiving) <= 1
      <4>1. Cardinality(ProvLiving) = 1
        BY <3>4, FS_Singleton, Zenon
      <4>2. QED
        BY <4>1
    <3>5. QED
      BY <3>2, <3>3, <3>4
  <2>2. ProvLandedIsReported
    BY DEF ProvInv, ProvFaulty, ProvClean, ProvLandedIsReported, ProvAt
  <2>3. QED
    BY <2>1, <2>2 DEF ProvSound
<1>4. QED
  BY <1>1, <1>2, <1>3, PTL DEF ProvSpec

-----------------------------------------------------------------------------
(* Reshape: the advice fits the use, and what is cheaper is not listed later.   *)

\* The size that is advised is one of the table, which knows its factor.
LEMMA RshTableOf ==
    ASSUME NEW i \in DOMAIN RshSizes
    PROVE  /\ RshTable(RshSizes[i].size) = RshSizes[i].factor
           /\ RshSizes[i].factor \in Nat \ {0}
<1>1. DOMAIN RshSizes = 1 .. 18
  BY DEF RshSizes
<1>2. \A j \in 1 .. 18 : RshSizes[j].size = RshSizes[i].size => j = i
  BY <1>1 DEF RshSizes
<1>3. RshSizes[i].factor \in Nat \ {0}
  BY <1>1 DEF RshSizes
<1>4. \A s \in ToSet(RshSizes) : s.size = RshSizes[i].size => s = RshSizes[i]
  BY <1>1, <1>2 DEF ToSet
<1>5. RshSizes[i] \in ToSet(RshSizes)
  BY DEF ToSet
<1>6. (CHOOSE s \in ToSet(RshSizes) : s.size = RshSizes[i].size) = RshSizes[i]
  BY <1>4, <1>5
<1>7. QED
  BY <1>3, <1>6 DEF RshTable

\* Rounding a quotient up.
LEMMA RshUp ==
    ASSUME NEW used \in Nat, NEW per \in Nat \ {0}
    PROVE  LET times == (used + per - 1) \div per
           IN  times \in Nat /\ used <= per * times /\ per * times < used + per
  OBVIOUS

\* findBestFit gives what covers the use, in less than twice as much.
LEMMA RshFit ==
    ASSUME NEW used \in Nat, used > 0
    PROVE  LET fit == RshBestFit(used)
               units == RshTable(fit.size) * fit.count * 100
           IN  /\ units >= used
               /\ units < 2 * used \/ (fit.size = "nano" /\ fit.count = 1)
<1> DEFINE fits == {i \in DOMAIN RshSizes : RshSizes[i].factor * 100 <= used}
<1>1. DOMAIN RshSizes = 1 .. 18
  BY DEF RshSizes
<1>2. CASE fits = {}
  <2>1. RshSizes[1].factor = 1 /\ RshSizes[1].size = "nano"
    BY DEF RshSizes
  <2>2. RshTable("nano") = 1 /\ used < 100
    BY <1>1, <1>2, <2>1, RshTableOf
  <2>3. RshBestFit(used) = [size |-> "nano", count |-> 1]
    BY <1>2 DEF RshBestFit
  <2>4. QED
    BY <2>2, <2>3
<1>3. CASE fits # {}
  <2> DEFINE m == Max(fits)
             f == RshSizes[m].factor
             times == (used + f * 100 - 1) \div (f * 100)
  <2>1. m \in fits
    <3>1. fits \subseteq 0 .. 18
      BY <1>1
    <3>2. PICK last \in fits : \A i \in fits : i <= last
      BY <1>3, <3>1, NatMax
    <3>3. QED
      BY <1>1, <3>2 DEF Max
  <2>2. f \in Nat \ {0} /\ RshTable(RshSizes[m].size) = f /\ f * 100 <= used
    BY <2>1, RshTableOf
  <2>3. RshBestFit(used) = [size |-> RshSizes[m].size, count |-> times]
    BY <1>3 DEF RshBestFit
  <2> HIDE DEF fits, m, f
  <2>4. times \in Nat /\ used <= (f * 100) * times /\ (f * 100) * times < used + f * 100
    <3>1. f * 100 \in Nat \ {0}
      BY <2>2
    <3> DEFINE per == f * 100
    <3> HIDE DEF per
    <3>2. LET up == (used + per - 1) \div per
          IN  up \in Nat /\ used <= per * up /\ per * up < used + per
      BY <3>1, RshUp DEF per
    <3>3. QED
      BY <3>2 DEF per
  <2> HIDE DEF times
  <2>5. f * times * 100 = (f * 100) * times
    BY <2>2, <2>4
  <2>6. f * times * 100 >= used /\ f * times * 100 < 2 * used
    BY <2>2, <2>4, <2>5
  <2>7. QED
    BY <2>2, <2>3, <2>6
<1>4. QED
  BY <1>2, <1>3

\* What is divided by more is less.
LEMMA RshDivided ==
    ASSUME NEW a \in Nat, NEW p \in Nat \ {0}, NEW q \in Nat \ {0}, p <= q
    PROVE  a \div q <= a \div p
<1> DEFINE x == a \div p
           y == a \div q
<1>1. x \in Nat /\ a < p * (x + 1)
  OBVIOUS
<1>2. y \in Nat /\ q * y <= a
  OBVIOUS
<1> HIDE DEF x, y
<1>3. SUFFICES ASSUME y >= x + 1 PROVE FALSE
  BY <1>1, <1>2 DEF x, y
<1>4. p * (x + 1) <= p * y
  BY <1>1, <1>2, <1>3
<1>5. p * y <= q * y
  BY <1>2
<1>6. p * (x + 1) \in Nat /\ p * y \in Nat /\ q * y \in Nat
  BY <1>1, <1>2
<1>7. QED
  BY <1>1, <1>2, <1>4, <1>5, <1>6

\* What is cheaper has no lower a score of its cost.
LEMMA RshCheaper ==
    ASSUME NEW ri \in RshRIs, NEW a \in RshOffers, NEW b \in RshOffers,
           ri.cost > 0, 0 < b.cost, b.cost < a.cost
    PROVE  RshCost(b, ri) >= RshCost(a, ri) /\ RshCost(a, ri) \in Int /\ RshCost(b, ri) \in Int
<1> DEFINE worth == 1000 * ri.cost
           p == ri.cost + b.cost
           q == ri.cost + a.cost
<1>1. worth \in Nat /\ p \in Nat \ {0} /\ q \in Nat \ {0} /\ p <= q
  BY RshAssumption
<1>2. RshCost(b, ri) = worth \div p /\ RshCost(a, ri) = worth \div q
  BY RshAssumption DEF RshCost
<1> HIDE DEF worth, p, q
<1>3. worth \div p \in Int /\ worth \div q \in Int
  BY <1>1
<1>4. worth \div q <= worth \div p
  BY <1>1, RshDivided
<1>5. QED
  BY <1>2, <1>3, <1>4

\* The factor of a reservation is known, or nothing is.
LEMMA RshFactorIn ==
    ASSUME NEW ri \in RshRIs
    PROVE  RshFactor(ri) \in Nat
<1>1. ASSUME NEW i \in DOMAIN RshSizes, RshSizes[i].size = ri.size
      PROVE  RshTable(ri.size) \in Nat
  BY <1>1, RshTableOf
<1>2. RshTable(ri.size) \in Nat
  BY <1>1 DEF RshTable
<1>3. QED
  BY <1>2, RshAssumption DEF RshFactor

\* The other parts of a score are numbers.
LEMMA RshPoints ==
    ASSUME NEW ri \in RshRIs, NEW off \in RshOffers
    PROVE  /\ RshGeneration(off, ri) \in Int /\ RshArch(off, ri) \in Int
           /\ RshConfidence(off) \in Int /\ RshNear(off, ri) \in Int
<1>1. RshGeneration(off, ri) \in Int /\ RshArch(off, ri) \in Int /\ RshConfidence(off) \in Int
  BY DEF RshGeneration, RshArch, RshConfidence
<1>2. RshFactor(ri) \in Nat
  BY RshFactorIn
<1>3. RshNear(off, ri) \in Int
  <2> DEFINE f == RshFactor(ri)
             d == IF off.factor > f THEN off.factor - f ELSE f - off.factor
  <2>1. f \in Nat /\ d \in Int
    BY <1>2, RshAssumption
  <2>2. RshNear(off, ri) = IF f = 0 \/ off.factor = 0 THEN 500
                           ELSE IF d >= f THEN 0 ELSE 1000 - (1000 * d) \div f
    BY DEF RshNear
  <2> HIDE DEF f, d
  <2>3. f # 0 => (1000 * d) \div f \in Int
    BY <2>1
  <2>4. QED
    BY <2>1, <2>2, <2>3
<1>4. QED
  BY <1>1, <1>2, <1>3

\* What costs less and is as good in everything else goes before.
LEMMA RshAhead ==
    ASSUME NEW ri \in RshRIs, NEW a \in RshOffers, NEW b \in RshOffers,
           ri.cost > 0, 0 < b.cost, b.cost < a.cost,
           RshGeneration(b, ri) >= RshGeneration(a, ri), RshArch(b, ri) >= RshArch(a, ri),
           RshConfidence(b) >= RshConfidence(a), RshNear(b, ri) >= RshNear(a, ri)
    PROVE  RshBefore(ri, b, a)
<1>1. RshScore(b, ri) >= RshScore(a, ri) /\ RshScore(b, ri) \in Int /\ RshScore(a, ri) \in Int
  BY RshCheaper, RshPoints DEF RshScore
<1>2. QED
  BY <1>1 DEF RshBefore

\* The reservation stays, the advice is for it, a target or none.
RshCovers == rshRec.size # RshNone =>
    LET units == RshTable(rshRec.size) * rshRec.count * 100 IN
    /\ units >= RshUsed(rshRI)
    /\ units < 2 * RshUsed(rshRI) \/ (rshRec.size = "nano" /\ rshRec.count = 1)
RshAdvised ==
    /\ rshRec = [size |-> rshRec.size, count |-> rshRec.count, others |-> <<>>]
    /\ RshCovers
RshShape ==
    /\ rshRI \in RshRIs /\ rshOffers \subseteq RshOffers
    /\ rshAt = "given" => rshRec = RshNone
    /\ rshAt \in {"advised", "looked up"} => RshAdvised
RshInv == RshShape /\ RshSound

\* Nothing is advised yet.
LEMMA RshStarts == RshInit => RshInv
  BY DEF RshInit, RshInv, RshShape, RshSound, RshFits, RshRanked

\* A size is advised that fits.
LEMMA RshAnalyzeStep ==
    ASSUME RshInv, RshAnalyze
    PROVE  RshInv'
<1> DEFINE fit == RshBestFit(RshUsed(rshRI))
<1>1. UNCHANGED <<rshRI, rshOffers>> /\ rshRI \in RshRIs /\ rshOffers \subseteq RshOffers
  BY DEF RshAnalyze, RshInv, RshShape
<1>2. CASE rshAt' = "done" /\ UNCHANGED rshRec
  BY <1>1, <1>2 DEF RshInv, RshShape, RshSound, RshFits, RshRanked
<1>3. ASSUME NEW size, NEW count, rshAt' = "advised",
             rshRec' = [size |-> size, count |-> count, others |-> <<>>],
             size # RshNone =>
                 LET units == RshTable(size) * count * 100
                 IN  /\ units >= RshUsed(rshRI)
                     /\ units < 2 * RshUsed(rshRI) \/ (size = "nano" /\ count = 1)
      PROVE  RshInv'
  <2>1. rshRec'.size = size /\ rshRec'.count = count /\ rshRec'.others = <<>>
    BY <1>3
  <2>2. RshAdvised'
    BY <1>1, <1>3, <2>1 DEF RshAdvised, RshCovers
  <2>3. RshSound'
    BY <1>1, <1>3, <2>1 DEF RshSound, RshFits, RshRanked
  <2>4. QED
    BY <1>1, <1>3, <2>2, <2>3 DEF RshInv, RshShape
<1>4. CASE rshAt' = "advised" /\ rshRec' = [size |-> RshNone, count |-> 0, others |-> <<>>]
  BY <1>3, <1>4
<1>5. CASE /\ RshUnderused(rshRI) /\ RshUsed(rshRI) > 0 /\ rshAt' = "advised"
           /\ rshRec' = [size |-> fit.size, count |-> fit.count, others |-> <<>>]
  <2>1. RshUsed(rshRI) \in Nat
    <3>1. rshRI.used \in Nat /\ rshRI.count \in Nat
      BY <1>1, <1>5, RshAssumption DEF RshUnderused
    <3>2. RshFactor(rshRI) \in Nat
      BY <1>1, RshFactorIn
    <3>3. RshFactor(rshRI) * rshRI.count \in Nat
      BY <3>1, <3>2
    <3>4. QED
      BY <3>1, <3>3 DEF RshUsed
  <2>2. LET units == RshTable(fit.size) * fit.count * 100
        IN  /\ units >= RshUsed(rshRI)
            /\ units < 2 * RshUsed(rshRI) \/ (fit.size = "nano" /\ fit.count = 1)
    BY <1>5, <2>1, RshFit
  <2> HIDE DEF fit
  <2>3. QED
    BY <1>3, <1>5, <2>2
<1>6. QED
  BY <1>2, <1>4, <1>5 DEF RshAnalyze

\* The cache is read.
LEMMA RshLookupStep ==
    ASSUME RshInv, RshLookup
    PROVE  RshInv'
  BY DEF RshLookup, RshInv, RshShape, RshAdvised, RshCovers, RshSound, RshFits, RshRanked

\* The alternatives are listed in an order of theirs.
LEMMA RshFillStep ==
    ASSUME RshInv, RshFill
    PROVE  RshInv'
<1> DEFINE offers == {off \in rshOffers : RshEligible(off, rshRI)}
<1>1. /\ UNCHANGED <<rshRI, rshOffers>> /\ rshRI \in RshRIs /\ rshOffers \subseteq RshOffers
      /\ rshAt' = "done" /\ RshAdvised
  BY DEF RshFill, RshInv, RshShape
<1>2. PICK order \in RshOrders(offers, rshRI) : rshRec' = [rshRec EXCEPT !.others = order]
  BY DEF RshFill
<1>3. rshRec'.size = rshRec.size /\ rshRec'.count = rshRec.count /\ rshRec'.others = order
  BY <1>1, <1>2 DEF RshAdvised
<1>4. /\ \A i \in DOMAIN order : order[i] \in RshOffers
      /\ \A i, j \in DOMAIN order : i < j => ~RshBefore(rshRI, order[j], order[i])
  BY <1>1 DEF RshOrders, SetToSeqs
<1>5. RshFits'
  BY <1>1, <1>3 DEF RshAdvised, RshCovers, RshFits
<1>6. RshRanked'
  BY <1>1, <1>3, <1>4, RshAhead DEF RshRanked
<1>7. QED
  BY <1>1, <1>5, <1>6 DEF RshInv, RshShape, RshSound

\* Every step keeps the invariant.
LEMMA RshStays == RshInv /\ [RshNext]_rshVars => RshInv'
<1> SUFFICES ASSUME RshInv, [RshNext]_rshVars PROVE RshInv'
  OBVIOUS
<1>1. CASE UNCHANGED rshVars
  BY <1>1 DEF rshVars, RshInv, RshShape, RshAdvised, RshCovers, RshSound, RshFits, RshRanked
<1>2. QED
  BY <1>1, RshAnalyzeStep, RshLookupStep, RshFillStep DEF RshNext

\* The advice to exchange covers the use in less than twice as much, and lists no
\* cheaper alternative later (findBestFit, compositeScore): for reservations and
\* offerings of any size, use and price.
THEOREM AdviceFits == RshSpec => []RshSound
<1>1. RshInv => RshSound
  BY DEF RshInv
<1>2. QED
  BY RshStarts, RshStays, <1>1, PTL DEF RshSpec

-----------------------------------------------------------------------------
(* Catalog: an answer is what was asked for, whatever the pages hold.           *)

\* The searches that look no further at an entry that misses what no request ruled out.
CatPicky == {CatOpenSearchOffering, CatOpenSearchDetails, CatRedshiftOffering, CatRedshiftDetails}

\* All that is asked for is in the request or looked at, and nothing else.
CatSearches(op) ==
    /\ op.kind \in {"search", "choice"} /\ op.bills = "never"
    /\ op.onFail = "error" /\ op.onCap = "error" /\ op.noSource = "never"
    /\ op.kind = "choice" =>
          /\ op.asks \subseteq op.api
          /\ {"family", "region"} \cap (op.asks \cup op.agree) \subseteq op.api \cup op.agree
    /\ op.kind = "search" =>
          /\ op.asks \subseteq op.api \cup op.skip \cup op.fail \cup op.pass
          /\ op.skip \cup op.pass \subseteq op.asks
          /\ op \in CatPicky \/ op.fail \subseteq op.api

\* What is not kept in part is kept whole or given up.
CatListings(op) ==
    /\ op.kind = "list" /\ op.bills = "never"
    /\ op.asks \subseteq op.api \cup op.skip /\ op.skip \subseteq op.asks
    /\ \/ op \in CatKeepsAPart
       \/ /\ op.onFail \in {"error", "common"} /\ op.onCap = "error"
          /\ op.noSource \in {"never", "error", "common"}

\* A price on demand says so, or is the other price of the SKU.
CatPrices(op) ==
    /\ op.kind = "quote"
    /\ op.onFail = "error" /\ op.noSource \in {"never", "error"}
    /\ op.asks \subseteq op.api \cup op.skip
    /\ \/ "on demand" \in op.fail
       \/ op.fail = {"sku"} /\ op.skip = {"reservation", "sku"}
    /\ op \in {CatCosmosDetails, CatSearchDetails} \/ "sku" \in op.api \cup (op.skip \cap op.fail)
    /\ op.bills = "never" \/ op = CatSKUDetails \/ "term" \in op.asks
    /\ op.bills \in {"never", "known"} \/ op \in {CatManagedRedisDetails, CatSKUDetails}

CatSensible(op) == CatSearches(op) \/ CatListings(op) \/ CatPrices(op)

CatFields == DOMAIN CatWalk

\* A search has nothing to agree on, and gives up at a page that fails.
LEMMA CatSearchForm ==
    ASSUME NEW asks, NEW api, NEW skip, NEW fail
    PROVE  LET op == CatSearch(asks, api, skip, fail) IN
             /\ DOMAIN op = CatFields
             /\ op.kind = "search" /\ op.asks = asks /\ op.api = api
             /\ op.skip = skip /\ op.fail = fail /\ op.pass = {} /\ op.agree = {}
             /\ op.onCap = "error" /\ op.onFail = "error" /\ op.noSource = "never"
             /\ op.bills = "never"
  BY DEF CatSearch, CatWalk, CatFields

\* A listing filters only what is asked for.
LEMMA CatListForm ==
    ASSUME NEW asks, NEW api, NEW skip
    PROVE  LET op == CatList(asks, api, skip) IN
             /\ DOMAIN op = CatFields
             /\ op.kind = "list" /\ op.asks = asks /\ op.api = api /\ op.skip = skip
             /\ op.onCap = "error" /\ op.onFail = "error" /\ op.noSource = "never"
             /\ op.bills = "never"
  BY DEF CatList, CatWalk, CatFields

\* A quote looks for two lines.
LEMMA CatQuoteForm ==
    ASSUME NEW asks, NEW api, NEW ri, NEW od, NEW zeroes
    PROVE  LET op == CatQuote(asks, api, ri, od, zeroes) IN
             /\ DOMAIN op = CatFields
             /\ op.kind = "quote" /\ op.asks = asks /\ op.api = api
             /\ op.skip = ri /\ op.fail = od /\ op.bills = "never"
             /\ op.onCap = "error" /\ op.onFail = "error" /\ op.noSource = "never"
  BY DEF CatQuote, CatWalk, CatFields

\* What has a walk's fields can have one replaced.
LEMMA CatFieldNames ==
    CatFields = {"kind", "asks", "api", "skip", "fail", "pass", "cap", "onCap", "onFail",
                 "onNone", "noSource", "agree", "then", "bills"}
  BY DEF CatFields, CatWalk

\* A quote looks for the same lines to whatever page it is read.
LEMMA CatCappedForm ==
    ASSUME NEW asks, NEW api, NEW ri, NEW od, NEW zeroes, NEW cap, NEW onCap
    PROVE  LET op == [CatQuote(asks, api, ri, od, zeroes) EXCEPT !.cap = cap, !.onCap = onCap] IN
             /\ DOMAIN op = CatFields
             /\ op.kind = "quote" /\ op.asks = asks /\ op.api = api
             /\ op.skip = ri /\ op.fail = od /\ op.bills = "never"
             /\ op.onFail = "error" /\ op.noSource = "never"
  BY CatQuoteForm, CatFieldNames

\* The offerings AWS is searched for.
LEMMA CatSearchesSensible ==
    \A op \in {CatEC2Offering, CatRDSOffering, CatElastiCacheOffering, CatMemoryDBOffering,
               CatOpenSearchOffering, CatConvertibleOffering, CatRedshiftOffering} :
        CatSearches(op)
<1>1. CatSearches(CatEC2Offering)
  <2>1. "payment" \in CatEC2Asks
    BY DEF CatEC2Asks
  <2>2. QED
    BY <2>1, CatSearchForm, CatFieldNames DEF CatEC2Offering, CatSearches
<1>2. CatSearches(CatRDSOffering)
  BY CatSearchForm, CatFieldNames DEF CatRDSOffering, CatRDSAsks, CatSearches
<1>3. CatSearches(CatElastiCacheOffering)
  BY CatSearchForm, CatFieldNames DEF CatElastiCacheOffering, CatNodeAsks, CatSearches
<1>4. CatSearches(CatMemoryDBOffering)
  BY CatSearchForm, CatFieldNames DEF CatMemoryDBOffering, CatNodeAsks, CatSearches
<1>5. CatSearches(CatOpenSearchOffering)
  <2>1. CatOpenSearchOffering \in CatPicky
    BY DEF CatPicky
  <2>2. QED
    BY <2>1, CatSearchForm, CatFieldNames DEF CatOpenSearchOffering, CatDomainAsks, CatSearches
<1>6. CatSearches(CatConvertibleOffering)
  BY CatSearchForm, CatFieldNames DEF CatConvertibleOffering, CatSearches
<1>7. CatSearches(CatRedshiftOffering)
  <2>1. CatRedshiftOffering \in CatPicky
    BY DEF CatPicky
  <2>2. QED
    BY <2>1, CatSearchForm, CatFieldNames DEF CatRedshiftOffering, CatSearches
<1>8. QED
  BY <1>1, <1>2, <1>3, <1>4, <1>5, <1>6, <1>7, Zenon

\* The plans.
LEMMA CatPlansSensible ==
    /\ CatSearches(CatComputePlan)
    /\ \A named \in SUBSET {"family", "region"} : CatSearches(CatInstancePlan(named))
<1>1. CatSearches(CatComputePlan)
  BY CatSearchForm, CatFieldNames DEF CatComputePlan, CatPlanOffering, CatSearches
<1>2. ASSUME NEW named \in SUBSET {"family", "region"}
      PROVE  CatSearches(CatInstancePlan(named))
  <2> DEFINE asks == {"plan", "term", "payment"} \cup named
             agree == {"family", "region"} \ named
  <2>1. {"family", "region"} \cap (asks \cup agree) \subseteq asks \cup agree
    OBVIOUS
  <2> HIDE DEF asks, agree
  <2>2. CatSearches(CatPlanOffering(asks, agree))
    BY <2>1, CatSearchForm, CatFieldNames DEF CatPlanOffering, CatSearches
  <2>3. QED
    BY <2>2 DEF CatInstancePlan, asks, agree
<1>3. QED
  BY <1>1, <1>2

\* The details of an offering are looked for as the offering is.
LEMMA CatDetailsSensible ==
    /\ \A op \in {CatEC2Details, CatRDSDetails, CatElastiCacheDetails, CatMemoryDBDetails,
                  CatOpenSearchDetails, CatRedshiftDetails} : CatSearches(op)
    /\ CatSearches(CatPlanDetails)
<1>1. ASSUME NEW op, DOMAIN op = CatFields, CatSearches(op),
             op.kind = "search" => CatDetails(op) \in CatPicky \/ op.fail \subseteq op.api
      PROVE  CatSearches(CatDetails(op))
  BY <1>1, CatFieldNames DEF CatDetails, CatSearches
<1>2. CatOpenSearchDetails \in CatPicky /\ CatRedshiftDetails \in CatPicky
  BY DEF CatPicky
<1>3. CatSearches(CatEC2Details)
  <2>1. DOMAIN CatEC2Offering = CatFields /\ CatEC2Offering.fail \subseteq CatEC2Offering.api
    BY CatSearchForm DEF CatEC2Offering
  <2>2. QED
    BY <1>1, <2>1, CatSearchesSensible DEF CatEC2Details
<1>4. CatSearches(CatRDSDetails)
  <2>1. DOMAIN CatRDSOffering = CatFields /\ CatRDSOffering.fail \subseteq CatRDSOffering.api
    BY CatSearchForm DEF CatRDSOffering, CatRDSAsks
  <2>2. QED
    BY <1>1, <2>1, CatSearchesSensible DEF CatRDSDetails
<1>5. CatSearches(CatElastiCacheDetails)
  <2>1. /\ DOMAIN CatElastiCacheOffering = CatFields
        /\ CatElastiCacheOffering.fail \subseteq CatElastiCacheOffering.api
    BY CatSearchForm DEF CatElastiCacheOffering, CatNodeAsks
  <2>2. QED
    BY <1>1, <2>1, CatSearchesSensible DEF CatElastiCacheDetails
<1>6. CatSearches(CatMemoryDBDetails)
  <2>1. /\ DOMAIN CatMemoryDBOffering = CatFields
        /\ CatMemoryDBOffering.fail \subseteq CatMemoryDBOffering.api
    BY CatSearchForm DEF CatMemoryDBOffering, CatNodeAsks
  <2>2. QED
    BY <1>1, <2>1, CatSearchesSensible DEF CatMemoryDBDetails
<1>7. CatSearches(CatOpenSearchDetails)
  <2>1. DOMAIN CatOpenSearchOffering = CatFields
    BY CatSearchForm DEF CatOpenSearchOffering
  <2>2. QED
    BY <1>1, <1>2, <2>1, CatSearchesSensible DEF CatOpenSearchDetails
<1>8. CatSearches(CatRedshiftDetails)
  <2>1. DOMAIN CatRedshiftOffering = CatFields
    BY CatSearchForm, CatFieldNames DEF CatRedshiftOffering
  <2>2. QED
    BY <1>1, <1>2, <2>1, CatSearchesSensible DEF CatRedshiftDetails
<1>9. CatSearches(CatPlanDetails)
  <2>1. DOMAIN CatComputePlan = CatFields /\ CatComputePlan.kind = "choice"
    BY CatSearchForm, CatFieldNames DEF CatComputePlan, CatPlanOffering
  <2>2. QED
    BY <1>1, <2>1, CatPlansSensible DEF CatPlanDetails
<1>10. QED
  BY <1>3, <1>4, <1>5, <1>6, <1>7, <1>8, <1>9, Zenon

\* The commitments there are.
LEMMA CatCommitmentsSensible ==
    /\ CatListings(CatEC2Commitments) /\ CatListings(CatConvertibleRIs) /\ CatListings(CatLive)
    /\ CatListings(CatPlanCommitments) /\ CatListings(CatAzureCommitments)
    /\ CatListings(CatManagedRedisCommitments) /\ CatListings(CatSynapseCommitments)
    /\ CatListings(CatAzurePlanCommitments) /\ CatListings(CatCUDs)
<1>1. CatPlanCommitments \in CatKeepsAPart /\ CatAzureCommitments \in CatKeepsAPart
  BY DEF CatKeepsAPart
<1>2. CatListings(CatEC2Commitments)
  BY CatListForm DEF CatEC2Commitments, CatListings
<1>3. CatListings(CatConvertibleRIs)
  BY CatListForm DEF CatConvertibleRIs, CatListings
<1>4. CatListings(CatLive)
  BY CatListForm DEF CatLive, CatListings
<1>5. CatListings(CatPlanCommitments)
  BY <1>1, CatListForm, CatFieldNames DEF CatPlanCommitments, CatListings
<1>6. CatListings(CatAzureCommitments)
  BY <1>1, CatListForm, CatFieldNames DEF CatAzureCommitments, CatListings
<1>7. CatListings(CatManagedRedisCommitments) /\ CatListings(CatSynapseCommitments)
  BY CatListForm, CatFieldNames DEF CatManagedRedisCommitments, CatSynapseCommitments, CatListings
<1>8. CatListings(CatAzurePlanCommitments) /\ CatListings(CatCUDs)
  BY CatListForm, CatFieldNames DEF CatAzurePlanCommitments, CatCUDs, CatListings
<1>9. QED
  BY <1>2, <1>3, <1>4, <1>5, <1>6, <1>7, <1>8

\* A check against a list of types asks for what it filters.
LEMMA CatTypesForm ==
    ASSUME NEW skip, NEW cap, NEW noSource, NEW onNone
    PROVE  LET op == CatTypes(skip, cap, noSource, onNone) IN
             /\ DOMAIN op = CatFields
             /\ op.kind = "list" /\ op.asks = skip /\ op.api = {} /\ op.skip = skip
             /\ op.onCap = "error" /\ op.onFail = "error" /\ op.noSource = noSource
             /\ op.bills = "never"
  BY CatListForm, CatFieldNames DEF CatTypes

\* The types there are, the catalogues and the recommendations.
LEMMA CatTypesSensible ==
    /\ CatListings(CatAWSTypes)
    /\ CatListings(CatVMTypes) /\ CatListings(CatSQLTypes) /\ CatListings(CatCloudSQLTypes)
    /\ CatListings(CatMachineTypes) /\ CatListings(CatTolerantTypes)
    /\ CatListings(CatManagedRedisTypes)
    /\ CatListings(CatVMCatalogue) /\ CatListings(CatRedisCatalogue)
    /\ CatListings(CatSQLCatalogue) /\ CatListings(CatCosmosAPIs) /\ CatListings(CatSQLFleet)
    /\ \A asks : CatListings(CatRecommendations(asks))
    /\ \A asks : CatListings([CatRecommendations(asks) EXCEPT !.cap = 0])
<1>1. {CatTolerantTypes, CatVMCatalogue, CatRedisCatalogue, CatSQLCatalogue, CatCosmosAPIs,
       CatSQLFleet} \subseteq CatKeepsAPart
  BY DEF CatKeepsAPart
<1>2. CatListings(CatAWSTypes)
  BY CatTypesForm DEF CatAWSTypes, CatListings
<1>3. CatListings(CatVMTypes) /\ CatListings(CatSQLTypes) /\ CatListings(CatCloudSQLTypes)
  BY CatTypesForm DEF CatVMTypes, CatSQLTypes, CatCloudSQLTypes, CatListings
<1>4. CatListings(CatMachineTypes)
  BY CatTypesForm DEF CatMachineTypes, CatListings
<1>5. CatListings(CatTolerantTypes)
  BY <1>1, CatTypesForm, CatFieldNames DEF CatTolerantTypes, CatListings
<1>6. CatListings(CatManagedRedisTypes)
  BY CatTypesForm, CatFieldNames DEF CatManagedRedisTypes, CatListings
<1>7. ASSUME NEW asks, NEW cap, CatCatalogue(asks, cap) \in CatKeepsAPart
      PROVE  CatListings(CatCatalogue(asks, cap))
  BY <1>7, CatTypesForm, CatFieldNames DEF CatCatalogue, CatListings
<1>8. CatListings(CatVMCatalogue) /\ CatListings(CatRedisCatalogue)
  BY <1>1, <1>7 DEF CatVMCatalogue, CatRedisCatalogue
<1>9. CatListings(CatSQLCatalogue) /\ CatListings(CatCosmosAPIs)
  BY <1>1, <1>7 DEF CatSQLCatalogue, CatCosmosAPIs
<1>10. CatListings(CatSQLFleet)
  BY <1>1, CatTypesForm, CatFieldNames DEF CatSQLFleet, CatListings
<1>11. ASSUME NEW asks
       PROVE  /\ CatListings(CatRecommendations(asks))
              /\ CatListings([CatRecommendations(asks) EXCEPT !.cap = 0])
  BY CatListForm, CatFieldNames DEF CatRecommendations, CatListings
<1>12. QED
  BY <1>2, <1>3, <1>4, <1>5, <1>6, <1>8, <1>9, <1>10, <1>11

\* The quotes.
LEMMA CatQuotesSensible ==
    /\ CatPrices(CatVMDetails) /\ CatPrices(CatSQLDetails) /\ CatPrices(CatRedisDetails)
    /\ CatPrices(CatManagedRedisDetails) /\ CatPrices(CatSynapseDetails)
    /\ CatPrices(CatCosmosDetails) /\ CatPrices(CatSearchDetails)
    /\ CatPrices(CatSKUs) /\ CatPrices(CatSKUDetails)
<1> DEFINE asked == {"reservation", "term"}
           other == {"on demand"}
           Reads(op, api) == /\ op.kind = "quote" /\ op.asks = asked /\ op.api = api
                             /\ op.skip = asked /\ op.fail = other
                             /\ op.onFail = "error" /\ op.noSource = "never"
<1>1. asked \subseteq asked /\ "on demand" \in other /\ "term" \in asked
  OBVIOUS
<1>2. \A api, zeroes :
        CatRetail(api, zeroes) = [CatQuote(asked, api, asked, other, zeroes)
                                    EXCEPT !.cap = CatCap, !.onCap = "list"]
  BY DEF CatRetail
<1> HIDE DEF asked, other
<1>3. ASSUME NEW api, NEW zeroes, NEW bills
      PROVE  LET op == CatCharges(CatRetail(api, zeroes), bills)
             IN  Reads(op, api) /\ op.bills = bills
  <2> DEFINE op == [CatQuote(asked, api, asked, other, zeroes)
                      EXCEPT !.cap = CatCap, !.onCap = "list"]
  <2>1. DOMAIN op = CatFields /\ Reads(op, api)
    BY CatCappedForm
  <2>2. op = CatRetail(api, zeroes)
    BY <1>2, Zenon
  <2> HIDE DEF op
  <2>3. QED
    BY <2>1, <2>2, CatFieldNames DEF CatCharges
<1>4. ASSUME NEW op, NEW api, Reads(op, api),
             op \in {CatCosmosDetails, CatSearchDetails} \/ "sku" \in api,
             op.bills = "known" \/ op = CatManagedRedisDetails
      PROVE  CatPrices(op)
  <2>1. op.asks \subseteq op.api \cup op.skip /\ "term" \in op.asks
    BY <1>1, <1>4
  <2>2. "on demand" \in op.fail
    BY <1>1, <1>4, Zenon
  <2>3. \/ op \in {CatCosmosDetails, CatSearchDetails}
        \/ "sku" \in op.api \cup (op.skip \cap op.fail)
    BY <1>4
  <2>4. op.kind = "quote" /\ op.onFail = "error" /\ op.noSource \in {"never", "error"}
    BY <1>4
  <2>5. op.bills \in {"never", "known"} \/ op \in {CatManagedRedisDetails, CatSKUDetails}
    BY <1>4
  <2>6. QED
    BY <2>1, <2>2, <2>3, <2>4, <2>5, Zenon DEF CatPrices
<1> HIDE DEF Reads
<1>5. CatPrices(CatVMDetails) /\ CatPrices(CatSQLDetails) /\ CatPrices(CatRedisDetails)
  BY <1>3, <1>4 DEF CatVMPrice, CatSQLPrice, CatRedisPrice, CatVMDetails, CatSQLDetails,
                    CatRedisDetails
<1>6. CatPrices(CatSynapseDetails)
  <2> DEFINE all == ""
  <2>1. CatSynapseDetails = CatCharges(CatRetail({"sku"}, all), "known")
    BY DEF CatSynapseDetails, CatSynapsePrice
  <2> HIDE DEF all
  <2>2. QED
    BY <1>3, <1>4, <2>1
<1>7. CatPrices(CatManagedRedisDetails)
  BY <1>3, <1>4 DEF CatManagedRedisDetails, CatManagedRedisPrice
<1>8. CatPrices(CatCosmosDetails) /\ CatPrices(CatSearchDetails)
  <2>1. CatCosmosDetails \in {CatCosmosDetails, CatSearchDetails}
        /\ CatSearchDetails \in {CatCosmosDetails, CatSearchDetails}
    OBVIOUS
  <2>2. QED
    BY <1>3, <1>4, <2>1 DEF CatCosmosDetails, CatSearchDetails, CatCosmosPrice, CatSearchPrice
<1>9. CatPrices(CatSKUs) /\ CatPrices(CatSKUDetails)
  <2> DEFINE word == {"reservation"}
             line == {"reservation", "sku"}
             rest == {"sku"}
             none == {}
             text == ""
             op == CatQuote(word, none, line, rest, text)
  <2>1. CatSKUs = [op EXCEPT !.cap = 1, !.onCap = "list", !.noSource = "error"]
    BY DEF CatSKUs
  <2>2. /\ DOMAIN op = CatFields /\ op.kind = "quote" /\ op.onFail = "error"
        /\ op.asks = word /\ op.skip = line /\ op.fail = rest /\ op.bills = "never"
    <3> HIDE DEF word, line, rest, none, text
    <3>1. QED
      BY CatQuoteForm
  <2>3. word \subseteq line /\ "sku" \in line \cap rest
    OBVIOUS
  <2> HIDE DEF word, line, rest, op
  <2>4. /\ CatSKUs.kind = "quote" /\ CatSKUs.onFail = "error" /\ CatSKUs.noSource = "error"
        /\ CatSKUs.asks = word /\ CatSKUs.skip = line /\ CatSKUs.fail = rest
        /\ CatSKUs.bills = "never" /\ DOMAIN CatSKUs = CatFields
    BY <2>1, <2>2, CatFieldNames
  <2>5. CatSKUs.fail = {"sku"} /\ CatSKUs.skip = {"reservation", "sku"}
    BY <2>4 DEF line, rest
  <2>6. CatPrices(CatSKUs)
    BY <2>3, <2>4, <2>5 DEF CatPrices
  <2>7. \A field \in CatFields \ {"bills"} : CatSKUDetails[field] = CatSKUs[field]
    BY <2>4 DEF CatSKUDetails, CatCharges
  <2>8. /\ CatSKUDetails.kind = "quote" /\ CatSKUDetails.onFail = "error"
        /\ CatSKUDetails.noSource = "error" /\ CatSKUDetails.asks = word
        /\ CatSKUDetails.skip = line /\ CatSKUDetails.fail = rest
    BY <2>4, <2>7, CatFieldNames
  <2>9. CatPrices(CatSKUDetails)
    <3>1. CatSKUDetails.fail = {"sku"} /\ CatSKUDetails.skip = {"reservation", "sku"}
      BY <2>8 DEF line, rest
    <3>2. QED
      BY <2>3, <2>8, <3>1 DEF CatPrices
  <2>10. QED
    BY <2>6, <2>9
<1>10. QED
  BY <1>5, <1>6, <1>7, <1>8, <1>9

\* Whatever the clients read, they read it this way.
LEMMA CatOpsSensible == \A op \in CatOps : CatSensible(op)
<1>1. \A op \in CatOps :
        \/ op \in {CatEC2Offering, CatRDSOffering, CatElastiCacheOffering, CatMemoryDBOffering,
                   CatOpenSearchOffering, CatConvertibleOffering, CatRedshiftOffering}
        \/ op = CatComputePlan \/ op = CatPlanDetails
        \/ \E named \in SUBSET {"family", "region"} : op = CatInstancePlan(named)
        \/ op \in {CatEC2Details, CatRDSDetails, CatElastiCacheDetails, CatMemoryDBDetails,
                   CatOpenSearchDetails, CatRedshiftDetails}
        \/ op \in {CatEC2Commitments, CatConvertibleRIs, CatLive, CatPlanCommitments,
                   CatAzureCommitments, CatManagedRedisCommitments, CatSynapseCommitments,
                   CatAzurePlanCommitments, CatCUDs}
        \/ op \in {CatAWSTypes, CatVMTypes, CatSQLTypes, CatCloudSQLTypes, CatMachineTypes,
                   CatTolerantTypes, CatManagedRedisTypes, CatVMCatalogue, CatRedisCatalogue,
                   CatSQLCatalogue, CatCosmosAPIs, CatSQLFleet}
        \/ \E asks : \/ op = CatRecommendations(asks)
                     \/ op = [CatRecommendations(asks) EXCEPT !.cap = 0]
        \/ op \in {CatVMDetails, CatSQLDetails, CatRedisDetails, CatManagedRedisDetails,
                   CatSynapseDetails, CatCosmosDetails, CatSearchDetails, CatSKUs, CatSKUDetails}
  BY DEF CatOps, CatRDSCommitments, CatElastiCacheCommitments, CatMemoryDBCommitments,
         CatOpenSearchCommitments, CatRedshiftCommitments, CatRedisCommitments,
         CatVMCommitments, CatCosmosCommitments, CatSQLCommitments, CatSearchCommitments,
         CatEC2Types, CatRDSTypes, CatElastiCacheTypes, CatMemoryDBTypes, CatRedshiftTypes,
         CatRedisTypes, CatCosmosTypes, CatSearchTypes, CatVMRecommendations,
         CatRedisRecommendations, CatCosmosRecommendations, CatSQLRecommendations,
         CatManagedRedisRecommendations, CatSynapseRecommendations,
         CatCloudSQLRecommendations, CatStorageRecommendations,
         CatMemorystoreRecommendations, CatComputeRecommendations,
         CatCloudSQLPrice, CatStoragePrice, CatMemorystorePrice, CatComputePrice,
         CatCloudSQLDetails, CatStorageDetails, CatMemorystoreDetails, CatComputeDetails
<1>2. QED
  BY <1>1, CatSearchesSensible, CatPlansSensible, CatDetailsSensible, CatCommitmentsSensible,
     CatTypesSensible, CatQuotesSensible, Zenon DEF CatSensible

\* The pages of an operation hold entries a service can answer its request with.
CatInv ==
    /\ catOp \in CatOps /\ catSeen \in Seq(CatEntries(catOp))
    /\ CatHonest

\* An entry has what is in the request; a price line is one of a few.
LEMMA CatSeenFacts ==
    ASSUME NEW op, NEW seen \in Seq(CatEntries(op)), NEW i \in DOMAIN seen
    PROVE  /\ i \in 1 .. Len(seen)
           /\ op.api \subseteq seen[i].fits
           /\ op.kind = "quote" => seen[i].fits \in CatLines /\ seen[i].price \in {0, 1}
           /\ op.kind # "quote" => seen[i].fits \subseteq op.asks \cup op.agree
<1>1. i \in 1 .. Len(seen) /\ seen[i] \in CatEntries(op)
  OBVIOUS
<1>2. QED
  BY <1>1 DEF CatEntries, CatFits

\* Nothing is said of a walk that goes on, or ends with nothing found.
LEMMA CatSilent ==
    ASSUME \/ catAns' \in {CatOpen, [is |-> "common"]}
           \/ /\ catAns'.is = "error"
              /\ catOp'.kind = "search" => catAns'.why \notin {"nothing", "mismatch"}
    PROVE  CatHonest'
<1>1. /\ catAns'.is \notin {"found", "described", "listed", "quoted", "charged"}
      /\ catAns'.is = "error" =>
            (catOp'.kind = "search" => catAns'.why \notin {"nothing", "mismatch"})
  BY DEF CatOpen
<1>2. CatFindsTheOffering' /\ CatListsAll' /\ CatChargesAsAsked'
  BY <1>1 DEF CatFindsTheOffering, CatListsAll, CatChargesAsAsked
<1>3. CatQuotesALine'
  BY <1>1, Zenon DEF CatQuotesALine
<1>4. QED
  BY <1>2, <1>3 DEF CatHonest

\* A listing that is answered with has what was asked for, and all of it.
LEMMA CatListedHonest ==
    ASSUME CatListings(catOp), UNCHANGED catOp, catSeen' \in Seq(CatEntries(catOp)),
           NEW whole \in BOOLEAN, whole \/ catOp \in CatKeepsAPart, catAns' = CatListed(whole)
    PROVE  CatHonest'
<1> DEFINE wanted == {i \in DOMAIN catSeen' : catOp.asks \subseteq catSeen'[i].fits}
<1>1. catOp.kind = "list"
  BY DEF CatListings
<1>2. CASE catAns' = [is |-> "common"] \/ catAns' = CatError("nothing")
  BY <1>1, <1>2, CatSilent DEF CatError
<1>3. CASE catAns' = [is |-> "listed", of |-> CatFitting(catOp.skip), whole |-> whole]
  <2>1. CatFitting(catOp.skip) = wanted
    BY CatSeenFacts DEF CatFitting, CatListings
  <2>2. catAns'.is = "listed" /\ catAns'.of = wanted /\ catAns'.whole = whole
    BY <1>3, <2>1
  <2>3. QED
    BY <1>1, <2>2 DEF CatHonest, CatFindsTheOffering, CatListsAll, CatQuotesALine,
             CatChargesAsAsked
<1>4. QED
  BY <1>2, <1>3 DEF CatListed

\* An empty listing is given for one that was not read only where that is known.
LEMMA CatNothingHonest ==
    ASSUME CatListings(catOp), UNCHANGED catOp, catOp \in CatKeepsAPart,
           catAns' = [is |-> "listed", of |-> {}, whole |-> FALSE]
    PROVE  CatHonest'
<1>1. catOp.kind = "list"
  BY DEF CatListings
<1>2. QED
  BY <1>1 DEF CatHonest, CatFindsTheOffering, CatListsAll, CatQuotesALine,
             CatChargesAsAsked

\* There is a last one of some entries.
LEMMA CatLastIn ==
    ASSUME NEW n \in Nat, NEW S, S \subseteq 1 .. n, S # {}
    PROVE  CatLast(S) \in S
<1>1. S \subseteq 0 .. n
  OBVIOUS
<1>2. PICK i \in S : \A j \in S : j <= i
  BY <1>1, NatMax
<1>3. QED
  BY <1>2 DEF CatLast

\* And a first one.
LEMMA CatFirstIn ==
    ASSUME NEW n \in Nat, NEW S, S \subseteq 1 .. n, S # {}
    PROVE  CatFirst(S) \in S
<1>1. S \subseteq Nat
  OBVIOUS
<1>2. PICK i \in S : \A j \in S : i <= j
  BY <1>1, NatMin
<1>3. QED
  BY <1>2 DEF CatFirst

\* A quote is a commitment price and another one.
LEMMA CatQuotedHonest ==
    ASSUME CatPrices(catOp), UNCHANGED catOp, catSeen' \in Seq(CatEntries(catOp)),
           catAns' = CatQuoted
    PROVE  CatHonest'
<1>1. catOp.kind = "quote"
  BY DEF CatPrices
<1>2. CASE catAns' = CatError("no price")
  <2>1. catAns'.is = "error"
    <3>1. CatError("no price").is = "error"
      BY DEF CatError
    <3>2. QED
      BY <1>2, <3>1, Zenon
  <2>2. catOp'.kind # "search"
    BY <1>1
  <2>3. QED
    BY <2>1, <2>2, CatSilent
<1>3. CASE catAns' # CatError("no price")
  <2> DEFINE ris == CatCounted \cap CatFitting(catOp.skip)
             ods == (CatCounted \cap CatFitting(catOp.fail)) \ CatFitting(catOp.skip)
  <2>1. /\ ris # {} /\ ods # {}
        /\ catSeen'[CatLast(ris)].price # 0 /\ catSeen'[CatLast(ods)].price # 0
        /\ catAns' = [is |-> "quoted", ri |-> CatLast(ris), od |-> CatLast(ods)]
    BY <1>3 DEF CatQuoted
  <2>2. Len(catSeen') \in Nat /\ DOMAIN catSeen' = 1 .. Len(catSeen')
    OBVIOUS
  <2>3. ris \subseteq DOMAIN catSeen' /\ ods \subseteq DOMAIN catSeen'
    BY DEF CatFitting
  <2>4. CatLast(ris) \in ris /\ CatLast(ods) \in ods
    <3> HIDE DEF ris, ods
    <3>1. QED
      BY <2>1, <2>2, <2>3, CatLastIn
  <2>5. PICK ri \in ris : catAns'.ri = ri /\ catSeen'[ri].price # 0
    BY <2>1, <2>4
  <2>6. PICK od \in ods : catAns'.od = od /\ catSeen'[od].price # 0
    BY <2>1, <2>4
  <2>7. /\ ri \in DOMAIN catSeen' /\ catOp.skip \subseteq catSeen'[ri].fits
        /\ catOp.api \subseteq catSeen'[ri].fits
        /\ catSeen'[ri].fits \in CatLines /\ catSeen'[ri].price > 0
    BY <1>1, <2>3, <2>5, CatSeenFacts DEF CatFitting
  <2>8. /\ od \in DOMAIN catSeen' /\ catOp.fail \subseteq catSeen'[od].fits
        /\ ~(catOp.skip \subseteq catSeen'[od].fits)
        /\ catOp.api \subseteq catSeen'[od].fits
        /\ catSeen'[od].fits \in CatLines /\ catSeen'[od].price > 0
    BY <1>1, <2>3, <2>6, CatSeenFacts DEF CatFitting
  <2>9. catOp.asks \subseteq catSeen'[ri].fits
    BY <2>7 DEF CatPrices
  <2>10. "on demand" \in catSeen'[od].fits
    BY <2>8 DEF CatPrices, CatLines
  <2>11. catOp \notin {CatCosmosDetails, CatSearchDetails} =>
            "sku" \in catSeen'[ri].fits \cap catSeen'[od].fits
    BY <2>7, <2>8 DEF CatPrices
  <2>12. CatQuotesALine'
    BY <2>5, <2>6, <2>7, <2>8, <2>9, <2>10, <2>11 DEF CatQuotesALine
  <2>13. catAns'.is = "quoted"
    BY <2>1
  <2>14. QED
    BY <1>1, <2>12, <2>13 DEF CatHonest, CatFindsTheOffering, CatListsAll, CatChargesAsAsked
<1>4. QED
  BY <1>2, <1>3

\* The first entry a search does not pass over is the offering, or another one.
LEMMA CatScannedHonest ==
    ASSUME CatSearches(catOp), UNCHANGED catOp, catSeen' \in Seq(CatEntries(catOp)),
           catOp.kind = "search", CatDecisive # {}, catAns' = CatScanned
    PROVE  CatHonest'
<1>1. Len(catSeen') \in Nat /\ DOMAIN catSeen' = 1 .. Len(catSeen')
  OBVIOUS
<1>2. CatFirst(CatDecisive) \in CatDecisive
  <2>1. CatDecisive \subseteq DOMAIN catSeen'
    BY DEF CatDecisive, CatFitting
  <2>2. QED
    BY <1>1, <2>1, CatFirstIn
<1>3. PICK at \in CatDecisive : at = CatFirst(CatDecisive)
  BY <1>2
<1>4. at \in DOMAIN catSeen' /\ catOp.api \subseteq catSeen'[at].fits
  BY CatSeenFacts DEF CatDecisive, CatFitting
<1>5. CASE at \in CatFitting(catOp.fail)
  <2>1. catAns'.is = "found" /\ catAns'.at = at
    BY <1>3, <1>5 DEF CatScanned
  <2>2. catOp.asks \subseteq catSeen'[at].fits
    BY <1>4, <1>5 DEF CatDecisive, CatFitting, CatSearches
  <2>3. QED
    BY <2>1, <2>2 DEF CatHonest, CatFindsTheOffering, CatListsAll, CatQuotesALine,
             CatChargesAsAsked
<1>6. CASE at \notin CatFitting(catOp.fail)
  <2>1. catAns'.is = "error"
    BY <1>3, <1>6 DEF CatScanned, CatError
  <2>2. ~(catOp.fail \subseteq catOp.api)
    BY <1>4, <1>6 DEF CatFitting
  <2>3. catOp \in CatPicky
    BY <2>2 DEF CatSearches
  <2>4. QED
    BY <2>1, <2>3 DEF CatHonest, CatFindsTheOffering, CatListsAll, CatQuotesALine,
             CatChargesAsAsked, CatPicky
<1>7. QED
  BY <1>5, <1>6

\* A listing that was searched to its end does not have the offering.
LEMMA CatMissedHonest ==
    ASSUME CatSearches(catOp), UNCHANGED catOp,
           catOp.kind = "search", CatDecisive = {}, catAns' = CatError("nothing")
    PROVE  CatHonest'
<1>1. \A i \in DOMAIN catSeen' : ~(catOp.asks \subseteq catSeen'[i].fits)
  BY DEF CatDecisive, CatFitting, CatSearches
<1>2. QED
  BY <1>1 DEF CatHonest, CatFindsTheOffering, CatListsAll, CatQuotesALine,
             CatChargesAsAsked, CatError

\* A plan is chosen among those of one family and region.
LEMMA CatChosenHonest ==
    ASSUME CatSearches(catOp), UNCHANGED catOp, catSeen' \in Seq(CatEntries(catOp)),
           catOp.kind = "choice", catAns' \in CatChoices
    PROVE  CatHonest'
<1>1. CASE catAns' \in {CatError("nothing"), CatError("ambiguous")}
  BY <1>1, CatSilent DEF CatError
<1>2. ASSUME NEW at \in DOMAIN catSeen', CatAgreed, catAns' = [is |-> "found", at |-> at]
      PROVE  CatHonest'
  <2>1. \A i \in DOMAIN catSeen' :
           /\ catOp.api \subseteq catSeen'[i].fits
           /\ catSeen'[i].fits \subseteq catOp.asks \cup catOp.agree
    BY CatSeenFacts
  <2>2. catOp.asks \subseteq catSeen'[at].fits
    BY <2>1 DEF CatSearches
  <2>3. ASSUME NEW i \in DOMAIN catSeen'
        PROVE  catSeen'[i].fits \cap {"family", "region"} =
                   catSeen'[at].fits \cap {"family", "region"}
    <3>1. catSeen'[i].fits \cap catOp.agree = catSeen'[at].fits \cap catOp.agree
      BY <1>2 DEF CatAgreed
    <3>2. {"family", "region"} \cap (catOp.asks \cup catOp.agree) \subseteq catOp.api \cup catOp.agree
      BY DEF CatSearches
    <3>3. QED
      BY <2>1, <3>1, <3>2
  <2>4. catAns'.is = "found" /\ catAns'.at = at
    BY <1>2
  <2>5. QED
    BY <2>2, <2>3, <2>4 DEF CatHonest, CatFindsTheOffering, CatListsAll, CatQuotesALine,
             CatChargesAsAsked
<1>3. QED
  BY <1>1, <1>2 DEF CatChoices

\* A page is read, the last one or not.
LEMMA CatPageStep ==
    ASSUME CatInv, NEW page \in CatPagesOf(catOp), NEW more \in BOOLEAN, CatPage(page, more)
    PROVE  CatInv'
<1>1. UNCHANGED catOp /\ catOp \in CatOps /\ CatSensible(catOp)
  BY CatOpsSensible DEF CatPage, CatInv
<1>2. catSeen' \in Seq(CatEntries(catOp))
  <2>1. PICK n \in 0 .. CatPageSize : page \in [1 .. n -> CatEntries(catOp)]
    BY DEF CatPagesOf
  <2>2. page \in Seq(CatEntries(catOp))
    BY <2>1, CatAssumption
  <2>3. catSeen' = catSeen \o page /\ catSeen \in Seq(CatEntries(catOp))
    BY DEF CatPage, CatInv
  <2>4. QED
    BY <2>2, <2>3
<1>3. CASE catOp.kind = "search" /\ CatDecisive # {}
  <2>1. catAns' = CatScanned /\ CatSearches(catOp)
    BY <1>1, <1>3 DEF CatPage, CatSensible, CatListings, CatPrices
  <2>2. QED
    BY <1>1, <1>2, <1>3, <2>1, CatScannedHonest DEF CatInv
<1>4. CASE ~(catOp.kind = "search" /\ CatDecisive # {}) /\ more
  <2>1. catAns' = CatOpen
    BY <1>4 DEF CatPage
  <2>2. QED
    BY <1>1, <1>2, <2>1, CatSilent DEF CatInv
<1>5. CASE ~(catOp.kind = "search" /\ CatDecisive # {}) /\ ~more
  <2>1. catAns' \in CatEndings
    BY <1>5 DEF CatPage
  <2>2. CASE CatSearches(catOp) /\ catOp.kind = "search"
    BY <1>1, <1>2, <1>5, <2>1, <2>2, CatMissedHonest DEF CatInv, CatEndings
  <2>3. CASE CatSearches(catOp) /\ catOp.kind = "choice"
    BY <1>1, <1>2, <2>1, <2>3, CatChosenHonest DEF CatInv, CatEndings
  <2>4. CASE CatListings(catOp)
    <3>1. catAns' = CatListed(TRUE)
      BY <2>1, <2>4 DEF CatEndings, CatListings
    <3>2. QED
      BY <1>1, <1>2, <2>4, <3>1, CatListedHonest DEF CatInv
  <2>5. CASE CatPrices(catOp)
    <3>1. catAns' = CatQuoted
      BY <2>1, <2>5 DEF CatEndings, CatPrices
    <3>2. QED
      BY <1>1, <1>2, <2>5, <3>1, CatQuotedHonest DEF CatInv
  <2>6. QED
    BY <1>1, <2>2, <2>3, <2>4, <2>5 DEF CatSensible, CatSearches
<1>6. QED
  BY <1>3, <1>4, <1>5

\* A page cannot be read.
LEMMA CatPageFailsStep ==
    ASSUME CatInv, CatPageFails
    PROVE  CatInv'
<1>1. UNCHANGED <<catOp, catSeen>> /\ catOp \in CatOps /\ CatSensible(catOp)
      /\ catSeen' \in Seq(CatEntries(catOp))
  BY CatOpsSensible DEF CatPageFails, CatInv
<1>2. CASE catOp.onFail \in {"error", "common"}
  <2>1. catAns' \in {CatError("page"), [is |-> "common"]}
    BY <1>2 DEF CatPageFails
  <2>2. QED
    BY <1>1, <2>1, CatSilent DEF CatInv, CatError
<1>3. CASE catOp.onFail \notin {"error", "common"}
  <2>1. CatListings(catOp) /\ catOp \in CatKeepsAPart
    BY <1>1, <1>3 DEF CatSensible, CatSearches, CatPrices, CatListings
  <2>2. CASE catOp.onFail = "list"
    <3>1. catAns' = CatListed(FALSE)
      BY <2>2 DEF CatPageFails
    <3>2. QED
      BY <1>1, <2>1, <3>1, CatListedHonest DEF CatInv
  <2>3. CASE catOp.onFail = "nothing"
    <3>1. catAns' = [is |-> "listed", of |-> {}, whole |-> FALSE]
      BY <2>3 DEF CatPageFails
    <3>2. QED
      BY <1>1, <2>1, <3>1, CatNothingHonest DEF CatInv
  <2>4. CASE catOp.onFail \notin {"list", "nothing"}
    <3>1. catAns' = CatError("page")
      BY <1>3, <2>4 DEF CatPageFails
    <3>2. QED
      BY <1>1, <3>1, CatSilent DEF CatInv, CatError
  <2>5. QED
    BY <2>2, <2>3, <2>4
<1>4. QED
  BY <1>2, <1>3

\* The cap is reached.
LEMMA CatAtCapStep ==
    ASSUME CatInv, CatAtCap
    PROVE  CatInv'
<1>1. UNCHANGED <<catOp, catSeen>> /\ catOp \in CatOps /\ CatSensible(catOp)
      /\ catSeen' \in Seq(CatEntries(catOp))
  BY CatOpsSensible DEF CatAtCap, CatInv
<1>2. CASE CatPrices(catOp)
  <2>1. catOp.kind = "quote"
    BY <1>2 DEF CatPrices
  <2>2. catAns' = CatQuoted
    BY <2>1 DEF CatAtCap
  <2>3. QED
    BY <1>1, <1>2, <2>2, CatQuotedHonest DEF CatInv
<1>3. CASE ~CatPrices(catOp) /\ catOp.kind # "quote" /\ catOp.onCap = "list"
  <2>1. CatListings(catOp) /\ catOp \in CatKeepsAPart
    BY <1>1, <1>3 DEF CatSensible, CatSearches, CatListings
  <2>2. catAns' = CatListed(FALSE)
    BY <1>3 DEF CatAtCap
  <2>3. QED
    BY <1>1, <2>1, <2>2, CatListedHonest DEF CatInv
<1>4. CASE catOp.kind # "quote" /\ catOp.onCap # "list"
  <2>1. catAns' = CatError("cap")
    BY <1>4 DEF CatAtCap
  <2>2. QED
    BY <1>1, <2>1, CatSilent DEF CatInv, CatError
<1>5. CASE catOp.kind = "quote" /\ ~CatPrices(catOp)
  BY <1>1, <1>5 DEF CatSensible, CatSearches, CatListings
<1>6. QED
  BY <1>2, <1>3, <1>4, <1>5

\* There is nothing to read from.
LEMMA CatNoSourceStep ==
    ASSUME CatInv, CatNoSource
    PROVE  CatInv'
<1>1. UNCHANGED <<catOp, catSeen>> /\ catOp \in CatOps /\ CatSensible(catOp)
      /\ catSeen' \in Seq(CatEntries(catOp))
  BY CatOpsSensible DEF CatNoSource, CatInv
<1>2. CASE catOp.noSource \in {"error", "common"}
  <2>1. catAns' \in {CatError("source"), [is |-> "common"]}
    BY <1>2 DEF CatNoSource
  <2>2. QED
    BY <1>1, <2>1, CatSilent DEF CatInv, CatError
<1>3. CASE catOp.noSource \notin {"error", "common"}
  <2>1. catOp.noSource # "never" /\ catAns' = [is |-> "listed", of |-> {}, whole |-> FALSE]
    BY <1>3 DEF CatNoSource
  <2>2. CatListings(catOp) /\ catOp \in CatKeepsAPart
    BY <1>1, <1>3, <2>1 DEF CatSensible, CatSearches, CatPrices, CatListings
  <2>3. QED
    BY <1>1, <2>1, <2>2, CatNothingHonest DEF CatInv
<1>4. QED
  BY <1>2, <1>3

\* What was found is asked for once more.
LEMMA CatDescribeStep ==
    ASSUME CatInv, NEW outcome \in {"known", "unknown", "call"}, CatDescribe(outcome)
    PROVE  CatInv'
<1>1. UNCHANGED <<catOp, catSeen>> /\ catAns.is = "found"
  BY DEF CatDescribe, CatAnswer
<1>2. CASE outcome = "known"
  <2>1. catAns' = [catAns EXCEPT !.is = "described"]
    BY <1>2 DEF CatDescribe, CatAnswer
  <2>2. catAns'.is \in {"described", "found"} /\ catAns'.at = catAns.at
    BY <1>1, <2>1
  <2>3. QED
    BY <1>1, <2>2 DEF CatInv, CatHonest, CatFindsTheOffering, CatListsAll, CatQuotesALine,
             CatChargesAsAsked
<1>3. CASE outcome # "known"
  <2>1. catAns' \in {CatError("unknown"), CatError("call")}
    BY <1>3 DEF CatDescribe, CatAnswer
  <2>2. QED
    BY <1>1, <2>1, CatSilent DEF CatInv, CatError
<1>4. QED
  BY <1>2, <1>3

\* A term that is looked at, and is none.
LEMMA CatBadTermStep ==
    ASSUME CatInv, CatBadTerm
    PROVE  CatInv'
<1>1. UNCHANGED <<catOp, catSeen>> /\ catAns' = CatError("term")
  BY DEF CatBadTerm, CatAnswer
<1>2. QED
  BY <1>1, CatSilent DEF CatInv, CatError

\* What was quoted is charged, for a term and by an option that are known or taken.
LEMMA CatChargeStep ==
    ASSUME CatInv, NEW term \in CatTerms, NEW payment \in CatPayments, CatCharge(term, payment)
    PROVE  CatInv'
<1>1. UNCHANGED <<catOp, catSeen>> /\ catOp.bills # "never" /\ catAns.is = "quoted"
  BY DEF CatCharge, CatAnswer
<1>2. CatPrices(catOp)
  BY <1>1, CatOpsSensible DEF CatInv, CatSensible, CatSearches, CatListings
<1>3. CASE payment = "other" /\ catOp.bills = "known"
  <2>1. catAns' = CatError("payment")
    BY <1>3 DEF CatCharge, CatAnswer
  <2>2. QED
    BY <1>1, <2>1, CatSilent DEF CatInv, CatError
<1>4. CASE ~(payment = "other" /\ catOp.bills = "known")
  <2>1. /\ catAns'.is = "charged" /\ catAns'.ri = catAns.ri /\ catAns'.od = catAns.od
        /\ catAns'.term = term /\ catAns'.payment = payment
        /\ catAns'.months = IF payment = "monthly" THEN CatMonths(term) ELSE 0
    BY <1>4 DEF CatCharge, CatAnswer
  <2>2. payment = "other" => catOp \in {CatManagedRedisDetails, CatSKUDetails}
    BY <1>1, <1>2, <1>4 DEF CatPrices
  <2>3. term = "other" => catOp = CatSKUDetails
    BY <1>1, <1>2 DEF CatPrices, CatCharge, CatLooksAtTheTerm
  <2>4. catOp.asks \subseteq catSeen[catAns.ri].fits /\ CatQuotesALine'
    BY <1>1, <2>1 DEF CatInv, CatHonest, CatQuotesALine
  <2>5. catOp = CatSKUDetails \/ "term" \in catSeen[catAns.ri].fits
    BY <1>1, <1>2, <2>4 DEF CatPrices
  <2>6. CatChargesAsAsked'
    BY <1>1, <2>1, <2>2, <2>3, <2>5 DEF CatChargesAsAsked
  <2>7. QED
    BY <1>1, <2>1, <2>4, <2>6 DEF CatInv, CatHonest, CatFindsTheOffering, CatListsAll
<1>5. QED
  BY <1>3, <1>4

\* Whatever the pages hold, and however the walk ends.
LEMMA CatStarts == CatInit => CatInv
<1> SUFFICES ASSUME CatInit PROVE CatInv
  OBVIOUS
<1>1. catSeen \in Seq(CatEntries(catOp))
  BY DEF CatInit
<1>2. CatHonest
  BY DEF CatInit, CatOpen, CatHonest, CatFindsTheOffering, CatListsAll, CatQuotesALine,
             CatChargesAsAsked
<1>3. QED
  BY <1>1, <1>2 DEF CatInit, CatInv

\* Every step answers so.
LEMMA CatStays == CatInv /\ [CatNext]_catVars => CatInv'
<1> SUFFICES ASSUME CatInv, [CatNext]_catVars PROVE CatInv'
  OBVIOUS
<1>1. CASE CatNext
  BY <1>1, CatPageStep, CatPageFailsStep, CatAtCapStep, CatNoSourceStep, CatDescribeStep,
     CatBadTermStep, CatChargeStep DEF CatNext
<1>2. CASE UNCHANGED catVars
  <2>1. catOp' = catOp /\ catSeen' = catSeen /\ catAns' = catAns
    BY <1>2 DEF catVars
  <2>2. CatFindsTheOffering = CatFindsTheOffering' /\ CatListsAll = CatListsAll'
    BY <2>1 DEF CatFindsTheOffering, CatListsAll
  <2>3. CatQuotesALine = CatQuotesALine'
    BY <2>1, Zenon DEF CatQuotesALine
  <2>4. CatChargesAsAsked = CatChargesAsAsked'
    BY <2>1 DEF CatChargesAsAsked
  <2>5. QED
    BY <2>1, <2>2, <2>3, <2>4 DEF CatInv, CatHonest
<1>3. QED
  BY <1>1, <1>2

\* An offering that is found has all the recommendation names, a listing holds what
\* was asked for, and a quote is a commitment price and a price on demand
\* (findOfferingID, GetExistingCommitments, extractAzurePricing and their like): for
\* every operation, however many pages of however many entries a cloud answers with.
THEOREM CatalogHonest == CatSpec => []CatHonest
<1>1. CatInv => CatHonest
  BY DEF CatInv
<1>2. QED
  BY CatStarts, CatStays, <1>1, PTL DEF CatSpec

================================================================================
