-------------------------------- MODULE Reshape --------------------------------
(* What an underutilized convertible reservation is advised to be exchanged for: *)
(* a size and a number that fit what is used of it, and offerings of other       *)
(* families in the order of a score. Sizes are counted in quarters of a          *)
(* normalized unit, scores in thousandths.                                       *)
EXTENDS Integers, SequencesExt

CONSTANTS
    RshRIs,         \* reservations, with what is known of their use
    RshOffers,      \* offerings of the cached recommendations
    RshThreshold,   \* percent below which a reservation is underutilized
    RshNone

ASSUME RshAssumption ==
    /\ \A ri \in RshRIs :
          ri.factor \in Nat /\ ri.count \in Nat /\ ri.cost \in Nat /\ ri.used \in Nat \cup {RshNone}
    /\ \A off \in RshOffers : off.factor \in Nat /\ off.cost \in Nat

VARIABLES
    rshRI,
    rshAt,
    rshRec,         \* the advice: the size, the number, and the alternatives
    rshOffers       \* what the cache has
rshVars == <<rshRI, rshAt, rshRec, rshOffers>>

RshSizes ==
    <<[size |-> "nano", factor |-> 1], [size |-> "micro", factor |-> 2],
      [size |-> "small", factor |-> 4], [size |-> "medium", factor |-> 8],
      [size |-> "large", factor |-> 16], [size |-> "xlarge", factor |-> 32],
      [size |-> "2xlarge", factor |-> 64], [size |-> "3xlarge", factor |-> 96],
      [size |-> "4xlarge", factor |-> 128], [size |-> "6xlarge", factor |-> 192],
      [size |-> "8xlarge", factor |-> 256], [size |-> "9xlarge", factor |-> 288],
      [size |-> "10xlarge", factor |-> 320], [size |-> "12xlarge", factor |-> 384],
      [size |-> "16xlarge", factor |-> 512], [size |-> "18xlarge", factor |-> 576],
      [size |-> "24xlarge", factor |-> 768], [size |-> "metal", factor |-> 768]>>

\* Of a size that is not in the table nothing is known.
RshTable(size) ==
    IF \E i \in DOMAIN RshSizes : RshSizes[i].size = size
    THEN (CHOOSE s \in ToSet(RshSizes) : s.size = size).factor ELSE 0

RshInit ==
    /\ rshRI \in RshRIs
    /\ rshAt = "given"
    /\ rshRec = RshNone /\ rshOffers = {}
------------------------------------------------------------------------------
(* The size. *)
RshFactor(ri) == IF ri.factor # 0 THEN ri.factor ELSE RshTable(ri.size)

\* In hundredths of a quarter of a unit.
RshUsed(ri) == RshFactor(ri) * ri.count * ri.used

\* Mutant: the number is rounded down.
RshBestFitFloor(used) ==
    LET fits == {i \in DOMAIN RshSizes : RshSizes[i].factor * 100 <= used}
        best == RshSizes[Max(fits)]
    IN  IF fits = {} THEN [size |-> "nano", count |-> 1]
        ELSE [size |-> best.size, count |-> used \div (best.factor * 100)]

\* findBestFit: the last size that is not above the use, as often as it takes.
RshBestFit(used) ==
    LET fits == {i \in DOMAIN RshSizes : RshSizes[i].factor * 100 <= used}
        best == RshSizes[Max(fits)]
        per == best.factor * 100
    IN  IF fits = {} THEN [size |-> "nano", count |-> 1]
        ELSE [size |-> best.size, count |-> (used + per - 1) \div per]

RshUnderused(ri) ==
    ri.class = "convertible" /\ ri.used # RshNone /\ ri.used < RshThreshold /\ RshFactor(ri) # 0

\* analyzeRI: nothing for one that fits; for one that is not used, no target.
RshAnalyze ==
    LET fit == RshBestFit(RshUsed(rshRI)) IN
    /\ rshAt = "given"
    /\ \/ /\ RshUnderused(rshRI) /\ RshUsed(rshRI) = 0
          /\ rshRec' = [size |-> RshNone, count |-> 0, others |-> <<>>] /\ rshAt' = "advised"
       \/ /\ RshUnderused(rshRI) /\ RshUsed(rshRI) > 0
          /\ fit # [size |-> rshRI.size, count |-> rshRI.count]
          /\ rshRec' = [size |-> fit.size, count |-> fit.count, others |-> <<>>] /\ rshAt' = "advised"
       \/ /\ RshUnderused(rshRI) =>
              RshUsed(rshRI) > 0 /\ fit = [size |-> rshRI.size, count |-> rshRI.count]
          /\ rshAt' = "done" /\ UNCHANGED rshRec
    /\ UNCHANGED <<rshRI, rshOffers>>
------------------------------------------------------------------------------
(* Other families. *)
RshARM(family) == family.prefix \notin {"im", "is"} /\ family.suffix \in {"g", "gd", "gn"}

\* Mutant: the score of the cost grows with it.
RshCostInverted(off, ri) ==
    IF ri.cost = 0 \/ off.cost = 0 THEN 500 ELSE (1000 * off.cost) \div (ri.cost + off.cost)

RshCost(off, ri) ==
    IF ri.cost = 0 \/ off.cost = 0 THEN 500 ELSE (1000 * ri.cost) \div (ri.cost + off.cost)
RshGeneration(off, ri) == IF off.family.prefix = ri.family.prefix THEN 1000 ELSE 0
RshArch(off, ri) == IF RshARM(off.family) = RshARM(ri.family) THEN 1000 ELSE 0
RshConfidence(off) ==
    IF off.savings = RshNone \/ off.count = 0 THEN 500
    ELSE IF off.savings >= 200 /\ off.count >= 3 THEN 1000
    ELSE IF off.savings >= 50 THEN 500 ELSE 0
RshNear(off, ri) ==
    LET f == RshFactor(ri)
        d == IF off.factor > f THEN off.factor - f ELSE f - off.factor
    IN  IF f = 0 \/ off.factor = 0 THEN 500
        ELSE IF d >= f THEN 0 ELSE 1000 - (1000 * d) \div f

RshScore(off, ri) ==
    60 * RshCost(off, ri) + 15 * RshGeneration(off, ri) + 10 * RshArch(off, ri)
      + 10 * RshConfidence(off) + 5 * RshNear(off, ri)

\* passesDollarUnitsCheck, where the price of the reservation is known.
RshWorthAsMuch(off, ri) ==
    ri.cost > 0 =>
        /\ RshNone \in {ri.currency, off.currency} \/ ri.currency = off.currency
        /\ RshFactor(ri) > 0 /\ off.cost > 0 /\ off.factor > 0
        /\ off.factor * off.cost >= RshFactor(ri) * ri.cost

RshEligible(off, ri) ==
    /\ off.family # ri.family
    /\ 0 \in {off.term, ri.term} \/ off.term = ri.term
    /\ RshWorthAsMuch(off, ri)

RshBefore(ri, a, b) ==
    \/ RshScore(a, ri) > RshScore(b, ri)
    \/ RshScore(a, ri) = RshScore(b, ri) /\ a.cost < b.cost

\* Those of the same score and cost go by their names: in any order here.
RshOrders(offers, ri) ==
    {order \in SetToSeqs(offers) :
        \A i, j \in DOMAIN order : i < j => ~RshBefore(ri, order[j], order[i])}

\* One lookup in the cache for all advice: whatever it has, or an error.
RshLookup ==
    /\ rshAt = "advised"
    /\ \/ rshOffers' \in SUBSET RshOffers /\ rshAt' = "looked up"
       \/ rshAt' = "done" /\ UNCHANGED rshOffers
    /\ UNCHANGED <<rshRI, rshRec>>

\* fillAlternativesFromRecs
RshFill ==
    /\ rshAt = "looked up" /\ rshAt' = "done"
    /\ \E order \in RshOrders({off \in rshOffers : RshEligible(off, rshRI)}, rshRI) :
          rshRec' = [rshRec EXCEPT !.others = order]
    /\ UNCHANGED <<rshRI, rshOffers>>

RshNext == RshAnalyze \/ RshLookup \/ RshFill

RshSpec == RshInit /\ [][RshNext]_rshVars
------------------------------------------------------------------------------
(* Properties. *)
\* What is advised covers what is used, in less than twice as many units or in
\* one of the smallest (findBestFit).
RshFits == rshRec # RshNone /\ rshRec.size # RshNone =>
    LET units == RshTable(rshRec.size) * rshRec.count * 100 IN
    /\ units >= RshUsed(rshRI)
    /\ \/ units < 2 * RshUsed(rshRI)
       \/ rshRec.size = "nano" /\ rshRec.count = 1

\* An alternative that costs less and is as good in everything else is not
\* listed after the other one (compositeScore).
RshRanked == rshRec # RshNone =>
    \A i, j \in DOMAIN rshRec.others : i < j =>
        LET a == rshRec.others[i]
            b == rshRec.others[j]
        IN ~ /\ 0 < b.cost /\ b.cost < a.cost /\ rshRI.cost > 0
             /\ RshGeneration(b, rshRI) >= RshGeneration(a, rshRI)
             /\ RshArch(b, rshRI) >= RshArch(a, rshRI)
             /\ RshConfidence(b) >= RshConfidence(a)
             /\ RshNear(b, rshRI) >= RshNear(a, rshRI)

\* The advice is of use.
RshSound == RshFits /\ RshRanked

\* The weights of the score: "the remaining bonuses/penalties nudge the ranking
\* but cannot flip alternatives whose effective cost differs by more than a few
\* percent" (scoreWeightCost); here a tenth.
RshPriceDominates == rshRec # RshNone /\ rshRI.cost > 0 =>
    \A i, j \in DOMAIN rshRec.others :
        i < j => 10 * rshRec.others[i].cost <= 11 * rshRec.others[j].cost

\* The exchange of what is underused is for no more than there is (analyzeRI).
RshShrinks == rshRec # RshNone /\ rshRec.size # RshNone =>
    RshTable(rshRec.size) * rshRec.count <= RshFactor(rshRI) * rshRI.count
==============================================================================
