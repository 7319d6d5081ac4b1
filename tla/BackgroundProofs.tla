---------------------------- MODULE BackgroundProofs ----------------------------
(* What the work in the background promises, proved for any number of processes,  *)
(* messages, readers and callers; and the parts side by side.                     *)
EXTENDS MCHandlers, CloudProofs, RequestProofs

-----------------------------------------------------------------------------
(* The purchase queue: a message that left it was handled.                       *)

QueBatch == [batch : SUBSET QueMessages, left : SUBSET QueMessages, failed : SUBSET QueMessages]

QueShape ==
    /\ queReceived \in [QueMessages -> Nat]
    /\ queDone \in [QueMessages -> Nat]
    /\ queGone \subseteq QueMessages
    /\ queProc \in [QueProcs -> QueBatch]

\* A message is in one batch at a time.
QueApart ==
    \A p \in QueProcs :
        /\ queProc[p].left \subseteq queProc[p].batch
        /\ \A q \in QueProcs \ {p} : queProc[p].batch \cap queProc[q].batch = {}

\* A message that is left has a receive that is not used up yet; one that is
\* neither left nor failed was handled.
QueCounted ==
    \A p \in QueProcs :
        /\ \A m \in queProc[p].left : queDone[m] < queReceived[m]
        /\ \A m \in queProc[p].batch \ (queProc[p].left \cup queProc[p].failed) : queDone[m] > 0

QueInv == QueShape /\ QueApart /\ QueCounted /\ QueSound

\* An invocation takes messages that are in no other batch, or fails with them.
LEMMA QueInvokeStep ==
    ASSUME QueInv, NEW p \in QueProcs, QueInvoke(p)
    PROVE  QueInv'
<1>1. PICK batch \in (SUBSET QueWaiting) \ {{}} :
         /\ queProc[p] = QueIdle
         /\ queReceived' = [m \in QueMessages |-> queReceived[m] + IF m \in batch THEN 1 ELSE 0]
         /\ \/ queProc' = [queProc EXCEPT ![p] = [QueIdle EXCEPT !.batch = batch, !.left = batch]]
            \/ UNCHANGED queProc
         /\ UNCHANGED <<queGone, queDone>>
  BY DEF QueInvoke
<1>2. /\ queReceived' \in [QueMessages -> Nat]
      /\ \A m \in QueMessages : queReceived[m] <= queReceived'[m]
      /\ \A m \in batch \cap QueMessages : queDone[m] < queReceived'[m]
      /\ \A m \in QueMessages : queDone[m] < queReceived[m] => queDone[m] < queReceived'[m]
  BY <1>1 DEF QueInv, QueShape, QueSound
<1>3. /\ batch \subseteq QueMessages
      /\ \A q \in QueProcs : queProc[q].batch \cap batch = {}
  BY <1>1 DEF QueWaiting
<1>4. QueSound'
  BY <1>1, <1>2 DEF QueInv, QueShape, QueSound
<1>5. CASE UNCHANGED queProc
  <2>1. \A q \in QueProcs : queProc[q].left \subseteq QueMessages
    BY DEF QueInv, QueShape, QueBatch
  <2>2. QueShape' /\ QueApart'
    BY <1>1, <1>2, <1>5 DEF QueInv, QueShape, QueApart
  <2>3. QueCounted'
    BY <1>1, <1>2, <1>5, <2>1 DEF QueInv, QueCounted
  <2>4. QED
    BY <1>4, <2>2, <2>3 DEF QueInv
<1>6. CASE queProc' = [queProc EXCEPT ![p] = [QueIdle EXCEPT !.batch = batch, !.left = batch]]
  <2> DEFINE new == [QueIdle EXCEPT !.batch = batch, !.left = batch]
  <2>1. queProc' = [queProc EXCEPT ![p] = new]
    BY <1>6
  <2>2. new \in QueBatch /\ new.batch = batch /\ new.left = batch /\ new.failed = {}
    BY <1>3 DEF QueBatch, QueIdle
  <2> HIDE DEF new
  <2>3. /\ queProc' \in [QueProcs -> QueBatch]
        /\ queProc'[p] = new /\ \A q \in QueProcs \ {p} : queProc'[q] = queProc[q]
    BY <2>1, <2>2 DEF QueInv, QueShape
  <2>4. QueShape' /\ QueApart'
    BY <1>1, <1>2, <1>3, <2>2, <2>3 DEF QueInv, QueShape, QueApart
  <2>5. \A q \in QueProcs : queProc[q].left \subseteq QueMessages
    BY DEF QueInv, QueShape, QueBatch
  <2>6. QueCounted'
    BY <1>1, <1>2, <1>3, <2>2, <2>3, <2>5 DEF QueInv, QueCounted
  <2>7. QED
    BY <1>4, <2>4, <2>6 DEF QueInv
<1>7. QED
  BY <1>1, <1>5, <1>6

\* A message of a batch is handled, which uses up its receive, or fails.
LEMMA QueHandleStep ==
    ASSUME QueInv, NEW p \in QueProcs, QueHandle(p)
    PROVE  QueInv'
<1>1. PICK m \in queProc[p].left :
         \/ /\ queDone' = [queDone EXCEPT ![m] = @ + 1]
            /\ queProc' = [queProc EXCEPT ![p].left = @ \ {m}]
         \/ /\ queProc' = [queProc EXCEPT ![p].left = @ \ {m}, ![p].failed = @ \cup {m}]
            /\ UNCHANGED queDone
  BY DEF QueHandle
<1>2. UNCHANGED <<queReceived, queGone>>
  BY DEF QueHandle
<1>3. /\ queProc[p] \in QueBatch /\ m \in QueMessages /\ queDone[m] < queReceived[m]
      /\ m \in queProc[p].batch /\ \A q \in QueProcs \ {p} : m \notin queProc[q].batch
  BY DEF QueInv, QueShape, QueApart, QueCounted, QueBatch
<1>4. /\ queDone' \in [QueMessages -> Nat]
      /\ \A n \in QueMessages \ {m} : queDone'[n] = queDone[n]
      /\ queDone[m] <= queDone'[m] /\ queDone'[m] <= queReceived[m]
  BY <1>1, <1>3 DEF QueInv, QueShape
<1>5. /\ queProc' \in [QueProcs -> QueBatch]
      /\ \A q \in QueProcs \ {p} : queProc'[q] = queProc[q]
      /\ queProc'[p].batch = queProc[p].batch /\ queProc'[p].left = queProc[p].left \ {m}
      /\ \/ queProc'[p].failed = queProc[p].failed /\ queDone'[m] > 0
         \/ queProc'[p].failed = queProc[p].failed \cup {m}
  <2>1. CASE /\ queDone' = [queDone EXCEPT ![m] = @ + 1]
             /\ queProc' = [queProc EXCEPT ![p].left = @ \ {m}]
    <3> DEFINE new == [queProc[p] EXCEPT !.left = @ \ {m}]
    <3>1. queProc' = [queProc EXCEPT ![p] = new]
      BY <2>1
    <3>2. /\ new \in QueBatch /\ new.batch = queProc[p].batch /\ new.left = queProc[p].left \ {m}
          /\ new.failed = queProc[p].failed
      BY <1>3 DEF QueBatch
    <3>3. queDone'[m] > 0
      BY <1>3, <2>1 DEF QueInv, QueShape
    <3> HIDE DEF new
    <3>4. QED
      BY <3>1, <3>2, <3>3 DEF QueInv, QueShape
  <2>2. CASE queProc' = [queProc EXCEPT ![p].left = @ \ {m}, ![p].failed = @ \cup {m}]
    <3> DEFINE new == [queProc[p] EXCEPT !.left = @ \ {m}, !.failed = @ \cup {m}]
    <3>1. queProc' = [queProc EXCEPT ![p] = new]
      BY <2>2
    <3>2. /\ new \in QueBatch /\ new.batch = queProc[p].batch /\ new.left = queProc[p].left \ {m}
          /\ new.failed = queProc[p].failed \cup {m}
      BY <1>3 DEF QueBatch
    <3> HIDE DEF new
    <3>3. QED
      BY <3>1, <3>2 DEF QueInv, QueShape
  <2>3. QED
    BY <1>1, <2>1, <2>2
<1>6. QueShape'
  BY <1>2, <1>4, <1>5 DEF QueInv, QueShape
<1>7. QueApart'
  BY <1>5 DEF QueInv, QueApart
<1>8. QueSound'
  BY <1>2, <1>3, <1>4 DEF QueInv, QueShape, QueSound
<1>9. QueCounted'
  <2>1. \A q \in QueProcs :
           queProc[q].batch \subseteq QueMessages /\ queProc[q].left \subseteq queProc[q].batch
    BY DEF QueInv, QueShape, QueApart, QueBatch
  <2>2. \A q \in QueProcs \ {p} :
           /\ \A n \in queProc[q].left : queDone'[n] < queReceived[n]
           /\ \A n \in queProc[q].batch \ (queProc[q].left \cup queProc[q].failed) : queDone'[n] > 0
    BY <1>3, <1>4, <2>1 DEF QueInv, QueCounted
  <2>3. \A n \in queProc[p].left \ {m} : queDone'[n] < queReceived[n]
    BY <1>4, <2>1 DEF QueInv, QueCounted
  <2>4. \A n \in queProc'[p].batch \ (queProc'[p].left \cup queProc'[p].failed) : queDone'[n] > 0
    BY <1>3, <1>4, <1>5, <2>1 DEF QueInv, QueCounted
  <2>5. QED
    BY <1>2, <1>5, <2>2, <2>3, <2>4 DEF QueCounted
<1>10. QED
  BY <1>6, <1>7, <1>8, <1>9 DEF QueInv

\* An invocation ends. Only one without a failure takes its messages off the queue.
LEMMA QueEndStep ==
    ASSUME QueInv, NEW p \in QueProcs, QueAnswer(p) \/ QueTimeout(p)
    PROVE  QueInv'
<1>1. /\ queProc' = [queProc EXCEPT ![p] = QueIdle] /\ UNCHANGED <<queReceived, queDone>>
  BY DEF QueAnswer, QueTimeout
<1>2. QueIdle \in QueBatch /\ QueIdle.batch = {} /\ QueIdle.left = {} /\ QueIdle.failed = {}
  BY DEF QueIdle, QueBatch
<1>3. /\ queProc' \in [QueProcs -> QueBatch]
      /\ queProc'[p] = QueIdle /\ \A q \in QueProcs \ {p} : queProc'[q] = queProc[q]
  BY <1>1, <1>2 DEF QueInv, QueShape
<1>4. \/ queGone' = queGone
      \/ /\ queGone' = queGone \cup queProc[p].batch
         /\ queProc[p].left = {} /\ queProc[p].failed = {}
  BY DEF QueAnswer, QueTimeout, QueFails
<1>5. QueShape'
  BY <1>1, <1>3, <1>4 DEF QueInv, QueShape, QueBatch
<1>6. QueApart' /\ QueCounted'
  BY <1>1, <1>2, <1>3 DEF QueInv, QueApart, QueCounted
<1>7. QueSound'
  BY <1>1, <1>4 DEF QueInv, QueSound, QueCounted
<1>8. QED
  BY <1>5, <1>6, <1>7 DEF QueInv

\* What leaves the queue as handled was handled, and nothing is handled more often
\* than it was received (handleLambdaSQSEvent), for any number of invocations,
\* messages and receives.
THEOREM QueueSound == QueSpec => []QueSound
<1>1. QueInit => QueInv
  BY DEF QueInit, QueInv, QueShape, QueApart, QueCounted, QueSound, QueIdle, QueBatch
<1>2. QueInv /\ [QueNext]_queVars => QueInv'
  <2> SUFFICES ASSUME QueInv, [QueNext]_queVars PROVE QueInv'
    OBVIOUS
  <2>1. CASE QueNext
    BY <2>1, QueInvokeStep, QueHandleStep, QueEndStep DEF QueNext
  <2>2. CASE UNCHANGED queVars
    BY <2>2 DEF queVars, QueInv, QueShape, QueApart, QueCounted, QueSound
  <2>3. QED
    BY <2>1, <2>2
<1>3. QueInv => QueSound
  BY DEF QueInv
<1>4. QED
  BY <1>1, <1>2, <1>3, PTL DEF QueSpec

-----------------------------------------------------------------------------
(* The cache of the utilization: how old what it serves may be.                  *)

UtlFetches == UtlReaders \cup {UtlBackground}
UtlServedType == [of : Nat, at : Nat]
UtlCachedType == [of : Nat, stored : Nat]

UtlShape ==
    /\ utlNow \in Nat
    /\ utlFetch \in [UtlFetches -> Nat \cup {UtlNone}]
    /\ utlCached # UtlNone => utlCached \in UtlCachedType
    /\ utlServed \in [UtlReaders -> UtlServedType \cup {UtlNone}]

\* A fetch ends in its time, and is stored when it ends.
UtlTimely ==
    /\ \A f \in UtlFetches :
          utlFetch[f] # UtlNone => utlFetch[f] <= utlNow /\ utlNow <= utlFetch[f] + UtlSlow
    /\ utlCached # UtlNone =>
          /\ utlCached.of <= utlCached.stored /\ utlCached.stored <= utlNow
          /\ utlCached.stored <= utlCached.of + UtlSlow

UtlInv == UtlShape /\ UtlTimely /\ UtlFresh

\* Serving what is young enough keeps everything young enough.
LEMMA UtlServeFacts ==
    ASSUME UtlInv, NEW r \in UtlReaders, NEW of \in Nat, of <= utlNow,
           utlNow < of + UtlHard + UtlSlow, UtlServe(r, of)
    PROVE  /\ utlServed' \in [UtlReaders -> UtlServedType \cup {UtlNone}]
           /\ \A q \in UtlReaders : utlServed'[q] # UtlNone =>
                 utlServed'[q].at - utlServed'[q].of < UtlHard + UtlSlow
<1> DEFINE now == [of |-> of, at |-> utlNow]
<1>1. now \in UtlServedType /\ now.of = of /\ now.at = utlNow /\ utlNow \in Nat
  BY DEF UtlInv, UtlShape, UtlServedType
<1>2. utlServed' = [utlServed EXCEPT ![r] = now]
  BY DEF UtlServe
<1> HIDE DEF now
<1>3. now.at - now.of < UtlHard + UtlSlow
  BY <1>1, UtlAssumption
<1>4. QED
  BY <1>1, <1>2, <1>3 DEF UtlInv, UtlShape, UtlFresh

\* A fetch that starts now is within its time.
LEMMA UtlStartFacts ==
    ASSUME UtlInv, NEW f \in UtlFetches, UtlStart(f)
    PROVE  /\ utlFetch' \in [UtlFetches -> Nat \cup {UtlNone}]
           /\ \A g \in UtlFetches : utlFetch'[g] # UtlNone =>
                 utlFetch'[g] <= utlNow /\ utlNow <= utlFetch'[g] + UtlSlow
BY UtlAssumption DEF UtlInv, UtlShape, UtlTimely, UtlStart

\* A reader asks: it is served from a row that is young enough, or it fetches.
LEMMA UtlAskStep ==
    ASSUME UtlInv, NEW r \in UtlReaders, UtlAsk(r)
    PROVE  UtlInv'
<1>1. UNCHANGED <<utlNow, utlCached>>
  BY DEF UtlAsk
<1>2. r \in UtlFetches /\ UtlBackground \in UtlFetches
  BY DEF UtlFetches
<1>3. \/ UtlServe(r, utlCached.of) /\ utlCached # UtlNone /\ UtlAge < UtlHard
      \/ UNCHANGED utlServed
  <2>1. UtlSoft < UtlHard /\ UtlHard \in Nat /\ UtlSoft \in Nat
    BY UtlAssumption
  <2>2. utlCached # UtlNone => UtlAge \in Int
    BY DEF UtlAge, UtlInv, UtlShape, UtlCachedType
  <2>3. QED
    BY <2>1, <2>2 DEF UtlAsk, UtlUsable
<1>4. UNCHANGED utlFetch \/ UtlStart(r) \/ UtlStart(UtlBackground)
  BY DEF UtlAsk
<1>5. /\ utlFetch' \in [UtlFetches -> Nat \cup {UtlNone}]
      /\ \A g \in UtlFetches : utlFetch'[g] # UtlNone =>
            utlFetch'[g] <= utlNow /\ utlNow <= utlFetch'[g] + UtlSlow
  BY <1>2, <1>4, UtlStartFacts DEF UtlInv, UtlShape, UtlTimely
<1>6. /\ utlServed' \in [UtlReaders -> UtlServedType \cup {UtlNone}]
      /\ \A q \in UtlReaders : utlServed'[q] # UtlNone =>
            utlServed'[q].at - utlServed'[q].of < UtlHard + UtlSlow
  <2>1. CASE UtlServe(r, utlCached.of) /\ utlCached # UtlNone /\ UtlAge < UtlHard
    <3>1. PICK of \in Nat, stored \in Nat : of = utlCached.of /\ stored = utlCached.stored
      BY <2>1 DEF UtlInv, UtlShape, UtlCachedType
    <3>2. /\ of <= stored /\ stored <= utlNow /\ stored <= of + UtlSlow /\ utlNow - stored < UtlHard
          /\ utlNow \in Nat /\ UtlHard \in Nat /\ UtlSlow \in Nat
      BY <2>1, <3>1, UtlAssumption DEF UtlInv, UtlShape, UtlTimely, UtlAge
    <3>3. of <= utlNow /\ utlNow < of + UtlHard + UtlSlow
      BY <3>2
    <3>4. QED
      BY <2>1, <3>1, <3>3, UtlServeFacts
  <2>2. CASE UNCHANGED utlServed
    BY <2>2 DEF UtlInv, UtlShape, UtlFresh
  <2>3. QED
    BY <1>3, <2>1, <2>2
<1>7. QED
  BY <1>1, <1>5, <1>6 DEF UtlInv, UtlShape, UtlTimely, UtlFresh

\* A fetch ends, in its time: what it got is stored and served, or it failed.
LEMMA UtlFetchedStep ==
    ASSUME UtlInv, NEW f \in UtlFetches, UtlFetched(f)
    PROVE  UtlInv'
<1>1. PICK of \in Nat : of = utlFetch[f] /\ of <= utlNow /\ utlNow <= of + UtlSlow
  BY DEF UtlFetched, UtlInv, UtlShape, UtlTimely
<1>2. UNCHANGED utlNow /\ utlNow \in Nat /\ UtlHard \in Nat \ {0} /\ UtlSlow \in Nat
  BY UtlAssumption DEF UtlFetched, UtlInv, UtlShape
<1>3. /\ utlFetch' \in [UtlFetches -> Nat \cup {UtlNone}]
      /\ \A g \in UtlFetches : utlFetch'[g] # UtlNone =>
            utlFetch'[g] <= utlNow /\ utlNow <= utlFetch'[g] + UtlSlow
  BY DEF UtlFetched, UtlInv, UtlShape, UtlTimely
<1>4. /\ utlCached' # UtlNone => utlCached' \in UtlCachedType
      /\ utlCached' # UtlNone =>
          /\ utlCached'.of <= utlCached'.stored /\ utlCached'.stored <= utlNow
          /\ utlCached'.stored <= utlCached'.of + UtlSlow
  <2>1. CASE UNCHANGED utlCached
    BY <2>1 DEF UtlInv, UtlShape, UtlTimely
  <2>2. CASE utlCached' = [of |-> of, stored |-> utlNow]
    BY <1>1, <1>2, <2>2 DEF UtlCachedType
  <2>3. QED
    BY <1>1, <2>1, <2>2 DEF UtlFetched
<1>5. /\ utlServed' \in [UtlReaders -> UtlServedType \cup {UtlNone}]
      /\ \A q \in UtlReaders : utlServed'[q] # UtlNone =>
            utlServed'[q].at - utlServed'[q].of < UtlHard + UtlSlow
  <2>1. CASE f \in UtlReaders /\ UtlServe(f, of)
    <3>1. utlNow < of + UtlHard + UtlSlow
      BY <1>1, <1>2
    <3>2. QED
      BY <1>1, <2>1, <3>1, UtlServeFacts
  <2>2. CASE UNCHANGED utlServed
    BY <2>2 DEF UtlInv, UtlShape, UtlFresh
  <2>3. QED
    BY <1>1, <2>1, <2>2 DEF UtlFetched, UtlFetches
<1>6. QED
  BY <1>2, <1>3, <1>4, <1>5 DEF UtlInv, UtlShape, UtlTimely, UtlFresh

\* Time passes, and no fetch outlives its time.
LEMMA UtlTickStep ==
    ASSUME UtlInv, UtlTick
    PROVE  UtlInv'
<1>1. /\ utlNow' = utlNow + 1 /\ UNCHANGED <<utlCached, utlFetch, utlServed>>
      /\ \A f \in UtlFetches : utlFetch[f] # UtlNone => utlNow - utlFetch[f] < UtlSlow
      /\ UtlSlow \in Nat
  BY UtlAssumption DEF UtlTick, UtlInv, UtlShape
<1>2. UtlShape' /\ UtlFresh'
  BY <1>1 DEF UtlInv, UtlShape, UtlFresh
<1>3. \A f \in UtlFetches :
         utlFetch[f] # UtlNone => utlFetch[f] <= utlNow + 1 /\ utlNow + 1 <= utlFetch[f] + UtlSlow
  <2> SUFFICES ASSUME NEW f \in UtlFetches, utlFetch[f] # UtlNone
               PROVE  utlFetch[f] <= utlNow + 1 /\ utlNow + 1 <= utlFetch[f] + UtlSlow
    OBVIOUS
  <2>1. utlFetch[f] \in Nat /\ utlNow \in Nat /\ utlFetch[f] <= utlNow
    BY DEF UtlInv, UtlShape, UtlTimely
  <2>2. QED
    BY <1>1, <2>1
<1>4. utlCached # UtlNone =>
          /\ utlCached.of <= utlCached.stored /\ utlCached.stored <= utlNow + 1
          /\ utlCached.stored <= utlCached.of + UtlSlow
  BY DEF UtlInv, UtlShape, UtlTimely, UtlCachedType
<1>5. UtlTimely'
  BY <1>1, <1>3, <1>4 DEF UtlTimely
<1>6. QED
  BY <1>2, <1>5 DEF UtlInv

\* Nothing is cached, nobody is served.
LEMMA UtlStarts == UtlInit => UtlInv
  BY DEF UtlInit, UtlInv, UtlShape, UtlTimely, UtlFresh, UtlFetches

\* Every step keeps the invariant.
LEMMA UtlStays == UtlInv /\ [UtlNext]_utlVars => UtlInv'
<1> SUFFICES ASSUME UtlInv, [UtlNext]_utlVars PROVE UtlInv'
  OBVIOUS
<1>1. DOMAIN utlFetch = UtlFetches
  BY DEF UtlInv, UtlShape
<1>2. CASE UtlNext
  BY <1>1, <1>2, UtlTickStep, UtlAskStep, UtlFetchedStep DEF UtlNext
<1>3. CASE UNCHANGED utlVars
  BY <1>3 DEF utlVars, UtlInv, UtlShape, UtlTimely, UtlFresh
<1>4. QED
  BY <1>2, <1>3

\* A reader is served nothing older than the hard age and one fetch (getOrFetch),
\* for any number of readers and any ages.
THEOREM UtilizationFresh == UtlSpec => []UtlFresh
<1>1. UtlInv => UtlFresh
  BY DEF UtlInv
<1>2. QED
  BY UtlStarts, UtlStays, <1>1, PTL DEF UtlSpec

-----------------------------------------------------------------------------
(* Startup: the schema is what is recorded of it.                                *)

StaFields == {"pc", "tries", "waited", "last", "key", "force"}
StaAdminType == [password : {"no row", "none", "secret", "own"}, group : BOOLEAN, chosen : BOOLEAN]

StaShape ==
    /\ staVersion \in Nat /\ staDirty \in BOOLEAN
    /\ staForce \in Nat \cup {StaNone}
    /\ staProc = [p \in StaProcs |-> staProc[p]]
    /\ \A p \in StaProcs : DOMAIN staProc[p] = StaFields /\ staProc[p].force \in Nat \cup {StaNone}
    /\ staAdmin \in StaAdminType

\* Only the holder of the lock moves the schema, and knows where it is.
StaHeld ==
    \A p \in StaProcs :
        /\ staProc[p].pc \in {"up", "marked", "ran"} => staLock = p
        /\ staProc[p].pc = "up" => ~staDirty
        /\ staProc[p].pc = "ran" => staVersion \in staApplied

\* What was recorded, or may be forced, was run; only the dirty version may not be.
StaReached ==
    /\ ~staDirty => 1 .. staVersion \subseteq staApplied
    /\ staDirty => staVersion > 0 /\ 1 .. (staVersion - 1) \subseteq staApplied
    /\ staForce # StaNone => 1 .. staForce \subseteq staApplied
    /\ \A p \in StaProcs : staProc[p].force # StaNone => 1 .. staProc[p].force \subseteq staApplied

\* Whoever came past the migrations, now or in an earlier attempt, found them run.
StaPassed ==
    \A p \in StaProcs : staProc[p].pc \in {"checking", "admin"} \/ staProc[p].last = "ok"
        => 1 .. StaLast \subseteq staApplied

StaInv == StaShape /\ StaHeld /\ StaReached /\ StaPassed /\ StaPasswordKept

\* What a step of process p does to its own record, with the schema as it is.
StaOwnStep(p, new) ==
    /\ staProc' = [staProc EXCEPT ![p] = new]
    /\ DOMAIN new = StaFields /\ new.force \in Nat \cup {StaNone}
    /\ new.force # StaNone => 1 .. new.force \subseteq staApplied
    /\ new.last = "ok" \/ new.pc \in {"checking", "admin"} => 1 .. StaLast \subseteq staApplied

\* The processes, after a step of one of them and with as much in the schema.
LEMMA StaOwnFacts ==
    ASSUME StaInv, NEW p \in StaProcs, NEW new, StaOwnStep(p, new), staApplied \subseteq staApplied'
    PROVE  /\ staProc' = [q \in StaProcs |-> staProc'[q]]
           /\ staProc'[p] = new /\ \A q \in StaProcs \ {p} : staProc'[q] = staProc[q]
           /\ StaPassed'
           /\ \A q \in StaProcs :
                 staProc'[q].force # StaNone => 1 .. staProc'[q].force \subseteq staApplied'
<1>1. /\ staProc' = [q \in StaProcs |-> staProc'[q]]
      /\ staProc'[p] = new /\ \A q \in StaProcs \ {p} : staProc'[q] = staProc[q]
  BY DEF StaOwnStep, StaInv, StaShape
<1>2. StaPassed'
  BY <1>1 DEF StaOwnStep, StaInv, StaPassed
<1>3. ASSUME NEW q \in StaProcs, staProc'[q].force # StaNone
      PROVE  1 .. staProc'[q].force \subseteq staApplied'
  <2>1. 1 .. staProc'[q].force \subseteq staApplied
    BY <1>1, <1>3 DEF StaOwnStep, StaInv, StaReached
  <2>2. QED
    BY <2>1
<1>4. QED
  BY <1>1, <1>2, <1>3

\* Steps that leave the schema and the administrator alone, and end what the lock
\* was held for if they give it up.
LEMMA StaLocalStep ==
    ASSUME StaInv, NEW p \in StaProcs, NEW new, StaOwnStep(p, new),
           UNCHANGED <<staSchema, staAdmin>>,
           staForce' = staForce \/ (staForce' \in Nat /\ 1 .. staForce' \subseteq staApplied),
           new.pc \in {"up", "marked", "ran"} => staLock' = p,
           new.pc = "up" => ~staDirty, new.pc = "ran" => staVersion \in staApplied,
           staLock' = staLock \/ staLock = p \/ staLock = StaNone
    PROVE  StaInv'
<1>1. UNCHANGED <<staApplied, staVersion, staDirty, staAdmin>>
  BY DEF staSchema
<1>2. /\ staProc' = [q \in StaProcs |-> staProc'[q]]
      /\ staProc'[p] = new /\ \A q \in StaProcs \ {p} : staProc'[q] = staProc[q]
      /\ StaPassed'
      /\ \A q \in StaProcs :
            staProc'[q].force # StaNone => 1 .. staProc'[q].force \subseteq staApplied'
  BY <1>1, StaOwnFacts
<1>3. StaShape'
  BY <1>1, <1>2 DEF StaInv, StaShape, StaOwnStep
<1>4. StaHeld'
  BY <1>1, <1>2, StaAssumption DEF StaInv, StaHeld
<1>5. StaReached'
  BY <1>1, <1>2 DEF StaInv, StaReached
<1>6. StaPasswordKept'
  BY <1>1 DEF StaInv, StaPasswordKept
<1>7. QED
  BY <1>2, <1>3, <1>4, <1>5, <1>6 DEF StaInv

\* What is known of a process.
LEMMA StaProcFacts ==
    ASSUME StaInv, NEW p \in StaProcs
    PROVE  /\ DOMAIN staProc[p] = StaFields /\ staProc[p].force \in Nat \cup {StaNone}
           /\ staProc[p].force # StaNone => 1 .. staProc[p].force \subseteq staApplied
           /\ staProc[p].last = "ok" \/ staProc[p].pc \in {"checking", "admin"}
                 => 1 .. StaLast \subseteq staApplied
BY DEF StaInv, StaShape, StaReached, StaPassed

\* A process goes on to another place, where it knows no more than it did.
LEMMA StaGoOwn ==
    ASSUME StaInv, NEW p \in StaProcs, NEW pc, StaGo(p, pc),
           pc \in {"checking", "admin"} => 1 .. StaLast \subseteq staApplied
    PROVE  \E new : StaOwnStep(p, new) /\ new.pc = pc
<1> DEFINE new == [staProc[p] EXCEPT !.pc = pc]
<1>1. /\ DOMAIN new = StaFields /\ new.pc = pc /\ new.force = staProc[p].force
      /\ new.last = staProc[p].last
  BY StaProcFacts DEF StaFields
<1>2. staProc' = [staProc EXCEPT ![p] = new]
  BY DEF StaGo
<1> HIDE DEF new
<1>3. StaOwnStep(p, new)
  BY <1>1, <1>2, StaProcFacts DEF StaOwnStep
<1>4. QED
  BY <1>1, <1>3

\* A step inside a process, which moves neither the schema nor the lock.
LEMMA StaInsideStep ==
    ASSUME StaInv, NEW p \in StaProcs,
           \/ StaBoot(p) \/ StaAttempt(p) \/ StaHeal(p) \/ StaCheck(p) \/ StaRecorded(p)
           \/ StaServices(p) \/ StaStop(p)
    PROVE  StaInv'
<1>1. UNCHANGED <<staSchema, staAdmin, staLock, staForce>>
  BY DEF StaBoot, StaAttempt, StaHeal, StaCheck, StaRecorded, StaServices, StaStop,
         StaOnlyProc, StaKeep
<1>2. \E new : StaOwnStep(p, new) /\ new.pc \notin {"up", "marked", "ran"}
  <2>1. CASE StaBoot(p)
    <3> DEFINE new == [staProc[p] EXCEPT !.pc = "cold", !.force = staForce]
    <3>1. /\ staProc' = [staProc EXCEPT ![p] = new] /\ DOMAIN new = StaFields
          /\ new.pc = "cold" /\ new.force = staForce /\ new.last = staProc[p].last
      BY <2>1, StaProcFacts DEF StaBoot, StaFields
    <3> HIDE DEF new
    <3>2. StaOwnStep(p, new)
      BY <3>1, StaProcFacts DEF StaOwnStep, StaInv, StaShape, StaReached
    <3>3. QED
      BY <3>1, <3>2
  <2>2. CASE StaAttempt(p)
    <3>1. PICK tries, waited, pc :
             /\ pc \in {"opening", "connecting", "cold"}
             /\ staProc' = [staProc EXCEPT ![p].pc = pc, ![p].tries = tries, ![p].waited = waited]
      BY <2>2 DEF StaAttempt, StaFail
    <3> DEFINE new == [staProc[p] EXCEPT !.pc = pc, !.tries = tries, !.waited = waited]
    <3>2. /\ staProc' = [staProc EXCEPT ![p] = new] /\ DOMAIN new = StaFields
          /\ new.pc = pc /\ new.force = staProc[p].force /\ new.last = staProc[p].last
      BY <3>1, StaProcFacts DEF StaFields
    <3> HIDE DEF new
    <3>3. StaOwnStep(p, new)
      BY <3>1, <3>2, StaProcFacts DEF StaOwnStep
    <3>4. QED
      BY <3>1, <3>2, <3>3
  <2>3. CASE StaHeal(p)
    <3>1. PICK pc \in {"failed", "locking"} : StaGo(p, pc)
      BY <2>3 DEF StaHeal
    <3>2. QED
      BY <3>1, StaGoOwn
  <2>4. CASE StaCheck(p)
    <3>1. PICK pc \in {"failed", "admin"} : StaGo(p, pc)
      BY <2>4 DEF StaCheck
    <3>2. 1 .. StaLast \subseteq staApplied
      BY <2>4, StaProcFacts DEF StaCheck, StaAt
    <3>3. QED
      BY <3>1, <3>2, StaGoOwn
  <2>5. CASE StaRecorded(p)
    <3> DEFINE new == [staProc[p] EXCEPT !.pc = "services", !.last = "failed"]
    <3>1. /\ staProc' = [staProc EXCEPT ![p] = new] /\ DOMAIN new = StaFields
          /\ new.pc = "services" /\ new.force = staProc[p].force /\ new.last = "failed"
      BY <2>5, StaProcFacts DEF StaRecorded, StaFields
    <3> HIDE DEF new
    <3>2. StaOwnStep(p, new)
      BY <3>1, StaProcFacts DEF StaOwnStep
    <3>3. QED
      BY <3>1, <3>2
  <2>6. CASE StaServices(p)
    <3>1. PICK key, pc :
             /\ pc \in {"serving", "cold"}
             /\ staProc' = [staProc EXCEPT ![p].key = key, ![p].pc = pc]
      BY <2>6 DEF StaServices
    <3> DEFINE new == [staProc[p] EXCEPT !.key = key, !.pc = pc]
    <3>2. /\ staProc' = [staProc EXCEPT ![p] = new] /\ DOMAIN new = StaFields
          /\ new.pc = pc /\ new.force = staProc[p].force /\ new.last = staProc[p].last
      BY <3>1, StaProcFacts DEF StaFields
    <3> HIDE DEF new
    <3>3. StaOwnStep(p, new)
      BY <3>1, <3>2, StaProcFacts DEF StaOwnStep
    <3>4. QED
      BY <3>1, <3>2, <3>3
  <2>7. CASE StaStop(p)
    <3>1. /\ staProc' = [staProc EXCEPT ![p] = StaFresh] /\ DOMAIN StaFresh = StaFields
          /\ StaFresh.pc = "new" /\ StaFresh.force = StaNone /\ StaFresh.last = "pending"
      BY <2>7 DEF StaStop, StaFresh, StaFields
    <3>2. QED
      BY <3>1 DEF StaOwnStep
  <2>8. QED
    BY <2>1, <2>2, <2>3, <2>4, <2>5, <2>6, <2>7
<1>3. PICK new : StaOwnStep(p, new) /\ new.pc \notin {"up", "marked", "ran"}
  BY <1>2
<1>4. QED
  BY <1>1, <1>3, StaLocalStep

\* The lock is taken on a clean schema, and given up when there is no more to run;
\* a process that is killed gives it up as well.
LEMMA StaLockStep ==
    ASSUME StaInv, NEW p \in StaProcs, StaLocked(p) \/ StaUpToDate(p) \/ StaKill(p)
    PROVE  StaInv'
<1>1. UNCHANGED <<staSchema, staAdmin, staForce>>
  BY DEF StaLocked, StaUpToDate, StaKill, StaKeep
<1>2. CASE StaLocked(p)
  <2>1. CASE staLock = StaNone /\ ~staDirty /\ staLock' = p /\ StaGo(p, "up")
    <3>1. PICK new : StaOwnStep(p, new) /\ new.pc = "up"
      BY <2>1, StaGoOwn
    <3>2. QED
      BY <1>1, <2>1, <3>1, StaLocalStep
  <2>2. CASE StaGo(p, "failed") /\ UNCHANGED staLock
    <3>1. PICK new : StaOwnStep(p, new) /\ new.pc = "failed"
      BY <2>2, StaGoOwn
    <3>2. QED
      BY <1>1, <2>2, <3>1, StaLocalStep
  <2>3. QED
    BY <1>2, <2>1, <2>2 DEF StaLocked
<1>3. CASE StaUpToDate(p)
  <2>1. staLock = p /\ ~staDirty /\ staVersion = StaLast
    BY <1>3 DEF StaUpToDate, StaAt, StaInv, StaHeld
  <2>2. 1 .. StaLast \subseteq staApplied
    BY <2>1 DEF StaInv, StaReached
  <2>3. PICK new : StaOwnStep(p, new) /\ new.pc = "checking"
    BY <1>3, <2>2, StaGoOwn DEF StaUpToDate
  <2>4. QED
    BY <1>1, <2>1, <2>3, StaLocalStep
<1>4. CASE StaKill(p)
  <2>1. /\ staProc' = [staProc EXCEPT ![p] = StaFresh] /\ DOMAIN StaFresh = StaFields
        /\ StaFresh.pc = "new" /\ StaFresh.force = StaNone /\ StaFresh.last = "pending"
    BY <1>4 DEF StaKill, StaFresh, StaFields
  <2>2. PICK new : StaOwnStep(p, new) /\ new.pc = "new"
    BY <2>1 DEF StaOwnStep
  <2>3. staLock' = staLock \/ staLock = p
    BY <1>4 DEF StaKill
  <2>4. QED
    BY <1>1, <2>2, <2>3, StaLocalStep
<1>5. QED
  BY <1>2, <1>3, <1>4

\* The schema moves: the holder of the lock marks a version, runs it and records it.
LEMMA StaMoveStep ==
    ASSUME StaInv, NEW p \in StaProcs, StaMark(p) \/ StaRun(p) \/ StaRecord(p)
    PROVE  StaInv'
<1>1. /\ staLock = p /\ UNCHANGED <<staAdmin, staForce>>
      /\ staApplied \subseteq staApplied' /\ staVersion' \in Nat /\ staDirty' \in BOOLEAN
  <2>1. staVersion \in Nat /\ staDirty \in BOOLEAN
    BY DEF StaInv, StaShape
  <2>2. staVersion' \in Nat /\ staApplied \subseteq staApplied'
    BY <2>1 DEF StaMark, StaRun, StaRecord
  <2>3. staDirty' \in BOOLEAN
    BY <2>1 DEF StaMark, StaRun, StaRecord
  <2>4. staLock = p /\ UNCHANGED <<staAdmin, staForce>>
    BY DEF StaMark, StaRun, StaRecord, StaAt, StaKeep, StaInv, StaHeld
  <2>5. QED
    BY <2>2, <2>3, <2>4
<1>2. \A q \in StaProcs \ {p} : staProc[q].pc \notin {"up", "marked", "ran"}
  BY <1>1 DEF StaInv, StaHeld
<1>3. PICK pc \in {"up", "marked", "ran", "failed"} :
         /\ StaGo(p, pc)
         /\ pc \in {"up", "marked", "ran"} => staLock' = p
         /\ pc = "up" => ~staDirty'
         /\ pc = "ran" => staVersion' \in staApplied'
  BY <1>1 DEF StaMark, StaRun, StaRecord
<1>4. PICK new : StaOwnStep(p, new) /\ new.pc = pc
  BY <1>3, StaGoOwn
<1>5. /\ staProc' = [q \in StaProcs |-> staProc'[q]]
      /\ staProc'[p] = new /\ \A q \in StaProcs \ {p} : staProc'[q] = staProc[q]
      /\ StaPassed'
      /\ \A q \in StaProcs :
            staProc'[q].force # StaNone => 1 .. staProc'[q].force \subseteq staApplied'
  BY <1>1, <1>4, StaOwnFacts
<1>6. StaShape'
  BY <1>1, <1>4, <1>5 DEF StaInv, StaShape, StaOwnStep
<1>7. StaHeld'
  BY <1>2, <1>3, <1>4, <1>5 DEF StaHeld
<1>8. /\ ~staDirty' => 1 .. staVersion' \subseteq staApplied'
      /\ staDirty' => staVersion' > 0 /\ 1 .. (staVersion' - 1) \subseteq staApplied'
  <2>1. CASE StaMark(p)
    <3>1. 1 .. staVersion \subseteq staApplied /\ staVersion \in Nat
      BY <2>1 DEF StaMark, StaAt, StaInv, StaHeld, StaReached, StaShape
    <3>2. staVersion' = staVersion + 1 /\ staDirty' = TRUE /\ staApplied' = staApplied
      BY <2>1 DEF StaMark
    <3>3. QED
      BY <3>1, <3>2
  <2>2. CASE StaRun(p)
    <3>1. UNCHANGED <<staVersion, staDirty>>
      BY <2>2 DEF StaRun
    <3>2. QED
      BY <1>1, <3>1 DEF StaInv, StaReached
  <2>3. CASE StaRecord(p)
    <3>1. /\ UNCHANGED <<staApplied, staVersion>> /\ staVersion \in staApplied
          /\ staVersion \in Nat /\ (staDirty' = FALSE \/ staDirty' = staDirty)
      BY <2>3 DEF StaRecord, StaAt, StaInv, StaHeld, StaShape
    <3>2. 1 .. staVersion \subseteq staApplied
      <4>1. 1 .. (staVersion - 1) \subseteq staApplied \/ 1 .. staVersion \subseteq staApplied
        BY DEF StaInv, StaReached, StaShape
      <4>2. \A k \in 1 .. staVersion : k \in 1 .. (staVersion - 1) \/ k = staVersion
        BY <3>1
      <4>3. QED
        BY <3>1, <4>1, <4>2
    <3>3. QED
      BY <3>1, <3>2 DEF StaInv, StaReached
  <2>4. QED
    BY <2>1, <2>2, <2>3
<1>9. StaReached'
  <2>1. staForce' # StaNone => 1 .. staForce' \subseteq staApplied'
    BY <1>1 DEF StaInv, StaReached
  <2>2. QED
    BY <1>5, <1>8, <2>1 DEF StaReached
<1>10. StaPasswordKept'
  BY <1>1 DEF StaInv, StaPasswordKept
<1>11. QED
  BY <1>5, <1>6, <1>7, <1>9, <1>10 DEF StaInv

\* The migrator is opened: a version that is forced was run, and forced while
\* nobody holds the lock.
LEMMA StaOpenStep ==
    ASSUME StaInv, NEW p \in StaProcs, StaOpenMigrator(p)
    PROVE  StaInv'
<1>1. UNCHANGED <<staAdmin, staForce, staLock, staApplied>>
  BY DEF StaOpenMigrator, StaKeep, staSchema
<1>2. CASE UNCHANGED staSchema
  <2>1. CASE StaFail(p)
    <3> DEFINE new == [staProc[p] EXCEPT !.pc = "cold", !.tries = 0, !.waited = 0]
    <3>1. /\ staProc' = [staProc EXCEPT ![p] = new] /\ DOMAIN new = StaFields
          /\ new.pc = "cold" /\ new.force = staProc[p].force /\ new.last = staProc[p].last
      BY <2>1, StaProcFacts DEF StaFail, StaFields
    <3> HIDE DEF new
    <3>2. StaOwnStep(p, new)
      BY <3>1, StaProcFacts DEF StaOwnStep
    <3>3. QED
      BY <1>1, <1>2, <3>1, <3>2, StaLocalStep
  <2>2. ASSUME NEW pc \in {"failed", "healing"}, StaGo(p, pc) PROVE StaInv'
    <3>1. PICK new : StaOwnStep(p, new) /\ new.pc = pc
      BY <2>2, StaGoOwn
    <3>2. QED
      BY <1>1, <1>2, <3>1, StaLocalStep
  <2>3. QED
    BY <2>1, <2>2 DEF StaOpenMigrator
<1>3. CASE /\ staProc[p].force # StaNone /\ staLock = StaNone
           /\ staVersion' = staProc[p].force /\ staDirty' = FALSE
           /\ StaGo(p, "healing")
  <2>1. PICK new : StaOwnStep(p, new) /\ new.pc = "healing"
    BY <1>3, StaGoOwn
  <2>2. /\ staProc' = [q \in StaProcs |-> staProc'[q]]
        /\ staProc'[p] = new /\ \A q \in StaProcs \ {p} : staProc'[q] = staProc[q]
        /\ StaPassed'
        /\ \A q \in StaProcs :
              staProc'[q].force # StaNone => 1 .. staProc'[q].force \subseteq staApplied'
    BY <1>1, <2>1, StaOwnFacts
  <2>3. staVersion' \in Nat /\ 1 .. staVersion' \subseteq staApplied
    BY <1>3, StaProcFacts
  <2>4. StaShape'
    BY <1>1, <1>3, <2>1, <2>2, <2>3 DEF StaInv, StaShape, StaOwnStep
  <2>5. StaHeld'
    BY <1>1, <1>3, <2>1, <2>2, StaAssumption DEF StaInv, StaHeld
  <2>6. StaReached'
    BY <1>1, <1>3, <2>2, <2>3 DEF StaInv, StaReached
  <2>7. StaPasswordKept'
    BY <1>1 DEF StaInv, StaPasswordKept
  <2>8. QED
    BY <2>2, <2>4, <2>5, <2>6, <2>7 DEF StaInv
<1>4. QED
  BY <1>2, <1>3 DEF StaOpenMigrator

\* The administrator's row is ensured, or its password is chosen; a password that
\* was chosen is not ensured anew.
LEMMA StaAdminStep ==
    ASSUME StaInv, (\E p \in StaProcs : StaAdmin(p)) \/ StaOwnPassword
    PROVE  StaInv'
<1>1. UNCHANGED <<staSchema, staLock, staForce>>
  BY DEF StaAdmin, StaOwnPassword, StaKeep
<1>2. staAdmin' \in StaAdminType /\ StaPasswordKept'
  <2>1. staAdmin \in StaAdminType /\ (staAdmin.chosen => staAdmin.password = "own")
    BY DEF StaInv, StaShape, StaPasswordKept
  <2>2. CASE StaOwnPassword
    BY <2>1, <2>2 DEF StaOwnPassword, StaAdminType, StaPasswordKept
  <2>3. ASSUME NEW row \in StaAdminType
        PROVE  StaGrouped(row) \in StaAdminType /\ StaGrouped(row).password = row.password
                 /\ StaGrouped(row).chosen = row.chosen
    BY DEF StaGrouped, StaAdminType
  <2>4. ASSUME NEW row \in StaAdminType
        PROVE  /\ StaEnsured(row) \in StaAdminType /\ StaEnsured(row).chosen = row.chosen
               /\ row.password = "own" => StaEnsured(row).password = "own"
               /\ StaEnsuredEmpty(row) \in StaAdminType /\ StaEnsuredEmpty(row).chosen = row.chosen
               /\ row.password = "own" => StaEnsuredEmpty(row).password = "own"
    BY DEF StaEnsured, StaEnsuredEmpty, StaAdminType
  <2>5. CASE \E p \in StaProcs : StaAdmin(p)
    BY <2>1, <2>3, <2>4, <2>5 DEF StaAdmin, StaPasswordKept
  <2>6. QED
    BY <2>2, <2>5
<1>3. /\ staProc' = [q \in StaProcs |-> staProc'[q]]
      /\ \A q \in StaProcs :
            DOMAIN staProc'[q] = StaFields /\ staProc'[q].force \in Nat \cup {StaNone}
      /\ \A q \in StaProcs : staProc'[q].pc \in {staProc[q].pc, "services"}
      /\ StaPassed'
      /\ \A q \in StaProcs :
            staProc'[q].force # StaNone => 1 .. staProc'[q].force \subseteq staApplied'
  <2>1. CASE \E p \in StaProcs : StaAdmin(p)
    <3>1. PICK p \in StaProcs, last \in {"ok", "failed"} :
             /\ staProc[p].pc = "admin"
             /\ staProc' = [staProc EXCEPT ![p].pc = "services", ![p].last = last]
      BY <2>1 DEF StaAdmin, StaAt
    <3> DEFINE new == [staProc[p] EXCEPT !.pc = "services", !.last = last]
    <3>2. /\ staProc' = [staProc EXCEPT ![p] = new] /\ DOMAIN new = StaFields
          /\ new.pc = "services" /\ new.force = staProc[p].force
      BY <3>1, StaProcFacts DEF StaFields
    <3> HIDE DEF new
    <3>3. StaOwnStep(p, new)
      BY <3>1, <3>2, StaProcFacts DEF StaOwnStep
    <3>4. staApplied \subseteq staApplied'
      BY <1>1 DEF staSchema
    <3>5. /\ staProc' = [q \in StaProcs |-> staProc'[q]]
          /\ staProc'[p] = new /\ \A q \in StaProcs \ {p} : staProc'[q] = staProc[q]
          /\ StaPassed'
          /\ \A q \in StaProcs :
                staProc'[q].force # StaNone => 1 .. staProc'[q].force \subseteq staApplied'
      BY <3>3, <3>4, StaOwnFacts
    <3>6. QED
      BY <3>2, <3>3, <3>5 DEF StaOwnStep, StaInv, StaShape
  <2>2. CASE StaOwnPassword
    BY <1>1, <2>2 DEF StaOwnPassword, staSchema, StaInv, StaShape, StaPassed, StaReached
  <2>3. QED
    BY <2>1, <2>2
<1>4. StaShape'
  BY <1>1, <1>2, <1>3 DEF StaInv, StaShape, staSchema
<1>5. StaHeld'
  BY <1>1, <1>3 DEF StaInv, StaHeld, staSchema
<1>6. StaReached'
  BY <1>1, <1>3 DEF StaInv, StaReached, staSchema
<1>7. QED
  BY <1>2, <1>3, <1>4, <1>5, <1>6 DEF StaInv

\* What the operator lets the processes resume from was run.
LEMMA StaOperatorStep ==
    ASSUME StaInv, StaOperator
    PROVE  StaInv'
<1>1. UNCHANGED <<staApplied, staVersion, staDirty, staLock, staAdmin, staProc>> /\ staDirty
  BY DEF StaOperator, staSchema
<1>2. staVersion \in Nat /\ staVersion > 0 /\ 1 .. (staVersion - 1) \subseteq staApplied
  BY <1>1 DEF StaInv, StaShape, StaReached
<1>3. staForce' \in Nat /\ 1 .. staForce' \subseteq staApplied
  <2>1. CASE staVersion \in staApplied
    <3>1. \A k \in 1 .. staVersion : k \in 1 .. (staVersion - 1) \/ k = staVersion
      BY <1>2
    <3>2. QED
      BY <1>2, <2>1, <3>1 DEF StaOperator
  <2>2. CASE staVersion \notin staApplied
    BY <1>2, <2>2 DEF StaOperator
  <2>3. QED
    BY <2>1, <2>2
<1>4. QED
  BY <1>1, <1>3 DEF StaInv, StaShape, StaHeld, StaReached, StaPassed, StaPasswordKept

\* Every step of a process that comes up keeps what is known of the schema.
LEMMA StaStep ==
    ASSUME StaInv, [StaNext]_staVars
    PROVE  StaInv'
<1>1. CASE StaNext
  BY <1>1, StaInsideStep, StaLockStep, StaMoveStep, StaOpenStep, StaAdminStep, StaOperatorStep
     DEF StaNext
<1>2. CASE UNCHANGED staVars
  BY <1>2 DEF staVars, StaInv, StaShape, StaHeld, StaReached, StaPassed, StaPasswordKept
<1>3. QED
  BY <1>1, <1>2

\* At first the schema has the first migration.
LEMMA StaStart == StaInit => StaInv
<1> SUFFICES ASSUME StaInit PROVE StaInv
  OBVIOUS
<1>1. 1 .. staVersion \subseteq staApplied
  <2>1. 1 .. 1 \subseteq {1}
    OBVIOUS
  <2>2. QED
    BY <2>1 DEF StaInit
<1>2. \A p \in StaProcs :
         /\ DOMAIN staProc[p] = StaFields /\ staProc[p].force = StaNone
         /\ staProc[p].pc = "new" /\ staProc[p].last = "pending"
  BY DEF StaInit, StaFresh, StaFields
<1>3. StaShape
  BY <1>2 DEF StaInit, StaShape, StaAdminType
<1>4. QED
  BY <1>1, <1>2, <1>3 DEF StaInit, StaInv, StaHeld, StaReached, StaPassed, StaPasswordKept

\* What is known of the schema is what is promised.
LEMMA StaPromise == StaInv => StaSound
BY DEF StaInv, StaReached, StaPassed, StaSound, StaTruthful, StaHealthy

\* A clean version has all its migrations, a healthy process the schema it was built
\* for, and a chosen password stays (RunMigrations, checkMigrations,
\* ensureAdminUserWithPassword), for any number of processes, migrations and kills.
THEOREM StartupSound == StaSpec => []StaSound
BY StaStart, StaStep, StaPromise, PTL DEF StaSpec

-----------------------------------------------------------------------------
(* Tasks: one of a kind at a time, and the partitions of the analytics.          *)

TskLocks == TskTasks \cup {"unknown"}
TskProcType == [at : {"idle", "locking", "running", "collecting", "retaining", "releasing"},
                task : TskLocks \cup {"none"}, lost : BOOLEAN]
TskRowType == [month : Nat, default : BOOLEAN]

TskShape ==
    /\ tskLock \in [TskLocks -> TskProcs \cup {TskNobody}]
    /\ tskProc \in [TskProcs -> TskProcType]
    /\ \A p \in TskProcs : tskProc[p].at # "idle" => tskProc[p].task \in TskLocks
    /\ tskMonth \in Nat
    /\ tskRows \subseteq TskRowType
    /\ tskEnsured \subseteq 0 .. tskMonth /\ tskWritten \subseteq Nat

\* A run whose session was not ended holds its lock.
TskHolds ==
    \A p \in TskProcs :
        tskProc[p].at \notin {"idle", "locking"} /\ ~tskProc[p].lost
            => tskLock[tskProc[p].task] = p

\* A month ensured from has its partitions, but for those that were dropped since;
\* rows went to the default partition only when there was no other.
TskParted ==
    /\ \A m \in tskEnsured : \A k \in TskMonths(m) : k \in tskParts \/ k + TskKeep < tskMonth
    /\ \A r \in tskRows : r.month <= tskMonth /\ (r.default => r.month \notin tskParts)

TskInv == TskShape /\ TskHolds /\ TskParted /\ TskPartitioned /\ TskRetained

\* A step that moves only locks and processes: one process goes to a record, the
\* others that hold their lock keep it.
LEMMA TskLockStep ==
    ASSUME TskInv, NEW p \in TskProcs, NEW new \in TskProcType,
           tskProc' = [tskProc EXCEPT ![p] = new], UNCHANGED tskAnalytics,
           new.at # "idle" => new.task \in TskLocks,
           tskLock' \in [TskLocks -> TskProcs \cup {TskNobody}],
           new.at \notin {"idle", "locking"} /\ ~new.lost => tskLock'[new.task] = p,
           \A q \in TskProcs \ {p}, t \in TskLocks : tskLock[t] = q => tskLock'[t] = q
    PROVE  TskInv'
<1>1. /\ tskProc' \in [TskProcs -> TskProcType]
      /\ tskProc'[p] = new /\ \A q \in TskProcs \ {p} : tskProc'[q] = tskProc[q]
  BY DEF TskInv, TskShape
<1>2. UNCHANGED <<tskMonth, tskParts, tskRows, tskEnsured, tskWritten>>
  BY DEF tskAnalytics
<1>3. TskShape'
  BY <1>1, <1>2 DEF TskInv, TskShape
<1>4. TskHolds'
  BY <1>1 DEF TskInv, TskShape, TskHolds
<1>5. TskParted' /\ TskPartitioned' /\ TskRetained'
  BY <1>2 DEF TskInv, TskParted, TskPartitioned, TskRetained
<1>6. QED
  BY <1>3, <1>4, <1>5 DEF TskInv

\* What is known of a process.
LEMMA TskProcFacts ==
    ASSUME TskInv, NEW p \in TskProcs
    PROVE  /\ tskProc[p] \in TskProcType
           /\ tskProc[p].at # "idle" => tskProc[p].task \in TskLocks
           /\ tskProc[p].at \notin {"idle", "locking"} /\ ~tskProc[p].lost
                 => tskLock[tskProc[p].task] = p
BY DEF TskInv, TskShape, TskHolds

\* Where a process goes on to keeps its task and what became of its session.
LEMMA TskGoFacts ==
    ASSUME TskInv, NEW p \in TskProcs,
           NEW at \in {"idle", "locking", "running", "collecting", "retaining", "releasing"},
           TskGo(p, at)
    PROVE  \E new \in TskProcType :
              /\ tskProc' = [tskProc EXCEPT ![p] = new]
              /\ new.at = at /\ new.task = tskProc[p].task /\ new.lost = tskProc[p].lost
<1> DEFINE new == [tskProc[p] EXCEPT !.at = at]
<1>1. /\ new \in TskProcType /\ new.at = at /\ new.task = tskProc[p].task
      /\ new.lost = tskProc[p].lost
  BY TskProcFacts DEF TskProcType
<1>2. tskProc' = [tskProc EXCEPT ![p] = new]
  BY DEF TskGo
<1> HIDE DEF new
<1>3. QED
  BY <1>1, <1>2

\* What a process at rest is.
LEMMA TskIdleFacts ==
    TskIdle \in TskProcType /\ TskIdle.at = "idle"
BY DEF TskIdle, TskProcType

\* A process comes to rest.
LEMMA TskRestStep ==
    ASSUME TskInv, NEW p \in TskProcs, TskRest(p), UNCHANGED tskAnalytics,
           tskLock' \in [TskLocks -> TskProcs \cup {TskNobody}],
           \A q \in TskProcs \ {p}, t \in TskLocks : tskLock[t] = q => tskLock'[t] = q
    PROVE  TskInv'
<1> DEFINE new == TskIdle
<1>1. new \in TskProcType /\ new.at = "idle"
  BY TskIdleFacts
<1>2. tskProc' = [tskProc EXCEPT ![p] = new]
  BY DEF TskRest
<1> HIDE DEF new
<1>3. QED
  BY <1>1, <1>2, TskLockStep

\* A process gets a task, its lock, and works.
LEMMA TskGetStep ==
    ASSUME TskInv, NEW p \in TskProcs, TskArrive(p) \/ TskTryLock(p) \/ TskWork(p)
    PROVE  TskInv'
<1>1. UNCHANGED tskAnalytics
  BY DEF TskArrive, TskTryLock, TskWork, tskAnalytics
<1>2. tskLock \in [TskLocks -> TskProcs \cup {TskNobody}]
  BY DEF TskInv, TskShape
<1>3. CASE TskArrive(p)
  <2>1. PICK task \in TskLocks :
           tskProc' = [tskProc EXCEPT ![p] = [TskIdle EXCEPT !.at = "locking", !.task = task]]
    BY <1>3 DEF TskArrive, TskLocks
  <2> DEFINE new == [TskIdle EXCEPT !.at = "locking", !.task = task]
  <2>2. new \in TskProcType /\ new.at = "locking" /\ new.task \in TskLocks
    BY DEF TskIdle, TskProcType
  <2>3. tskProc' = [tskProc EXCEPT ![p] = new]
    BY <2>1
  <2>4. tskLock' = tskLock
    BY <1>3 DEF TskArrive
  <2> HIDE DEF new
  <2>5. QED
    BY <1>1, <1>2, <2>2, <2>3, <2>4, TskLockStep
<1>4. CASE TskTryLock(p)
  <2>1. PICK t \in TskLocks : t = tskProc[p].task
    BY <1>4, TskProcFacts DEF TskTryLock, TskAt
  <2>2. CASE TskGo(p, "running")
    <3>1. PICK new \in TskProcType :
             /\ tskProc' = [tskProc EXCEPT ![p] = new]
             /\ new.at = "running" /\ new.task = t
      BY <2>1, <2>2, TskGoFacts
    <3>2. CASE tskLock[t] = TskNobody /\ tskLock' = [tskLock EXCEPT ![t] = p]
      <4>1. /\ tskLock' \in [TskLocks -> TskProcs \cup {TskNobody}] /\ tskLock'[t] = p
            /\ \A q \in TskProcs \ {p}, u \in TskLocks : tskLock[u] = q => tskLock'[u] = q
        BY <1>2, <3>2, TskAssumption
      <4>2. QED
        BY <1>1, <3>1, <4>1, TskLockStep
    <3>3. CASE tskLock[t] = p /\ UNCHANGED tskLock
      BY <1>1, <1>2, <3>1, <3>3, TskLockStep
    <3>4. CASE TskRest(p) /\ UNCHANGED tskLock
      BY <1>1, <1>2, <3>4, TskRestStep
    <3>5. QED
      BY <1>4, <2>1, <3>2, <3>3, <3>4 DEF TskTryLock
  <2>3. CASE TskRest(p) /\ UNCHANGED tskLock
    BY <1>1, <1>2, <2>3, TskRestStep
  <2>4. QED
    BY <1>4, <2>2, <2>3 DEF TskTryLock
<1>5. CASE TskWork(p)
  <2>1. TskGo(p, "releasing") /\ tskLock' = tskLock /\ tskProc[p].at = "running"
    BY <1>5 DEF TskWork, TskAt
  <2>2. PICK new \in TskProcType :
           /\ tskProc' = [tskProc EXCEPT ![p] = new] /\ new.at = "releasing"
           /\ new.task = tskProc[p].task /\ new.lost = tskProc[p].lost
    BY <2>1, TskGoFacts
  <2>3. new.task \in TskLocks /\ (~new.lost => tskLock'[new.task] = p)
    BY <2>1, <2>2, TskProcFacts
  <2>4. QED
    BY <1>1, <1>2, <2>1, <2>2, <2>3, TskLockStep
<1>6. QED
  BY <1>3, <1>4, <1>5

\* A lock is released, or its session is ended by the database or with its process.
LEMMA TskEndStep ==
    ASSUME TskInv, NEW p \in TskProcs, TskRelease(p) \/ TskSession(p) \/ TskKill(p)
    PROVE  TskInv'
<1>1. UNCHANGED tskAnalytics
  BY DEF TskRelease, TskSession, TskKill
<1>2. tskLock \in [TskLocks -> TskProcs \cup {TskNobody}]
  BY DEF TskInv, TskShape
<1>3. CASE TskRelease(p)
  <2>1. PICK t \in TskLocks : t = tskProc[p].task
    BY <1>3, TskProcFacts DEF TskRelease, TskAt
  <2>2. tskLock' = tskLock \/ (tskLock[t] = p /\ tskLock' = [tskLock EXCEPT ![t] = TskNobody])
    BY <1>3, <2>1 DEF TskRelease
  <2>3. /\ tskLock' \in [TskLocks -> TskProcs \cup {TskNobody}]
        /\ \A q \in TskProcs \ {p}, u \in TskLocks : tskLock[u] = q => tskLock'[u] = q
    BY <1>2, <2>2
  <2>4. TskRest(p)
    BY <1>3 DEF TskRelease
  <2>5. QED
    BY <1>1, <2>3, <2>4, TskRestStep
<1>4. CASE TskSession(p)
  <2>1. /\ tskProc[p].task # "none" /\ tskLock[tskProc[p].task] = p
        /\ tskLock' = [tskLock EXCEPT ![tskProc[p].task] = TskNobody]
        /\ tskProc' = [tskProc EXCEPT ![p].lost = TRUE]
    BY <1>4 DEF TskSession
  <2>2. tskProc[p].task \in TskLocks
    BY <2>1, TskProcFacts DEF TskProcType
  <2>3. /\ tskLock' \in [TskLocks -> TskProcs \cup {TskNobody}]
        /\ \A q \in TskProcs \ {p}, u \in TskLocks : tskLock[u] = q => tskLock'[u] = q
    BY <1>2, <2>1, <2>2
  <2> DEFINE new == [tskProc[p] EXCEPT !.lost = TRUE]
  <2>4. /\ new \in TskProcType /\ new.task = tskProc[p].task
    BY TskProcFacts DEF TskProcType
  <2>5. new.lost = TRUE
    BY TskProcFacts DEF TskProcType
  <2>6. tskProc' = [tskProc EXCEPT ![p] = new]
    BY <2>1
  <2> HIDE DEF new
  <2>7. QED
    BY <1>1, <2>2, <2>3, <2>4, <2>5, <2>6, TskLockStep
<1>5. CASE TskKill(p)
  <2>1. tskLock' = [t \in TskLocks |-> IF tskLock[t] = p THEN TskNobody ELSE tskLock[t]]
    BY <1>2, <1>5 DEF TskKill
  <2>2. /\ tskLock' \in [TskLocks -> TskProcs \cup {TskNobody}]
        /\ \A q \in TskProcs \ {p}, u \in TskLocks : tskLock[u] = q => tskLock'[u] = q
    BY <1>2, <2>1
  <2>3. TskRest(p)
    BY <1>5 DEF TskKill
  <2>4. QED
    BY <1>1, <2>2, <2>3, TskRestStep
<1>6. QED
  BY <1>3, <1>4, <1>5

\* The pool closes a session nobody works with.
LEMMA TskRecycleStep ==
    ASSUME TskInv, TskRecycle
    PROVE  TskInv'
<1>1. PICK t \in tskLeft :
         /\ \A p \in TskProcs : tskProc[p].at = "idle" \/ tskLock[t] # p \/ tskProc[p].task # t
         /\ tskLock' = [tskLock EXCEPT ![t] = TskNobody]
  BY DEF TskRecycle, TskAt
<1>2. UNCHANGED <<tskProc, tskMonth, tskParts, tskRows, tskEnsured, tskWritten>>
  BY DEF TskRecycle, tskAnalytics
<1>3. TskShape'
  BY <1>1, <1>2 DEF TskInv, TskShape
<1>4. TskHolds'
  BY <1>1, <1>2, TskProcFacts DEF TskInv, TskShape, TskHolds
<1>5. TskParted' /\ TskPartitioned' /\ TskRetained'
  BY <1>2 DEF TskInv, TskParted, TskPartitioned, TskRetained
<1>6. QED
  BY <1>3, <1>4, <1>5 DEF TskInv

\* A process that works goes on with its work and its lock.
LEMMA TskWorkFacts ==
    ASSUME TskInv, NEW p \in TskProcs, NEW at \in {"collecting", "retaining", "releasing"},
           TskGo(p, at), tskProc[p].at \notin {"idle", "locking"}, UNCHANGED tskLock
    PROVE  /\ tskLock' \in [TskLocks -> TskProcs \cup {TskNobody}]
           /\ tskProc' \in [TskProcs -> TskProcType]
           /\ \A q \in TskProcs : tskProc'[q].at # "idle" => tskProc'[q].task \in TskLocks
           /\ TskHolds'
<1>1. PICK new \in TskProcType :
         /\ tskProc' = [tskProc EXCEPT ![p] = new]
         /\ new.at = at /\ new.task = tskProc[p].task /\ new.lost = tskProc[p].lost
  BY TskGoFacts
<1>2. /\ tskProc' \in [TskProcs -> TskProcType]
      /\ tskProc'[p] = new /\ \A q \in TskProcs \ {p} : tskProc'[q] = tskProc[q]
  BY <1>1 DEF TskInv, TskShape
<1>3. QED
  BY <1>1, <1>2, TskProcFacts DEF TskInv, TskShape, TskHolds

\* The partitions of a month and those ahead of it are made, or not.
LEMMA TskEnsureStep ==
    ASSUME TskInv, NEW p \in TskProcs, TskEnsure(p)
    PROVE  TskInv'
<1>1. /\ TskGo(p, "collecting") /\ tskProc[p].at = "running"
      /\ UNCHANGED <<tskLock, tskMonth, tskRows, tskWritten>>
  BY DEF TskEnsure, TskAt
<1>2. /\ tskLock' \in [TskLocks -> TskProcs \cup {TskNobody}]
      /\ tskProc' \in [TskProcs -> TskProcType]
      /\ \A q \in TskProcs : tskProc'[q].at # "idle" => tskProc'[q].task \in TskLocks
      /\ TskHolds'
  BY <1>1, TskWorkFacts
<1>3. CASE UNCHANGED <<tskParts, tskEnsured>>
  BY <1>1, <1>2, <1>3 DEF TskInv, TskShape, TskParted, TskPartitioned, TskRetained
<1>4. CASE /\ \A r \in tskRows : r.default => r.month \notin TskMonths(tskMonth) \ tskParts
           /\ tskParts' = tskParts \cup (TskMonths(tskMonth) \ tskParts)
           /\ tskEnsured' = tskEnsured \cup {tskMonth}
  <2>1. tskMonth \in Nat /\ TskAhead \in Nat /\ tskMonth \in TskMonths(tskMonth)
    BY TskAssumption DEF TskInv, TskShape, TskMonths
  <2>2. TskShape'
    <3>1. tskEnsured' \subseteq 0 .. tskMonth
      <4>1. tskEnsured \subseteq 0 .. tskMonth
        BY DEF TskInv, TskShape
      <4>2. tskMonth \in 0 .. tskMonth
        BY <2>1
      <4>3. QED
        BY <1>4, <4>1, <4>2
    <3>2. QED
      BY <1>1, <1>2, <3>1 DEF TskInv, TskShape
  <2>3. TskParted'
    BY <1>1, <1>4 DEF TskInv, TskParted
  <2>4. ASSUME NEW r \in tskRows, r.default PROVE tskMonth > r.month
    <3>1. r.month \in Nat /\ r.month <= tskMonth /\ r.month \notin tskParts
      BY <2>4 DEF TskInv, TskShape, TskParted, TskRowType
    <3>2. r.month # tskMonth
      BY <1>4, <2>1, <2>4, <3>1
    <3>3. QED
      BY <2>1, <3>1, <3>2
  <2>5. TskPartitioned'
    BY <1>1, <1>4, <2>4 DEF TskInv, TskPartitioned
  <2>6. TskRetained'
    BY <1>1 DEF TskInv, TskRetained
  <2>7. QED
    BY <1>2, <2>2, <2>3, <2>5, <2>6 DEF TskInv
<1>5. QED
  BY <1>3, <1>4 DEF TskEnsure

\* A snapshot is written, to the partition of its month or to the default one.
LEMMA TskCollectStep ==
    ASSUME TskInv, NEW p \in TskProcs, TskCollect(p)
    PROVE  TskInv'
<1>1. PICK at \in {"retaining", "releasing"} : TskGo(p, at)
  BY DEF TskCollect
<1>2. /\ tskProc[p].at = "collecting"
      /\ UNCHANGED <<tskLock, tskMonth, tskParts, tskEnsured>>
  BY DEF TskCollect, TskAt
<1>3. /\ tskLock' \in [TskLocks -> TskProcs \cup {TskNobody}]
      /\ tskProc' \in [TskProcs -> TskProcType]
      /\ \A q \in TskProcs : tskProc'[q].at # "idle" => tskProc'[q].task \in TskLocks
      /\ TskHolds'
  BY <1>1, <1>2, TskWorkFacts
<1>4. CASE UNCHANGED <<tskRows, tskWritten>>
  BY <1>2, <1>3, <1>4 DEF TskInv, TskShape, TskParted, TskPartitioned, TskRetained
<1>5. CASE /\ tskRows' = tskRows \cup {[month |-> tskMonth, default |-> tskMonth \notin tskParts]}
           /\ tskWritten' = tskWritten \cup {tskMonth}
  <2> DEFINE default == tskMonth \notin tskParts
             row == [month |-> tskMonth, default |-> default]
  <2>1. default \in BOOLEAN /\ tskMonth \in Nat
    BY DEF TskInv, TskShape
  <2>2. row \in TskRowType /\ row.month = tskMonth /\ tskRows' = tskRows \cup {row}
    BY <1>5, <2>1 DEF TskRowType
  <2>3. row.default => tskMonth \notin tskParts
    OBVIOUS
  <2> HIDE DEF row, default
  <2>4. TskShape'
    <3>1. tskRows' \subseteq TskRowType /\ tskWritten' \subseteq Nat
      BY <1>5, <2>1, <2>2 DEF TskInv, TskShape
    <3>2. QED
      BY <1>2, <1>3, <3>1 DEF TskInv, TskShape
  <2>5. TskParted'
    BY <1>2, <2>1, <2>2, <2>3 DEF TskInv, TskParted
  <2>6. ASSUME NEW m \in tskEnsured, tskMonth \notin tskParts
        PROVE  m > tskMonth \/ m + TskAhead < tskMonth
    <3>1. m \in Nat /\ m <= tskMonth /\ TskAhead \in Nat /\ TskKeep \in Nat
      BY TskAssumption DEF TskInv, TskShape
    <3>2. tskMonth \notin TskMonths(m)
      BY <2>1, <2>6, <3>1 DEF TskInv, TskParted
    <3>3. QED
      BY <2>1, <3>1, <3>2 DEF TskMonths
  <2>7. TskPartitioned'
    BY <1>2, <2>2, <2>3, <2>6 DEF TskInv, TskPartitioned
  <2>8. TskRetained'
    BY <1>2, <1>5, <2>2 DEF TskInv, TskRetained
  <2>9. QED
    BY <1>3, <2>4, <2>5, <2>7, <2>8 DEF TskInv
<1>6. QED
  BY <1>4, <1>5 DEF TskCollect

\* Old partitions are dropped with their rows, or not.
LEMMA TskRetainStep ==
    ASSUME TskInv, NEW p \in TskProcs, TskRetain(p)
    PROVE  TskInv'
<1>1. /\ TskGo(p, "releasing") /\ tskProc[p].at = "retaining"
      /\ UNCHANGED <<tskLock, tskMonth, tskEnsured, tskWritten>>
  BY DEF TskRetain, TskAt
<1>2. /\ tskLock' \in [TskLocks -> TskProcs \cup {TskNobody}]
      /\ tskProc' \in [TskProcs -> TskProcType]
      /\ \A q \in TskProcs : tskProc'[q].at # "idle" => tskProc'[q].task \in TskLocks
      /\ TskHolds'
  BY <1>1, TskWorkFacts
<1>3. CASE UNCHANGED <<tskParts, tskRows>>
  BY <1>1, <1>2, <1>3 DEF TskInv, TskShape, TskParted, TskPartitioned, TskRetained
<1>4. CASE /\ tskParts' = {m \in tskParts : ~TskOld(m)}
           /\ tskRows' = {r \in tskRows : r.default \/ ~TskOld(r.month)}
  <2>1. TskShape'
    BY <1>1, <1>2, <1>4 DEF TskInv, TskShape
  <2>2. TskParted'
    BY <1>1, <1>4 DEF TskInv, TskParted, TskOld
  <2>3. TskPartitioned'
    BY <1>1, <1>4 DEF TskInv, TskPartitioned
  <2>4. \A m \in tskWritten : m + TskKeep >= tskMonth => \E r \in tskRows' : r.month = m
    <3> SUFFICES ASSUME NEW m \in tskWritten, m + TskKeep >= tskMonth
                 PROVE  \E r \in tskRows' : r.month = m
      OBVIOUS
    <3>1. PICK r \in tskRows : r.month = m
      BY DEF TskInv, TskRetained
    <3>2. ~TskOld(r.month)
      BY <3>1, TskAssumption DEF TskOld, TskInv, TskShape, TskRowType
    <3>3. QED
      BY <1>4, <3>1, <3>2
  <2>5. TskRetained'
    BY <1>1, <2>4 DEF TskRetained
  <2>6. QED
    BY <1>2, <2>1, <2>2, <2>3, <2>5 DEF TskInv
<1>5. QED
  BY <1>3, <1>4 DEF TskRetain

\* A month begins.
LEMMA TskMonthStep ==
    ASSUME TskInv, TskNewMonth
    PROVE  TskInv'
<1>1. /\ tskMonth' = tskMonth + 1 /\ tskMonth \in Nat /\ TskKeep \in Nat /\ TskAhead \in Nat
      /\ UNCHANGED <<tskLock, tskProc, tskParts, tskRows, tskEnsured, tskWritten>>
  BY TskAssumption DEF TskNewMonth, TskInv, TskShape
<1>2. TskShape' /\ TskHolds'
  BY <1>1 DEF TskInv, TskShape, TskHolds
<1>3. TskParted'
  BY <1>1 DEF TskInv, TskShape, TskParted, TskMonths, TskRowType
<1>4. TskPartitioned'
  BY <1>1 DEF TskInv, TskPartitioned
<1>5. TskRetained'
  <2> SUFFICES ASSUME NEW m \in tskWritten, m + TskKeep >= tskMonth + 1
               PROVE  \E r \in tskRows : r.month = m
    BY <1>1 DEF TskRetained
  <2>1. QED
    BY <1>1 DEF TskInv, TskShape, TskRetained
<1>6. QED
  BY <1>2, <1>3, <1>4, <1>5 DEF TskInv

\* Every step of the tasks keeps their locks and the partitions.
LEMMA TskStep ==
    ASSUME TskInv, [TskNext]_tskVars
    PROVE  TskInv'
<1>1. CASE TskNext
  BY <1>1, TskGetStep, TskEndStep, TskEnsureStep, TskCollectStep, TskRetainStep, TskRecycleStep,
     TskMonthStep DEF TskNext
<1>2. CASE UNCHANGED tskVars
  BY <1>2 DEF tskVars, tskAnalytics, TskInv, TskShape, TskHolds, TskParted, TskPartitioned,
              TskRetained
<1>3. QED
  BY <1>1, <1>2

\* At first nothing runs and there is nothing to keep.
LEMMA TskStart == TskInit => TskInv
BY TskIdleFacts DEF TskInit, TskInv, TskShape, TskHolds, TskParted, TskPartitioned, TskRetained,
                    TskLocks

\* Two runs that hold the lock of one task are one run.
LEMMA TskPromise == TskInv => TskSound
BY DEF TskInv, TskHolds, TskSound, TskExclusive, TskRunning

\* Tasks run alone unless the database ended a session, snapshots land in their
\* partition once it could be made and stay for the months that are kept
\* (HandleScheduledTask, handleCollectAnalytics), for any processes, tasks and months.
THEOREM ScheduledSound == TskSpec => []TskSound
BY TskStart, TskStep, TskPromise, PTL DEF TskSpec

-----------------------------------------------------------------------------
(* Limits: no stretch as long as a window lets more than two windows' through. *)

LimTimes == 0 .. LimLastTick

\* Where the attempts of a caller are counted.
LimEntry(k) == IF limConnected THEN limRow[k] ELSE limMemory[k]
LimRunning(k) == LimEntry(k) # LimNone /\ limNow <= LimEntry(k).end
LimBegin(k) == LimEntry(k).end - LimWindow

\* Attempts let through from a moment on, and in a stretch.
LimFrom(t) == {s \in LimTimes : s >= t}
LimStretch(t) == {s \in LimTimes : t <= s /\ s <= t + LimWindow}

LimLeast(n) == IF n <= LimMax THEN n ELSE LimMax

LimShape ==
    /\ limNow \in LimTimes
    /\ limGiven \in [LimKeys -> [LimTimes -> Nat]]
    /\ limMemory \in [LimKeys -> [count : Nat, end : Nat] \cup {LimNone}]
    /\ limRow \in [LimKeys -> [count : Nat, end : Nat] \cup {LimNone}]
    /\ limConnected \in BOOLEAN
    /\ ~limConnected => \A k \in LimKeys : limRow[k] = LimNone

\* What a caller got: nothing in the future; while a window runs, no more in it
\* than it counts, and no more than a window's beside that since a window's
\* length before it began; after it, no more than a window's in the last one.
LimHeld(k) ==
    LET g == limGiven[k]
        count == LimLeast(LimEntry(k).count)
    IN  /\ Total(g, LimFrom(limNow + 1)) = 0
        /\ \A t \in Int : Total(g, LimStretch(t)) <= 2 * LimMax
        /\ LimRunning(k) =>
              /\ LimBegin(k) <= limNow
              /\ Total(g, LimFrom(LimBegin(k))) <= count
              /\ \A t \in Int :
                    t >= LimBegin(k) - LimWindow => Total(g, LimFrom(t)) <= LimMax + count
        /\ ~LimRunning(k) =>
              /\ Total(g, LimFrom(limNow)) = 0
              /\ \A t \in Int : t >= limNow - LimWindow => Total(g, LimFrom(t)) <= LimMax

LimInv == LimShape /\ \A k \in LimKeys \ limEvicted : LimHeld(k)

\* There are finitely many moments.
LEMMA LimFinite == \A S \in SUBSET LimTimes : IsFiniteSet(S)
<1>1. IsFiniteSet(LimTimes)
  BY FS_Interval, LimAssumption DEF LimTimes
<1>2. QED
  BY <1>1, FS_Subset

\* Sums of attempts are naturals, and those of fewer moments no greater.
LEMMA LimSums ==
    ASSUME NEW g \in [LimTimes -> Nat], NEW T \in SUBSET LimTimes, NEW S \in SUBSET T
    PROVE  Total(g, S) \in Nat /\ Total(g, T) \in Nat /\ Total(g, S) <= Total(g, T)
<1>2. IsFiniteSet(T) /\ IsFiniteSet(S)
  BY LimFinite
<1>3. \A x \in T : g[x] \in Nat
  OBVIOUS
<1>4. \A x \in S : g[x] <= g[x] /\ g[x] \in Nat
  BY <1>3
<1>5. QED
  BY <1>2, <1>3, <1>4, TotalStep, TotalMono

\* One attempt more adds one to the sums that have its moment.
LEMMA LimOneMore ==
    ASSUME NEW g \in [LimTimes -> Nat], NEW n \in LimTimes, NEW S \in SUBSET LimTimes
    PROVE  /\ [g EXCEPT ![n] = @ + 1] \in [LimTimes -> Nat]
           /\ Total([g EXCEPT ![n] = @ + 1], S) = Total(g, S) + (IF n \in S THEN 1 ELSE 0)
<1> DEFINE h == [g EXCEPT ![n] = @ + 1]
           R == S \ {n}
<1>1. h \in [LimTimes -> Nat] /\ h[n] = g[n] + 1 /\ \A x \in R : h[x] = g[x]
  OBVIOUS
<1>2. IsFiniteSet(S) /\ IsFiniteSet(R)
  <2>1. R \in SUBSET LimTimes
    OBVIOUS
  <2>2. QED
    BY <2>1, LimFinite
<1>3. (\A x \in S : g[x] \in Nat /\ h[x] \in Nat) /\ \A x \in R : g[x] \in Nat /\ h[x] = g[x]
  BY <1>1
<1> HIDE DEF h
<1>4. Total(h, R) = Total(g, R) /\ Total(g, R) \in Nat
  <2> HIDE DEF R
  <2>1. QED
    BY <1>2, <1>3, TotalSame, TotalStep
<1>5. CASE n \in S
  <2>1. Total(h, S) = h[n] + Total(h, R) /\ Total(g, S) = g[n] + Total(g, R)
    BY <1>2, <1>3, <1>5, TotalRemove
  <2>2. g[n] \in Nat
    OBVIOUS
  <2> HIDE DEF R
  <2>3. Total(h, S) = Total(g, S) + 1
    BY <1>1, <1>4, <2>1, <2>2
  <2>4. QED
    BY <1>1, <1>5, <2>3 DEF h
<1>6. CASE n \notin S
  <2>1. R = S
    BY <1>6
  <2>2. Total(h, S) = Total(g, S) + 0
    BY <1>4, <2>1
  <2>3. QED
    BY <1>1, <1>6, <2>2 DEF h
<1>7. QED
  BY <1>5, <1>6

------------------------------------------------------------------------------
\* One attempt of a caller whose count is then at most a window's.
LEMMA LimGiven ==
    ASSUME LimInv, NEW k \in LimKeys \ limEvicted, LimGive(k), UNCHANGED limNow,
           LimRunning(k)', LimEntry(k)'.count <= LimMax, LimEntry(k)'.count \in Nat,
           \/ /\ LimRunning(k) /\ LimBegin(k)' = LimBegin(k)
              /\ LimEntry(k)'.count = LimEntry(k).count + 1 /\ LimEntry(k).count \in Nat
           \/ ~LimRunning(k) /\ LimBegin(k)' = limNow /\ LimEntry(k)'.count = 1,
           LimBegin(k) \in Int \/ ~LimRunning(k)
    PROVE  LimHeld(k)'
<1> DEFINE g == limGiven[k]
           h == limGiven'[k]
           b == LimBegin(k)'
           c == LimEntry(k)'.count
<1>1. /\ g \in [LimTimes -> Nat] /\ limNow \in LimTimes /\ limNow \in Nat
      /\ h = [g EXCEPT ![limNow] = @ + 1]
      /\ LimWindow \in Nat /\ LimMax \in Nat
  BY LimAssumption DEF LimInv, LimShape, LimGive, LimTimes
<1>2. ASSUME NEW S \in SUBSET LimTimes
      PROVE  /\ Total(g, S) \in Nat
             /\ Total(h, S) = Total(g, S) + (IF limNow \in S THEN 1 ELSE 0)
  <2> HIDE DEF g, h
  <2>1. QED
    BY <1>1, LimOneMore, LimSums
<1>3. LimHeld(k)
  BY DEF LimInv
<1>4. ASSUME NEW t \in Int
      PROVE  /\ LimFrom(t) \in SUBSET LimTimes /\ LimStretch(t) \in SUBSET LimTimes
             /\ limNow \in LimFrom(t) <=> t <= limNow
             /\ limNow \in LimStretch(t) <=> t <= limNow /\ limNow <= t + LimWindow
             /\ LimStretch(t) \subseteq LimFrom(t)
  BY <1>1 DEF LimFrom, LimStretch, LimTimes
<1>5. b \in Int /\ b <= limNow /\ c \in Nat /\ c <= LimMax /\ LimLeast(c) = c
  BY <1>1, <1>3 DEF LimHeld, LimLeast
<1>6. ASSUME NEW t \in Int
      PROVE  /\ Total(g, LimFrom(t)) \in Nat /\ Total(g, LimStretch(t)) \in Nat
             /\ Total(h, LimFrom(t)) = Total(g, LimFrom(t)) + (IF t <= limNow THEN 1 ELSE 0)
             /\ Total(h, LimStretch(t)) = Total(g, LimStretch(t))
                    + (IF t <= limNow /\ limNow <= t + LimWindow THEN 1 ELSE 0)
  <2> HIDE DEF g, h
  <2>1. QED
    BY <1>2, <1>4
<1>7. /\ Total(g, LimFrom(b)) <= c - 1
      /\ \A t \in Int : t >= b - LimWindow => Total(g, LimFrom(t)) <= LimMax + (c - 1)
  <2>1. CASE LimRunning(k)
    <3>1. LimLeast(LimEntry(k).count) = c - 1 /\ b = LimBegin(k)
      BY <1>1, <1>3, <1>5, <2>1 DEF LimLeast, LimHeld
    <3>2. /\ Total(g, LimFrom(LimBegin(k))) <= LimLeast(LimEntry(k).count)
          /\ \A t \in Int : t >= LimBegin(k) - LimWindow =>
                Total(g, LimFrom(t)) <= LimMax + LimLeast(LimEntry(k).count)
      BY <1>3, <2>1 DEF LimHeld
    <3> HIDE DEF b, c, g
    <3>3. QED
      BY <3>1, <3>2
  <2>2. CASE ~LimRunning(k)
    <3>1. c = 1 /\ b = limNow
      BY <1>3, <2>2 DEF LimHeld
    <3>2. /\ Total(g, LimFrom(limNow)) = 0
          /\ \A t \in Int : t >= limNow - LimWindow => Total(g, LimFrom(t)) <= LimMax
      BY <1>3, <2>2 DEF LimHeld
    <3> HIDE DEF b, c, g
    <3>3. QED
      BY <1>1, <3>1, <3>2
  <2>3. QED
    BY <2>1, <2>2
<1>14. limNow \in Nat /\ LimMax \in Nat /\ LimWindow \in Nat
  BY <1>1
<1> HIDE DEF b, c, g, h
<1>12. Total(h, LimFrom(b)) <= c
  BY <1>5, <1>6, <1>7
<1>13. ASSUME NEW t \in Int, t >= b - LimWindow PROVE Total(h, LimFrom(t)) <= LimMax + c
  <2>1. Total(g, LimFrom(t)) <= LimMax + (c - 1) /\ Total(g, LimFrom(t)) \in Nat
    BY <1>6, <1>7, <1>13
  <2>2. Total(h, LimFrom(t)) <= Total(g, LimFrom(t)) + 1 /\ Total(h, LimFrom(t)) \in Nat
    BY <1>6, <2>1
  <2>3. QED
    BY <1>5, <1>14, <2>1, <2>2
<1>8. ASSUME NEW t \in Int PROVE Total(h, LimStretch(t)) <= 2 * LimMax
  <2>1. CASE ~(t <= limNow /\ limNow <= t + LimWindow)
    <3>1. Total(g, LimStretch(t)) <= 2 * LimMax
      BY <1>3 DEF LimHeld, g
    <3>2. QED
      BY <1>6, <2>1, <3>1
  <2>2. CASE t <= limNow /\ limNow <= t + LimWindow
    <3>1. t >= b - LimWindow
      BY <1>1, <1>5, <2>2
    <3>2. Total(h, LimFrom(t)) <= LimMax + c
      BY <1>13, <3>1
    <3>3. h \in [LimTimes -> Nat]
      BY <1>1, LimOneMore
    <3>4. Total(h, LimStretch(t)) <= Total(h, LimFrom(t))
          /\ Total(h, LimStretch(t)) \in Nat /\ Total(h, LimFrom(t)) \in Nat
      BY <1>4, <3>3, LimSums
    <3>5. QED
      BY <1>1, <1>5, <3>2, <3>4
  <2>3. QED
    BY <2>1, <2>2
<1>9. Total(h, LimFrom(limNow + 1)) = 0
  <2>1. Total(g, LimFrom(limNow + 1)) = 0
    BY <1>3 DEF LimHeld, g
  <2>2. QED
    BY <1>6, <1>14, <2>1
<1>10. \A t \in Int : LimFrom(t)' = LimFrom(t) /\ LimStretch(t)' = LimStretch(t)
  BY DEF LimFrom, LimStretch, LimTimes
<1>11. QED
  BY <1>5, <1>12, <1>13, <1>8, <1>9, <1>10 DEF LimHeld, g, h, b, c

\* Nothing let through, and the same window or none as before.
LEMMA LimKept ==
    ASSUME LimInv, NEW k \in LimKeys \ limEvicted, limGiven'[k] = limGiven[k], UNCHANGED limNow,
           LimRunning(k)' <=> LimRunning(k),
           LimRunning(k) => /\ LimBegin(k)' = LimBegin(k)
                            /\ LimLeast(LimEntry(k)'.count) = LimLeast(LimEntry(k).count)
    PROVE  LimHeld(k)'
<1>1. \A t : LimFrom(t)' = LimFrom(t) /\ LimStretch(t)' = LimStretch(t)
  BY DEF LimFrom, LimStretch, LimTimes
<1>2. LimHeld(k)
  BY DEF LimInv
<1>3. QED
  BY <1>1, <1>2 DEF LimHeld

LEMMA LimStarts == LimInit => LimInv
<1> SUFFICES ASSUME LimInit PROVE LimInv
  OBVIOUS
<1>1. LimShape
  <2>1. limNow \in LimTimes /\ limGiven \in [LimKeys -> [LimTimes -> Nat]]
    BY LimAssumption DEF LimInit, LimTimes
  <2>2. limMemory \in [LimKeys -> {LimNone}] /\ limRow \in [LimKeys -> {LimNone}]
    BY DEF LimInit
  <2>3. limConnected \in BOOLEAN
    BY DEF LimInit
  <2>4. QED
    BY <2>1, <2>2, <2>3 DEF LimShape
<1>2. ASSUME NEW k \in LimKeys PROVE LimHeld(k)
  <2>1. ASSUME NEW S \in SUBSET LimTimes PROVE Total(limGiven[k], S) = 0
    <3>1. IsFiniteSet(S) /\ \A x \in S : limGiven[k][x] = 0
      BY LimFinite DEF LimInit, LimTimes
    <3>2. QED
      BY <3>1, TotalZero
  <2>2. \A t : LimFrom(t) \in SUBSET LimTimes /\ LimStretch(t) \in SUBSET LimTimes
    BY DEF LimFrom, LimStretch
  <2>3. ~LimRunning(k) /\ LimMax \in Nat
    BY LimAssumption DEF LimInit, LimRunning, LimEntry
  <2>4. QED
    BY <2>1, <2>2, <2>3 DEF LimHeld
<1>3. QED
  BY <1>1, <1>2 DEF LimInv

\* An entry counted once more.
LEMMA LimCounted ==
    ASSUME LimShape, NEW entry \in [count : Nat, end : Nat] \cup {LimNone}
    PROVE  LET new == LimCount(entry) IN
           /\ new \in [count : Nat, end : Nat]
           /\ \/ /\ entry # LimNone /\ limNow <= entry.end
                 /\ new = [count |-> entry.count + 1, end |-> entry.end]
              \/ /\ entry = LimNone \/ ~(limNow <= entry.end)
                 /\ new = [count |-> 1, end |-> limNow + LimWindow]
BY LimAssumption DEF LimShape, LimTimes, LimCount

LEMMA LimStays == LimInv /\ [LimNext]_limVars => LimInv'
<1> SUFFICES ASSUME LimInv, [LimNext]_limVars PROVE LimInv'
  OBVIOUS
<1> DEFINE Entries == [count : Nat, end : Nat]
<1>1. /\ LimShape /\ limNow \in Nat /\ LimMax \in Nat \ {0} /\ LimWindow \in Nat \ {0}
      /\ LimNone \notin Entries
  BY LimAssumption DEF LimInv, LimShape, LimTimes
<1>2. ASSUME NEW k \in LimKeys, LimGive(k) PROVE limGiven' \in [LimKeys -> [LimTimes -> Nat]]
  BY <1>2 DEF LimInv, LimShape, LimGive
<1>3. ASSUME NEW k \in LimKeys, LimGive(k), NEW q \in LimKeys \ {k} PROVE limGiven'[q] = limGiven[q]
  BY <1>3 DEF LimInv, LimShape, LimGive
<1>4. CASE \E k \in LimKeys : LimAllowRow(k)
  <2>1. PICK k \in LimKeys : LimAllowRow(k)
    BY <1>4
  <2> DEFINE old == limRow[k]
             new == LimCount(old)
             row == [new EXCEPT !.count = IF @ > LimMax THEN LimMax + 1 ELSE @]
  <2>2. /\ new \in Entries
        /\ \/ old # LimNone /\ limNow <= old.end /\ old \in Entries
              /\ new = [count |-> old.count + 1, end |-> old.end]
           \/ /\ old = LimNone \/ ~(limNow <= old.end)
              /\ new = [count |-> 1, end |-> limNow + LimWindow]
    BY <1>1, LimCounted DEF LimShape
  <2>3. /\ limConnected /\ limRow' = [limRow EXCEPT ![k] = row]
        /\ IF new.count <= LimMax THEN LimGive(k) ELSE UNCHANGED limGiven
        /\ UNCHANGED <<limNow, limMemory, limConnected, limEvicted>>
    BY <2>1 DEF LimAllowRow
  <2> HIDE DEF new, old
  <2>4. /\ row \in Entries /\ row.end = new.end
        /\ row.count = IF new.count > LimMax THEN LimMax + 1 ELSE new.count
    BY <1>1, <2>2
  <2> HIDE DEF row
  <2>5. limRow'[k] = row /\ \A q \in LimKeys \ {k} : limRow'[q] = limRow[q]
    BY <1>1, <2>3 DEF LimShape
  <2>6. LimShape'
    <3>1. limGiven' \in [LimKeys -> [LimTimes -> Nat]]
      BY <1>1, <1>2, <2>3 DEF LimShape
    <3>2. limRow' \in [LimKeys -> Entries \cup {LimNone}]
      BY <1>1, <2>3, <2>4 DEF LimShape
    <3>3. QED
      BY <1>1, <2>3, <3>1, <3>2 DEF LimShape, LimTimes
  <2>7. ASSUME NEW q \in LimKeys \ limEvicted, q # k PROVE LimHeld(q)'
    <3>1. limGiven'[q] = limGiven[q]
      BY <1>3, <2>3, <2>7
    <3>2. limRow'[q] = limRow[q]
      BY <2>5, <2>7
    <3>3. QED
      BY <2>3, <3>1, <3>2, LimKept DEF LimRunning, LimBegin, LimEntry
  <2>8. ASSUME k \notin limEvicted PROVE LimHeld(k)'
    <3>1. /\ LimEntry(k) = old /\ LimEntry(k)' = row /\ limNow' = limNow
      BY <2>3, <2>5 DEF LimEntry, old
    <3>2. LimRunning(k)' /\ LimBegin(k)' = row.end - LimWindow
      BY <1>1, <2>2, <2>4, <3>1 DEF LimRunning, LimBegin
    <3>3. CASE new.count <= LimMax
      <4>1. \/ /\ LimRunning(k) /\ LimBegin(k)' = LimBegin(k) /\ LimBegin(k) \in Int
               /\ LimEntry(k)'.count = LimEntry(k).count + 1 /\ LimEntry(k).count \in Nat
            \/ ~LimRunning(k) /\ LimBegin(k)' = limNow /\ LimEntry(k)'.count = 1
        BY <1>1, <2>2, <2>4, <3>1, <3>2, <3>3 DEF LimRunning, LimBegin
      <4>2. LimEntry(k)'.count <= LimMax /\ LimEntry(k)'.count \in Nat /\ LimGive(k)
        <5>1. new.count \in Nat /\ ~(new.count > LimMax) /\ LimGive(k)
          BY <1>1, <2>2, <2>3, <3>3
        <5>2. LimEntry(k)'.count = new.count
          BY <2>4, <3>1, <5>1
        <5>3. QED
          BY <3>3, <5>1, <5>2
      <4>3. QED
        BY <2>3, <2>8, <3>2, <4>1, <4>2, LimGiven
    <3>4. CASE ~(new.count <= LimMax)
      <4>1. /\ LimRunning(k) /\ LimBegin(k)' = LimBegin(k)
            /\ LimLeast(LimEntry(k)'.count) = LimMax /\ LimLeast(LimEntry(k).count) = LimMax
        BY <1>1, <2>2, <2>4, <3>1, <3>2, <3>4 DEF LimRunning, LimBegin, LimLeast
      <4>2. limGiven'[k] = limGiven[k]
        BY <2>3, <3>4
      <4>3. QED
        BY <2>8, <3>1, <3>2, <4>1, <4>2, LimKept
    <3>5. QED
      BY <3>3, <3>4
  <2>9. QED
    BY <2>3, <2>6, <2>7, <2>8 DEF LimInv
<1>5. CASE \E k \in LimKeys : LimAllowMemory(k)
  <2>1. PICK k \in LimKeys : LimAllowMemory(k)
    BY <1>5
  <2>2. PICK room \in LimRoom :
          /\ ~limConnected
          /\ limEvicted' = limEvicted \cup room.gone
          /\ IF LimLive(room.memory, k) /\ room.memory[k].count >= LimMax
             THEN limMemory' = room.memory /\ UNCHANGED limGiven
             ELSE limMemory' = [room.memory EXCEPT ![k] = LimCount(room.memory[k])] /\ LimGive(k)
          /\ UNCHANGED <<limNow, limRow, limConnected>>
    BY <2>1 DEF LimAllowMemory
  <2>3. /\ room.memory \in [LimKeys -> Entries \cup {LimNone}]
        /\ \A q \in LimKeys : \/ room.memory[q] = limMemory[q]
                              \/ q \in room.gone
                              \/ room.memory[q] = LimNone /\ ~LimLive(limMemory, q)
    BY <1>1, <2>2 DEF LimRoom, LimPurged, LimEvicted, LimShape
  <2> DEFINE old == room.memory[k]
             new == LimCount(old)
  <2>4. /\ new \in Entries
        /\ \/ old # LimNone /\ limNow <= old.end /\ old \in Entries
              /\ new = [count |-> old.count + 1, end |-> old.end]
           \/ /\ old = LimNone \/ ~(limNow <= old.end)
              /\ new = [count |-> 1, end |-> limNow + LimWindow]
    BY <1>1, <2>3, LimCounted
  <2> HIDE DEF new
  <2>5. LimShape'
    <3>1. limGiven' \in [LimKeys -> [LimTimes -> Nat]]
      BY <1>1, <1>2, <2>2 DEF LimShape
    <3>2. limMemory' \in [LimKeys -> Entries \cup {LimNone}]
      BY <2>2, <2>3, <2>4 DEF new
    <3>3. QED
      BY <1>1, <2>2, <3>1, <3>2 DEF LimShape, LimTimes
  <2>6. ASSUME NEW q \in LimKeys \ limEvicted', q # k PROVE LimHeld(q)'
    <3>1. limGiven'[q] = limGiven[q]
      BY <1>3, <2>2, <2>6
    <3>2. limMemory'[q] = room.memory[q] /\ q \notin limEvicted /\ q \notin room.gone
      BY <2>2, <2>3, <2>6
    <3>3. limMemory'[q] = limMemory[q] \/ (limMemory'[q] = LimNone /\ ~LimLive(limMemory, q))
      BY <2>3, <3>2
    <3>4. /\ LimEntry(q) = limMemory[q] /\ LimEntry(q)' = limMemory'[q] /\ limNow' = limNow
      BY <2>2 DEF LimEntry
    <3>5. LimRunning(q)' <=> LimRunning(q)
      BY <3>3, <3>4 DEF LimRunning, LimLive
    <3>6. LimRunning(q) => LimEntry(q)' = LimEntry(q)
      BY <3>3, <3>4 DEF LimRunning, LimLive
    <3>7. QED
      BY <3>1, <3>2, <3>4, <3>5, <3>6, LimKept DEF LimBegin
  <2>7. ASSUME k \notin limEvicted' PROVE LimHeld(k)'
    <3>1. k \notin limEvicted /\ k \notin room.gone
      BY <2>2, <2>7
    <3>2. old = limMemory[k] \/ (old = LimNone /\ ~LimLive(limMemory, k))
      BY <2>3, <3>1
    <3>3. LimEntry(k) = limMemory[k] /\ LimEntry(k)' = limMemory'[k] /\ limNow' = limNow
      BY <2>2 DEF LimEntry
    <3>4. LimRunning(k) <=> (old # LimNone /\ limNow <= old.end)
      BY <3>2, <3>3 DEF LimRunning, LimLive
    <3>5. LimRunning(k) => old = LimEntry(k)
      BY <3>2, <3>3 DEF LimRunning, LimLive
    <3>6. CASE LimLive(room.memory, k) /\ room.memory[k].count >= LimMax
      <4>1. limMemory'[k] = old /\ limGiven'[k] = limGiven[k] /\ LimRunning(k)
        BY <2>2, <3>4, <3>6 DEF LimLive
      <4>2. LimEntry(k)' = LimEntry(k)
        BY <3>3, <3>5, <4>1
      <4>3. QED
        BY <3>1, <3>3, <4>1, <4>2, LimKept DEF LimRunning, LimBegin
    <3>7. CASE ~(LimLive(room.memory, k) /\ room.memory[k].count >= LimMax)
      <4>1. limMemory'[k] = new /\ LimGive(k)
        BY <2>2, <2>3, <3>7 DEF new
      <4>2. LimRunning(k)' /\ LimBegin(k)' = new.end - LimWindow
        BY <1>1, <2>4, <3>3, <4>1 DEF LimRunning, LimBegin
      <4>3. \/ /\ LimRunning(k) /\ LimBegin(k)' = LimBegin(k) /\ LimBegin(k) \in Int
               /\ LimEntry(k)'.count = LimEntry(k).count + 1 /\ LimEntry(k).count \in Nat
            \/ ~LimRunning(k) /\ LimBegin(k)' = limNow /\ LimEntry(k)'.count = 1
        BY <1>1, <2>4, <3>3, <3>4, <3>5, <4>1, <4>2 DEF LimBegin
      <4>4. LimRunning(k) => ~(old.count >= LimMax)
        BY <3>4, <3>7 DEF LimLive
      <4>5. LimEntry(k)'.count <= LimMax /\ LimEntry(k)'.count \in Nat
        BY <1>1, <2>4, <3>3, <3>4, <4>1, <4>4
      <4>6. QED
        BY <3>1, <3>3, <4>1, <4>2, <4>3, <4>5, LimGiven
    <3>8. QED
      BY <3>6, <3>7
  <2>8. QED
    BY <2>5, <2>6, <2>7 DEF LimInv
<1>6. CASE LimConnect
  <2>1. LimShape'
    BY <1>1, <1>6 DEF LimConnect, LimShape, LimTimes
  <2>2. ASSUME NEW k \in LimKeys PROVE LimHeld(k)'
    <3>1. ASSUME NEW S \in SUBSET LimTimes PROVE Total(limGiven'[k], S) = 0
      <4>1. IsFiniteSet(S) /\ \A x \in S : limGiven'[k][x] = 0
        BY <1>6, LimFinite DEF LimConnect, LimTimes
      <4>2. QED
        BY <4>1, TotalZero
    <3>2. \A t : LimFrom(t)' \in SUBSET LimTimes /\ LimStretch(t)' \in SUBSET LimTimes
      BY DEF LimFrom, LimStretch, LimTimes
    <3>3. ~LimRunning(k)'
      BY <1>1, <1>6 DEF LimConnect, LimRunning, LimEntry, LimShape
    <3>4. QED
      BY <1>1, <3>1, <3>2, <3>3 DEF LimHeld
  <2>3. QED
    BY <2>1, <2>2 DEF LimInv
<1>7. CASE LimCleanup
  <2>1. PICK k \in LimKeys :
          /\ limRow[k] # LimNone /\ limRow[k].end < limNow
          /\ limRow' = [limRow EXCEPT ![k] = LimNone]
          /\ UNCHANGED <<limNow, limMemory, limConnected, limGiven, limEvicted>>
    BY <1>7 DEF LimCleanup
  <2>2. LimShape'
    BY <1>1, <2>1 DEF LimShape, LimTimes
  <2>3. limConnected /\ limRow[k] \in Entries
    BY <1>1, <2>1 DEF LimShape
  <2>4. ASSUME NEW q \in LimKeys \ limEvicted PROVE LimHeld(q)'
    <3>1. LimEntry(q) = limRow[q] /\ LimEntry(q)' = limRow'[q]
      BY <2>1, <2>3 DEF LimEntry
    <3>2. CASE q # k
      <4>1. limRow'[q] = limRow[q]
        BY <1>1, <2>1, <3>2 DEF LimShape
      <4>2. QED
        BY <2>1, <3>1, <4>1, LimKept DEF LimRunning, LimBegin
    <3>3. CASE q = k
      <4>1. ~LimRunning(q) /\ ~LimRunning(q)'
        BY <1>1, <2>1, <2>3, <3>1, <3>3 DEF LimRunning, LimShape
      <4>2. QED
        BY <2>1, <4>1, LimKept
    <3>4. QED
      BY <3>2, <3>3
  <2>5. QED
    BY <2>1, <2>2, <2>4 DEF LimInv
<1>8. CASE LimTick
  <2>1. limNow' = limNow + 1 /\ UNCHANGED <<limMemory, limRow, limConnected, limGiven, limEvicted>>
    BY <1>8 DEF LimTick
  <2>2. LimShape'
    BY <1>1, <1>8, LimAssumption DEF LimTick, LimShape, LimTimes
  <2>3. ASSUME NEW k \in LimKeys \ limEvicted PROVE LimHeld(k)'
    <3> DEFINE g == limGiven[k]
    <3>1. LimHeld(k) /\ g \in [LimTimes -> Nat]
      BY <1>1, <2>3 DEF LimInv, LimShape
    <3>2. ASSUME NEW t \in Int, NEW u \in Int, t >= u
          PROVE  /\ Total(g, LimFrom(t)) \in Nat /\ Total(g, LimFrom(u)) \in Nat
                 /\ Total(g, LimFrom(t)) <= Total(g, LimFrom(u))
      <4>1. LimFrom(u) \in SUBSET LimTimes /\ LimFrom(t) \in SUBSET LimFrom(u)
        BY <3>2, LimAssumption DEF LimFrom, LimTimes
      <4> HIDE DEF g
      <4>2. QED
        BY <3>1, <4>1, LimSums
    <3>3. Total(g, LimFrom(limNow + 1)) = 0 /\ Total(g, LimFrom(limNow + 2)) = 0
      <4>1. Total(g, LimFrom(limNow + 1)) = 0
        BY <3>1 DEF LimHeld
      <4> HIDE DEF g
      <4>2. QED
        BY <1>1, <3>2, <4>1
    <3>4. \A t : LimFrom(t)' = LimFrom(t) /\ LimStretch(t)' = LimStretch(t)
      BY DEF LimFrom, LimStretch, LimTimes
    <3>5. /\ LimEntry(k)' = LimEntry(k) /\ LimBegin(k)' = LimBegin(k)
          /\ LimRunning(k)' => LimRunning(k)
          /\ LimEntry(k) = LimNone \/ LimEntry(k) \in Entries
      BY <1>1, <2>1 DEF LimEntry, LimBegin, LimRunning, LimShape
    <3>6. (limNow + 1) + 1 = limNow + 2
      BY <1>1
    <3>7. CASE LimRunning(k)'
      <4>1. LimBegin(k) <= limNow + 1
        BY <1>1, <3>1, <3>5, <3>7 DEF LimHeld, LimBegin, LimRunning
      <4>2. QED
        BY <2>1, <3>1, <3>3, <3>4, <3>5, <3>6, <3>7, <4>1 DEF LimHeld
    <3>8. CASE ~LimRunning(k)'
      <4>1. ASSUME NEW t \in Int, t >= (limNow + 1) - LimWindow
            PROVE  Total(g, LimFrom(t)) <= LimMax
        <5>1. CASE LimRunning(k)
          <6>1. LimEntry(k) \in Entries /\ LimEntry(k).end = limNow
            BY <1>1, <2>1, <3>5, <3>8, <5>1 DEF LimRunning
          <6>2. LimBegin(k) \in Int /\ t >= LimBegin(k)
            BY <1>1, <4>1, <6>1 DEF LimBegin
          <6>3. /\ Total(g, LimFrom(LimBegin(k))) <= LimLeast(LimEntry(k).count)
                /\ LimLeast(LimEntry(k).count) <= LimMax
                /\ LimLeast(LimEntry(k).count) \in Nat
            BY <1>1, <3>1, <5>1, <6>1 DEF LimHeld, LimLeast
          <6> HIDE DEF g
          <6>4. /\ Total(g, LimFrom(t)) <= Total(g, LimFrom(LimBegin(k)))
                /\ Total(g, LimFrom(t)) \in Nat /\ Total(g, LimFrom(LimBegin(k))) \in Nat
            BY <3>2, <6>2
          <6>5. QED
            BY <1>1, <6>3, <6>4
        <5>2. CASE ~LimRunning(k)
          <6>1. t >= limNow - LimWindow
            BY <1>1, <4>1
          <6>2. QED
            BY <3>1, <5>2, <6>1 DEF LimHeld
        <5>3. QED
          BY <5>1, <5>2
      <4>2. QED
        BY <2>1, <3>1, <3>3, <3>4, <3>6, <3>8, <4>1 DEF LimHeld
    <3>9. QED
      BY <3>7, <3>8
  <2>4. QED
    BY <2>1, <2>2, <2>3 DEF LimInv
<1>9. CASE UNCHANGED limVars
  <2>1. LimShape'
    BY <1>1, <1>9 DEF limVars, LimShape, LimTimes
  <2>2. \A k \in LimKeys \ limEvicted : LimHeld(k)'
    BY <1>9, LimKept DEF limVars, LimRunning, LimBegin, LimEntry
  <2>3. QED
    BY <1>9, <2>1, <2>2 DEF limVars, LimInv
<1>10. QED
  BY <1>4, <1>5, <1>6, <1>7, <1>8, <1>9 DEF LimNext

\* The property speaks of the same sums.
LEMMA LimGoal == LimInv => LimBounded
<1> SUFFICES ASSUME LimInv, NEW k \in LimKeys \ limEvicted, NEW t \in LimTimes,
                    t + LimWindow <= LimLastTick
             PROVE  LimSum(k, t .. t + LimWindow) <= 2 * LimMax
  BY DEF LimBounded, LimTimes
<1> DEFINE S == t .. t + LimWindow
           g == limGiven[k]
<1>1. S = LimStretch(t) /\ IsFiniteSet(S) /\ S \in SUBSET LimTimes /\ t \in Int
  <2>1. S = LimStretch(t) /\ S \in SUBSET LimTimes /\ t \in Int
    BY LimAssumption DEF LimStretch, LimTimes
  <2>2. QED
    BY <2>1, LimFinite
<1>2. \A x \in S : g[x] \in Nat
  BY <1>1 DEF LimInv, LimShape
<1>3. Total(g, S) <= 2 * LimMax
  BY <1>1 DEF LimInv, LimHeld
<1>4. MapThenSumSet(LAMBDA x : g[x], S) = Total(g, S)
  <2> HIDE DEF S, g
  <2>1. QED
    BY <1>1, <1>2, SumIsTotal
<1>5. QED
  BY <1>3, <1>4 DEF LimSum

\* However a caller times its attempts, in memory or in the database, no stretch as
\* long as a window lets more than two windows' through.
THEOREM AttemptsBounded == LimSpec => []LimBounded
BY LimStarts, LimStays, LimGoal, PTL DEF LimSpec

-----------------------------------------------------------------------------
(* Views: what a page shows is there, is shown once, and nothing is missing.      *)

ViwStatuses == {"pending", "scheduled", "running", "canceled", "expired", "failed",
                "partially_completed", "completed"}
ViwItems == ViwRecs \cup {ViwOld}
ViwReaderFields ==
    viwReader = [at |-> viwReader.at, accounts |-> viwReader.accounts, mine |-> viwReader.mine,
                 filter |-> viwReader.filter, rows |-> viwReader.rows,
                 revoked |-> viwReader.revoked, status |-> viwReader.status]

ViwShape ==
    /\ viwStatus \in ViwStatuses
    /\ viwRec \in [ViwRecs -> {"open", "bought", "lost", "failed"}]
    /\ viwAccount \in [ViwItems -> ViwAccounts]
    /\ viwTerm \in {"within", "last", "past"}
    /\ ViwReaderFields /\ viwReader.at \in {"idle", "rows", "shown"}
    /\ viwReader.rows \subseteq ViwItems
    /\ viwReader.status \in ViwStatuses \cup {ViwNobody}
    /\ viwSnaps \in Seq(Nat)

\* An execution that completed bought something, and each of its commitments has a
\* row or is noted as lost.
ViwEnded ==
    viwStatus = "completed" =>
        ViwRecs # {} /\ \A c \in ViwRecs : viwRec[c] \in {"bought", "lost"}

\* While nothing changes, the rows read are those of a query made now.
ViwFetched ==
    viwReader.at = "rows" /\ ~viwMoved => viwReader.rows \in ViwFetchHistory(viwReader.filter)

ViwInv == ViwShape /\ ViwEnded /\ ViwFetched /\ ViwComplete /\ ViwLostOnlyMidway

\* There are finitely many rows.
LEMMA ViwFinite ==
    ASSUME ViwShape
    PROVE  /\ IsFiniteSet(ViwItems) /\ IsFiniteSet(ViwRows) /\ ViwRows \subseteq ViwItems
           /\ IsFiniteSet(viwReader.rows)
<1>1. IsFiniteSet(ViwItems)
  BY ViwAssumption, FS_AddElement DEF ViwItems
<1>2. ViwRows \subseteq ViwItems
  BY DEF ViwRows, ViwItems
<1>3. QED
  BY <1>1, <1>2, FS_Subset DEF ViwShape

\* A page of history holds rows of the table, and all that were asked for if there
\* is room.
LEMMA ViwPaged ==
    ASSUME NEW S, IsFiniteSet(S), NEW P \in ViwNewest(S)
    PROVE  /\ P \subseteq S
           /\ \A c \in S \ P : Cardinality(S) > ViwPage
           /\ (S \ {ViwOld} # {} => P \ {ViwOld} # {})
<1>1. /\ P \subseteq S
      /\ \A c \in S \ P : Cardinality(P) = ViwPage /\ (c # ViwOld => ViwOld \notin P)
  BY DEF ViwNewest
<1>2. ASSUME NEW c \in S \ P PROVE Cardinality(S) > ViwPage
  <2>1. IsFiniteSet(P) /\ Cardinality(P) <= Cardinality(S) /\ (Cardinality(P) = Cardinality(S) => P = S)
    BY <1>1, FS_Subset
  <2>2. P # S /\ Cardinality(P) = ViwPage
    BY <1>1, <1>2
  <2>3. Cardinality(S) \in Nat /\ Cardinality(P) \in Nat
    BY <2>1, FS_CardinalityType
  <2>4. QED
    BY <2>1, <2>2, <2>3
<1>3. ASSUME S \ {ViwOld} # {}, P \ {ViwOld} = {} PROVE FALSE
  <2>1. PICK c \in S : c # ViwOld
    BY <1>3
  <2>2. c \notin P
    BY <1>3, <2>1
  <2>3. ViwOld \notin P /\ Cardinality(P) = ViwPage
    BY <1>1, <2>1, <2>2
  <2>4. P = {}
    BY <1>3, <2>3
  <2>5. QED
    BY <2>3, <2>4, FS_EmptySet, ViwAssumption
<1>4. QED
  BY <1>1, <1>2, <1>3

\* What a query for the history returns.
LEMMA ViwFetches ==
    ASSUME ViwShape, NEW filter, NEW P \in ViwFetchHistory(filter)
    PROVE  /\ P \subseteq ViwRows
           /\ \A c \in ViwRows \ P : filter \in {{}, {viwAccount[c]}} => Cardinality(ViwRows) > ViwPage
           /\ filter = {} /\ ViwRows \ {ViwOld} # {} => P \ {ViwOld} # {}
<1>1. CASE filter = {}
  <2>1. P \in ViwNewest(ViwRows)
    BY <1>1 DEF ViwFetchHistory, ViwAllHistory
  <2>2. QED
    BY <2>1, ViwFinite, ViwPaged
<1>2. CASE filter # {}
  <2> DEFINE S == {c \in ViwRows : ViwOf(filter, filter, c)}
  <2>1. P \in ViwNewest(S)
    BY <1>2 DEF ViwFetchHistory, ViwFilteredHistory, ViwNames
  <2>2. S \subseteq ViwRows /\ IsFiniteSet(S) /\ Cardinality(S) <= Cardinality(ViwRows)
    BY ViwFinite, FS_Subset
  <2>3. Cardinality(S) \in Nat /\ Cardinality(ViwRows) \in Nat /\ ViwPage \in Nat
    BY <2>2, ViwFinite, FS_CardinalityType, ViwAssumption
  <2>4. ASSUME NEW c \in ViwRows \ P, filter = {viwAccount[c]} PROVE Cardinality(ViwRows) > ViwPage
    <3>1. c \in S
      BY <2>4 DEF ViwOf
    <3> HIDE DEF S
    <3>2. Cardinality(S) > ViwPage
      BY <2>1, <2>2, <2>4, <3>1, ViwPaged
    <3>3. QED
      BY <2>2, <2>3, <3>2
  <2>5. P \subseteq S
    BY <2>1, <2>2, ViwPaged
  <2>6. QED
    BY <1>2, <2>2, <2>4, <2>5
<1>3. QED
  BY <1>1, <1>2

\* Money is counted with the rows, but for an execution that is scheduled.
LEMMA ViwOnce == ViwShape => ViwMoneyOnce
<1> SUFFICES ASSUME ViwShape PROVE ViwMoneyOnce
  OBVIOUS
<1> DEFINE status == viwReader.status
           live == Cardinality(viwReader.rows \ viwReader.revoked)
           counted == status \notin {ViwNobody, "pending", "running", "failed", "expired", "canceled"}
<1>1. ViwShown.upfront = live + (IF counted /\ ~ViwAuditGap(status) THEN ViwProjected ELSE 0)
  BY DEF ViwShown, ViwSummary
<1>2. status \in ViwStatuses \cup {ViwNobody}
  BY DEF ViwShape
<1>3. counted /\ ~ViwAuditGap(status) <=> status = "scheduled"
  BY <1>2 DEF ViwAuditGap, ViwStatuses, ViwNobody
<1> HIDE DEF status, live, counted
<1>4. QED
  BY <1>1, <1>3 DEF ViwMoneyOnce, status, live

\* The pages ask each in its own way for what is in force.
LEMMA ViwAlike == ViwShape => ViwAgree
<1> SUFFICES ASSUME ViwShape PROVE ViwAgree
  OBVIOUS
<1>1. ViwActive(ViwCommitted) = ViwCommitted
  BY DEF ViwActive, ViwCommitted, ViwActiveHistory, ViwInForce
<1>2. ViwInventory = ViwCommitted /\ ViwCovered = Cardinality(ViwCommitted)
  BY <1>1 DEF ViwInventory, ViwCovered, ViwRecords
<1>3. {c \in ViwActiveHistory({}, {}) : c = ViwOld => viwTerm # "past"} = ViwCommitted
  BY DEF ViwCommitted, ViwActiveHistory
<1>4. ViwAggregate = Cardinality(ViwCommitted)
  BY <1>3 DEF ViwAggregate
<1>5. ViwDashboard.commitments = Cardinality(ViwCommitted) /\ ViwDashboard.monthly = Cardinality(ViwCommitted)
  BY <1>1 DEF ViwDashboard, ViwPerService
<1>6. ViwOnDemand > 0 => ViwCoverage = ViwByService
  <2>1. ViwOnDemand \in Nat
    <3>1. IsFiniteSet({c \in ViwRecs : viwRec[c] = "open"})
      BY ViwAssumption, FS_Subset
    <3>2. QED
      BY <3>1, FS_CardinalityType DEF ViwOnDemand
  <2>2. QED
    BY <1>2, <1>5, <2>1 DEF ViwCoverage, ViwByService
<1>7. ViwUpcoming => ViwExecutionShown({})
  BY DEF ViwUpcoming, ViwPendingExecutions, ViwExecutionShown, ViwMatches
<1>8. ViwAnalytics = Cardinality(ViwRows \cap viwRevoked) + Cardinality(ViwRows \ viwRevoked)
  <2> DEFINE back == ViwRows \cap viwRevoked
             kept == ViwRows \ viwRevoked
  <2>1. IsFiniteSet(ViwRows) /\ back \cup kept = ViwRows /\ back \cap kept = {}
    BY ViwFinite
  <2>2. IsFiniteSet(back) /\ IsFiniteSet(kept)
    BY <2>1, FS_Subset
  <2> HIDE DEF back, kept
  <2>3. Cardinality(back \cup kept) = Cardinality(back) + Cardinality(kept) - Cardinality(back \cap kept)
    BY <2>2, FS_Union
  <2>4. Cardinality(back) \in Nat /\ Cardinality(kept) \in Nat /\ Cardinality(back \cap kept) = 0
    BY <2>1, <2>2, FS_CardinalityType, FS_EmptySet
  <2>5. Cardinality(back \cup kept) = Cardinality(back) + Cardinality(kept)
    BY <2>3, <2>4
  <2>6. QED
    BY <2>1, <2>5 DEF ViwAnalytics, back, kept
<1>9. QED
  BY <1>2, <1>4, <1>5, <1>6, <1>7, <1>8 DEF ViwAgree

\* A sum lies between the least and the greatest term, each as often as there are terms.
LEMMA ViwBetween ==
    ASSUME NEW snaps \in Seq(Nat), Len(snaps) > 0
    PROVE  \E i, j \in DOMAIN snaps :
              /\ snaps[i] * Len(snaps) <= Total(snaps, DOMAIN snaps)
              /\ Total(snaps, DOMAIN snaps) <= snaps[j] * Len(snaps)
<1> DEFINE n == Len(snaps)
           D == DOMAIN snaps
           values == {snaps[i] : i \in D}
           sum == Total(snaps, D)
<1>1. n \in Nat /\ D = 1 .. n /\ \A i \in D : snaps[i] \in Nat
  OBVIOUS
<1>2. IsFiniteSet(D) /\ Cardinality(D) = n
  <2>1. IsFiniteSet(1 .. n) /\ Cardinality(1 .. n) = IF 1 > n THEN 0 ELSE n - 1 + 1
    BY <1>1, FS_Interval
  <2>2. QED
    BY <1>1, <2>1
<1>3. 1 \in D
  BY <1>1
<1> HIDE DEF n, D
<1>4. sum \in Nat
  BY <1>1, <1>2, TotalStep
<1>5. PICK i \in D : \A k \in D : snaps[i] <= snaps[k]
  <2>1. values \subseteq Nat /\ values # {}
    BY <1>1, <1>3
  <2>2. PICK m \in values : \A v \in values : m <= v
    BY <2>1, NatMin
  <2>3. QED
    BY <2>2
<1>6. PICK j \in D : \A k \in D : snaps[k] <= snaps[j]
  <2>1. ASSUME NEW k \in D PROVE snaps[k] \in 0 .. sum
    <3>1. sum = snaps[k] + Total(snaps, D \ {k})
      BY <1>1, <1>2, TotalRemove
    <3>2. IsFiniteSet(D \ {k})
      BY <1>2, FS_Subset
    <3>3. Total(snaps, D \ {k}) \in Nat
      BY <1>1, <3>2, TotalStep
    <3>4. QED
      BY <1>1, <3>1, <3>3
  <2> HIDE DEF sum
  <2>2. values \subseteq 0 .. sum /\ values # {}
    BY <1>3, <2>1
  <2>3. PICK m \in values : \A v \in values : v <= m
    BY <1>4, <2>2, NatMax
  <2>4. QED
    BY <2>3
<1>7. ASSUME NEW c \in Nat PROVE Total([k \in D |-> c], D) = c * n
  <2> DEFINE f == [k \in D |-> c]
  <2>1. \A k \in D : f[k] = c
    OBVIOUS
  <2> HIDE DEF f
  <2>2. Total(f, D) = c * Cardinality(D)
    BY <1>2, <2>1, TotalConst
  <2>3. QED
    BY <1>2, <2>2 DEF f
<1>8. snaps[i] * n <= sum
  <2> DEFINE f == [k \in D |-> snaps[i]]
  <2>1. \A k \in D : f[k] \in Nat /\ snaps[k] \in Nat /\ f[k] <= snaps[k]
    BY <1>1, <1>5
  <2>2. Total(f, D) = snaps[i] * n
    BY <1>1, <1>7
  <2> HIDE DEF f, sum
  <2>3. Total(f, D) <= Total(snaps, D)
    BY <1>2, <2>1, TotalMono
  <2>4. QED
    BY <2>2, <2>3 DEF sum
<1>9. sum <= snaps[j] * n
  <2> DEFINE f == [k \in D |-> snaps[j]]
  <2>1. \A k \in D : f[k] \in Nat /\ snaps[k] \in Nat /\ snaps[k] <= f[k]
    BY <1>1, <1>6
  <2>2. Total(f, D) = snaps[j] * n
    BY <1>1, <1>7
  <2> HIDE DEF f, sum
  <2>3. Total(snaps, D) <= Total(f, D)
    BY <1>2, <2>1, TotalMono
  <2>4. QED
    BY <2>2, <2>3 DEF sum
<1>10. QED
  BY <1>8, <1>9 DEF n, D

\* What the trend adds up is the sum of the snapshots.
LEMMA ViwTotalIs ==
    ASSUME viwSnaps \in Seq(Nat)
    PROVE  ViwTotal = Total(viwSnaps, DOMAIN viwSnaps)
<1> DEFINE f == viwSnaps
           S == DOMAIN f
           g == CHOOSE g : SumsUp(f, S, g)
<1>1. S = 1 .. Len(f) /\ Len(f) \in Nat /\ \A i \in S : f[i] \in Nat
  OBVIOUS
<1>2. IsFiniteSet(S)
  BY <1>1, FS_Interval
<1> HIDE DEF S, f
<1>3. \E k : SumsUp(f, S, k)
  BY <1>1, <1>2, SumsExist
<1>4. SumsUp(f, S, g)
  BY <1>3
<1>5. FoldFunctionOnSet(LAMBDA s, t : s + t, 0, f, S) = g[S]
  BY Zenon DEF FoldFunctionOnSet, MapThenFoldSet, SumsUp, Pick
<1> HIDE DEF g
<1>6. Total(f, S) = g[S]
  BY <1>1, <1>2, <1>4, TotalIs
<1>7. ViwTotal = FoldFunctionOnSet(LAMBDA s, t : s + t, 0, f, S)
  BY DEF ViwTotal, FoldSeq, FoldFunction, f, S
<1>8. QED
  BY <1>5, <1>6, <1>7 DEF f, S

\* The trend lies between its snapshots.
LEMMA ViwTrended == ViwShape => ViwTrendSound
<1> SUFFICES ASSUME ViwShape, Len(viwSnaps) > 0 PROVE ViwTrendSound
  BY DEF ViwTrendSound
<1>1. viwSnaps \in Seq(Nat) /\ ViwTrend.sum = Total(viwSnaps, DOMAIN viwSnaps)
      /\ ViwTrend.over = Len(viwSnaps)
  BY ViwTotalIs DEF ViwShape, ViwTrend
<1>2. QED
  BY <1>1, ViwBetween DEF ViwTrendSound

\* Nothing was asked for and nothing bought.
LEMMA ViwStarts == ViwInit => ViwInv
<1> SUFFICES ASSUME ViwInit PROVE ViwInv
  OBVIOUS
<1>1. /\ viwStatus = "pending" /\ viwReader.at = "idle"
      /\ viwReader.rows = {} /\ viwReader.status = ViwNobody
  BY DEF ViwInit
<1>2. viwAccount \in [ViwItems -> ViwAccounts]
  BY DEF ViwInit, ViwItems
<1>3. ViwReaderFields
  BY DEF ViwInit, ViwReaderFields
<1>4. ViwShape
  BY <1>1, <1>2, <1>3 DEF ViwInit, ViwShape, ViwStatuses
<1>5. QED
  BY <1>1, <1>4 DEF ViwInv, ViwEnded, ViwFetched, ViwComplete, ViwLostOnlyMidway

\* What moves while nobody has been shown a page disturbs only what is still to be
\* read, and is remembered.
LEMMA ViwMoves ==
    ASSUME ViwInv, ViwChange, ViwShape', ViwEnded'
    PROVE  ViwInv'
<1>1. viwReader' = viwReader /\ viwReader.at # "shown" /\ viwMoved' = (viwReader.at = "rows")
  BY DEF ViwChange
<1>2. ViwFetched'
  BY <1>1 DEF ViwFetched
<1>3. ViwComplete' /\ ViwLostOnlyMidway'
  BY <1>1 DEF ViwComplete, ViwLostOnlyMidway
<1>4. QED
  BY <1>2, <1>3 DEF ViwInv

\* The answer to a request that nothing came between.
LEMMA ViwAnswered ==
    ASSUME ViwInv, NEW listed \in BOOLEAN, ViwAnswer(listed)
    PROVE  ViwInv'
<1> DEFINE old == viwReader
           new == viwReader'
<1>1. ViwShape /\ ViwEnded /\ ViwFetched /\ ViwReaderFields
  BY DEF ViwInv, ViwShape
<1>2. /\ old.at = "rows" /\ new.at = "shown" /\ new.filter = old.filter
      /\ new.accounts = old.accounts /\ new.mine = old.mine /\ new.revoked = old.revoked
      /\ new.rows = {c \in old.rows : ViwAllowed(old, viwAccount[c])}
      /\ new.status = IF listed /\ ViwExecutionShown(old.filter) /\ ViwAllowed(old, ViwCollapsed)
                      THEN viwStatus ELSE ViwNobody
      /\ ViwReaderFields'
  BY <1>1 DEF ViwAnswer, ViwReaderFields
<1>3. /\ UNCHANGED <<viwStatus, viwRec, viwAccount, viwRevoked, viwTerm, viwSnaps>>
      /\ viwMoved' = (viwMoved \/ ~listed)
  BY DEF ViwAnswer
<1>4. ViwRows' = ViwRows /\ ViwCollapsed' = ViwCollapsed
  BY <1>3 DEF ViwRows, ViwCollapsed
<1>5. \A account : ViwAllowed(new, account) <=> ViwAllowed(old, account)
  BY <1>2 DEF ViwAllowed
<1>6. ~viwMoved' => ~viwMoved /\ listed /\ old.rows \in ViwFetchHistory(old.filter)
  BY <1>1, <1>2, <1>3 DEF ViwFetched
<1> HIDE DEF old, new
<1>7. ViwShape'
  BY <1>1, <1>2, <1>3 DEF ViwShape, old, new
<1>8. ViwEnded' /\ ViwFetched'
  BY <1>1, <1>2, <1>3 DEF ViwEnded, ViwFetched, new
<1>9. ViwComplete'
  <2>1. SUFFICES ASSUME ~viwMoved'
                 PROVE /\ \A c \in ViwRows : \/ c \in new.rows
                                             \/ ~ViwAllowed(new, viwAccount[c])
                                             \/ new.filter \notin {{}, {viwAccount[c]}}
                                             \/ Cardinality(ViwRows) > ViwPage
                       /\ viwStatus # "completed" /\ new.filter = {} /\ ViwCollapsed \in new.accounts
                            => new.status = viwStatus
    BY <1>3, <1>4 DEF ViwComplete, new
  <2>2. ASSUME NEW c \in ViwRows, new.filter \in {{}, {viwAccount[c]}}, ViwAllowed(new, viwAccount[c])
        PROVE  c \in new.rows \/ Cardinality(ViwRows) > ViwPage
    <3>1. c \in old.rows \/ Cardinality(ViwRows) > ViwPage
      BY <1>1, <1>2, <1>6, <2>1, <2>2, ViwFetches
    <3>2. QED
      BY <1>2, <1>5, <2>2, <3>1
  <2>3. ASSUME viwStatus # "completed", new.filter = {}, ViwCollapsed \in new.accounts
        PROVE  new.status = viwStatus
    BY <1>2, <1>6, <2>1, <2>3 DEF ViwExecutionShown, ViwMatches, ViwAllowed
  <2>4. QED
    BY <2>2, <2>3
<1>10. ViwLostOnlyMidway'
  <2>1. SUFFICES ASSUME ~viwMoved', new.accounts = ViwAccounts, new.mine, new.filter = {},
                        new.status = ViwNobody, new.rows \cap ViwRecs = {}
                 PROVE  FALSE
    BY DEF ViwLostOnlyMidway, new
  <2>2. listed /\ old.rows \in ViwFetchHistory(old.filter)
    BY <1>6, <2>1
  <2>3. ViwAllowed(old, ViwCollapsed)
    <3>1. ViwCollapsed \in ViwAccounts \cup {ViwNobody}
      BY DEF ViwCollapsed
    <3>2. QED
      BY <1>2, <2>1, <3>1 DEF ViwAllowed
  <2>4. viwStatus = "completed" /\ ~ViwGap
    <3>1. viwStatus # ViwNobody
      BY <1>1 DEF ViwShape, ViwStatuses, ViwNobody
    <3>2. QED
      BY <1>2, <2>1, <2>2, <2>3, <3>1 DEF ViwExecutionShown, ViwMatches
  <2>5. ViwRecs # {} /\ \A c \in ViwRecs : viwRec[c] = "bought"
    BY <1>1, <2>4 DEF ViwEnded, ViwGap
  <2>6. ViwRows \ {ViwOld} # {}
    BY <2>5, ViwAssumption DEF ViwRows
  <2>7. PICK c \in old.rows : c # ViwOld
    BY <1>1, <1>2, <2>1, <2>2, <2>6, ViwFetches
  <2>8. c \in ViwRecs
    BY <1>1, <2>7 DEF ViwShape, ViwItems, old
  <2>9. ViwAllowed(old, viwAccount[c])
    BY <1>1, <1>2, <2>1, <2>8 DEF ViwShape, ViwItems, ViwAllowed
  <2>10. QED
    BY <1>2, <2>1, <2>7, <2>8, <2>9
<1>11. QED
  BY <1>7, <1>8, <1>9, <1>10 DEF ViwInv

\* Whatever happens to the purchases and whoever asks, a page stays right.
LEMMA ViwStays == ViwInv /\ [ViwNext]_viwVars => ViwInv'
<1> SUFFICES ASSUME ViwInv, [ViwNext]_viwVars PROVE ViwInv'
  OBVIOUS
<1>0. ViwShape /\ ViwEnded /\ ViwFetched
  BY DEF ViwInv
<1>1. CASE UNCHANGED viwVars
  <2>1. ViwShape' /\ ViwEnded'
    BY <1>0, <1>1 DEF viwVars, ViwShape, ViwEnded, ViwReaderFields
  <2>2. ViwFetched'
    BY <1>0, <1>1 DEF viwVars, ViwFetched, ViwFetchHistory, ViwAllHistory, ViwFilteredHistory,
       ViwRows, ViwOf, ViwTied
  <2>3. ViwComplete' /\ ViwLostOnlyMidway'
    BY <1>1 DEF viwVars, ViwInv, ViwComplete, ViwLostOnlyMidway, ViwRows, ViwCollapsed
  <2>4. QED
    BY <2>1, <2>2, <2>3 DEF ViwInv
<1>2. ASSUME NEW accounts, NEW mine, NEW filter, ViwAsk(accounts, mine, filter) PROVE ViwInv'
  <2>1. PICK page \in ViwFetchHistory(filter) :
          viwReader' = [at |-> "rows", accounts |-> accounts, mine |-> mine, filter |-> filter,
                        rows |-> page, revoked |-> viwRevoked, status |-> ViwNobody]
    BY <1>2 DEF ViwAsk
  <2>2. page \subseteq ViwItems
    BY <1>0, ViwFetches, ViwFinite
  <2>3. ViwReaderFields' /\ viwReader'.at = "rows" /\ viwReader'.rows = page
        /\ viwReader'.status = ViwNobody /\ viwReader'.filter = filter
    BY <2>1 DEF ViwReaderFields
  <2>4. UNCHANGED <<viwStatus, viwRec, viwAccount, viwRevoked, viwTerm, viwMoved, viwSnaps>>
    BY <1>2 DEF ViwAsk
  <2>5. ViwShape' /\ ViwEnded'
    BY <1>0, <2>2, <2>3, <2>4 DEF ViwShape, ViwEnded
  <2>6. ViwFetched'
    <3>1. ViwFetchHistory(filter)' = ViwFetchHistory(filter)
      BY <2>4 DEF ViwFetchHistory, ViwAllHistory, ViwFilteredHistory, ViwRows, ViwOf, ViwTied
    <3>2. QED
      BY <2>3, <3>1 DEF ViwFetched
  <2>7. ViwComplete' /\ ViwLostOnlyMidway'
    BY <2>3 DEF ViwComplete, ViwLostOnlyMidway
  <2>8. QED
    BY <2>5, <2>6, <2>7 DEF ViwInv
<1>3. ASSUME NEW from, NEW to \in ViwStatuses \ {"completed"}, ViwMove(from, to) PROVE ViwInv'
  <2>1. ViwShape' /\ ViwEnded'
    BY <1>0, <1>3 DEF ViwMove, ViwChange, ViwShape, ViwEnded, ViwReaderFields
  <2>2. QED
    BY <1>3, <2>1, ViwMoves DEF ViwMove
<1>4. CASE ViwApprove \/ ViwDelay \/ ViwCancel \/ ViwExpire
  BY <1>3, <1>4 DEF ViwApprove, ViwDelay, ViwCancel, ViwExpire, ViwStatuses
<1>5. CASE ViwFinish
  <2>1. CASE (\A c \in ViwRecs : viwRec[c] = "failed") \/ (\E c \in ViwRecs : viwRec[c] = "failed")
    BY <1>3, <1>5, <2>1 DEF ViwFinish, ViwStatuses
  <2>2. CASE ~((\A c \in ViwRecs : viwRec[c] = "failed") \/ (\E c \in ViwRecs : viwRec[c] = "failed"))
    <3>1. ViwMove({"running"}, "completed") /\ \A c \in ViwRecs : viwRec[c] # "open"
      BY <1>5, <2>2 DEF ViwFinish
    <3>2. ViwShape'
      BY <1>0, <3>1 DEF ViwMove, ViwChange, ViwShape, ViwReaderFields, ViwStatuses
    <3>3. ViwEnded'
      BY <1>0, <2>2, <3>1 DEF ViwMove, ViwShape, ViwEnded
    <3>4. QED
      BY <3>1, <3>2, <3>3, ViwMoves DEF ViwMove
  <2>3. QED
    BY <2>1, <2>2
<1>6. ASSUME NEW c \in ViwRecs, NEW fate \in {"bought", "lost", "failed"}, ViwBuy(c, fate) PROVE ViwInv'
  <2>1. ViwShape' /\ ViwEnded'
    BY <1>0, <1>6 DEF ViwBuy, ViwChange, ViwShape, ViwEnded, ViwReaderFields
  <2>2. QED
    BY <1>6, <2>1, ViwMoves DEF ViwBuy
<1>7. ASSUME NEW c, ViwRevoke(c) PROVE ViwInv'
  <2>1. ViwShape' /\ ViwEnded'
    BY <1>0, <1>7 DEF ViwRevoke, ViwChange, ViwShape, ViwEnded, ViwReaderFields
  <2>2. QED
    BY <1>7, <2>1, ViwMoves DEF ViwRevoke
<1>8. CASE ViwAge
  <2>1. ViwShape' /\ ViwEnded'
    BY <1>0, <1>8 DEF ViwAge, ViwChange, ViwShape, ViwEnded, ViwReaderFields
  <2>2. QED
    BY <1>8, <2>1, ViwMoves DEF ViwAge
<1>9. CASE ViwCollect
  <2>1. ViwAggregate \in Nat
    <3> DEFINE S == {c \in ViwActiveHistory({}, {}) : c = ViwOld => viwTerm # "past"}
    <3>1. S \subseteq ViwRows
      BY DEF ViwActiveHistory
    <3>2. IsFiniteSet(S)
      BY <1>0, <3>1, ViwFinite, FS_Subset
    <3> HIDE DEF S
    <3>3. Cardinality(S) \in Nat
      BY <3>2, FS_CardinalityType
    <3>4. QED
      BY <3>3 DEF ViwAggregate, S
  <2>2. viwSnaps' \in Seq(Nat)
    BY <1>0, <1>9, <2>1 DEF ViwCollect, ViwShape
  <2>3. ViwShape' /\ ViwEnded'
    BY <1>0, <1>9, <2>2 DEF ViwCollect, ViwChange, ViwShape, ViwEnded, ViwReaderFields
  <2>4. QED
    BY <1>9, <2>3, ViwMoves DEF ViwCollect
<1>10. QED
  BY <1>1, <1>2, <1>4, <1>5, <1>6, <1>7, <1>8, <1>9, ViwAnswered DEF ViwNext

\* The invariant holds what the pages promise.
LEMMA ViwPromise == ViwInv => ViwSound
BY ViwOnce, ViwAlike, ViwTrended DEF ViwInv, ViwSound

\* However purchases go on between its queries, a page about them shows what the
\* viewer may see, no money twice, and nothing missing that did not end meanwhile;
\* the other pages agree on what is in force (getHistory, getDashboardSummary).
THEOREM PagesHonest == ViwSpec => []ViwSound
BY ViwStarts, ViwStays, ViwPromise, PTL DEF ViwSpec

-----------------------------------------------------------------------------
(* Advice: the pages decide alike, and promise no more than there is to save.     *)

AdvRowLike(r) ==
    /\ r = [account |-> r.account, provider |-> r.provider, service |-> r.service,
            region |-> r.region, type |-> r.type, engine |-> r.engine, term |-> r.term,
            payment |-> r.payment, count |-> r.count, savings |-> r.savings,
            upfront |-> r.upfront, monthly |-> r.monthly, onDemand |-> r.onDemand, pct |-> r.pct]
    /\ r.account \in AdvAccounts \cup {AdvNone}
    /\ r.count \in Nat /\ r.savings \in Nat
AdvTable(rows) == IsFiniteSet(rows) /\ \A r \in rows : AdvRowLike(r)
AdvDistinct(rows) == \A r, q \in rows : AdvKey(r) = AdvKey(q) => r = q
AdvDetail == advReq.ask.page = "detail"
AdvReqFields ==
    advReq = [ask |-> advReq.ask, pc |-> advReq.pc, rows |-> advReq.rows, why |-> advReq.why,
              trust |-> advReq.trust, total |-> advReq.total, kicked |-> advReq.kicked]

AdvShape ==
    /\ AdvTable(advRows) /\ AdvDistinct(advRows)
    /\ advRegistered \subseteq AdvAccounts
    /\ IsFiniteSet(advBuying) /\ \A s \in advBuying : s.count \in Nat
    /\ advRule \in AdvRules \cup {AdvNone}
    /\ advOverride \in [AdvAccounts -> AdvOverrides \cup {AdvNone}]
    /\ advChanges \in Nat /\ advErred \in BOOLEAN
    /\ AdvReqFields /\ advReq.ask \in AdvAsks /\ AdvTable(advReq.rows)

\* Past the rules, the pages of several and the page of one go their ways.
AdvStages ==
    /\ advReq.pc \in {"ttl", "providers", "coverage"} => ~AdvDetail
    /\ advReq.pc = "coverage" => advReq.ask.page = "summary"

\* What is left of the cache when what is being bought is taken off, what of it fits
\* the rules, and why one would be hidden.
AdvLeft == AdvApply(AdvStored(advReq.ask.filter), advBuying)
AdvFitting == {r \in AdvLeft : AdvFits(r)}
AdvHidden == UNION {AdvHiddenBy(r) : r \in AdvLeft}

\* While nothing changes and all can be read, a page holds what the step it is at
\* would make of the cache now.
AdvReads ==
    advChanges = 0 /\ ~advErred =>
        /\ AdvAt("buying") => advReq.rows = AdvStored(advReq.ask.filter)
        /\ AdvAt("rules") => advReq.rows = AdvLeft
        /\ advReq.pc \in {"ttl", "providers", "scope", "coverage", "done"} /\ ~AdvDetail
              => advReq.rows \subseteq AdvFitting
        /\ AdvAt("scope") /\ AdvDetail => advReq.rows = AdvLeft /\ advReq.why = AdvHidden
        /\ AdvAt("done") /\ AdvDetail
              => advReq.rows = AdvMine(advReq.ask, AdvLeft) /\ advReq.why = AdvHidden

\* Nobody holds what others could save past the check of the scope.
AdvScoped ==
    advReq.pc \in {"coverage", "done"} =>
        \/ advReq.ask.accounts = AdvAccounts
        \/ \A r \in advReq.rows : r.account \in advReq.ask.accounts

\* The most that one variant of a cell saves, and that for all cells.
AdvMost(rows, cell) == Max({r.savings : r \in {q \in rows : AdvOf(q) = cell}})
AdvBound(rows) == MapThenSumSet(LAMBDA cell : AdvMost(rows, cell), {AdvOf(r) : r \in rows})
AdvTotals ==
    /\ ~AdvAt("done") => advReq.total = 0
    /\ AdvAt("done") /\ advReq.ask.page = "summary" => advReq.total <= AdvBound(advReq.rows)

AdvInv == AdvShape /\ AdvStages /\ AdvReads /\ AdvScoped /\ AdvTotals

\* What is suppressed of a cell is a number.
LEMMA AdvSuppressedNat ==
    ASSUME NEW buying, IsFiniteSet(buying), \A s \in buying : s.count \in Nat, NEW cell
    PROVE  AdvSuppressed(buying, cell) \in Nat
<1> DEFINE S == {s \in buying : s.cell = cell}
           f == [s \in S |-> s.count]
           up(g) == g = [s \in SUBSET S |-> IF s = {} THEN 0 ELSE Pick(s).count + g[s \ {Pick(s)}]]
           g == CHOOSE g : up(g)
<1>1. IsFiniteSet(S) /\ \A s \in S : f[s] \in Nat /\ f[s] = s.count
  BY FS_Subset
<1>2. ASSUME NEW k PROVE up(k) <=> SumsUp(f, S, k)
  <2>1. ASSUME NEW s \in SUBSET S, s # {} PROVE Pick(s).count = f[Pick(s)]
    <3>1. Pick(s) \in s
      BY <2>1 DEF Pick
    <3>2. QED
      BY <3>1
  <2> HIDE DEF S, f
  <2>2. QED
    BY <2>1 DEF SumsUp
<1> HIDE DEF f
<1>3. PICK k : SumsUp(f, S, k)
  BY <1>1, SumsExist
<1>4. up(g)
  <2> HIDE DEF S
  <2>1. up(k)
    BY <1>2, <1>3
  <2>2. QED
    BY <2>1
<1>5. AdvSuppressed(buying, cell) = g[S]
  BY Zenon DEF AdvSuppressed, MapThenSumSet, MapThenFoldSet, Pick
<1> HIDE DEF g, up, S
<1>6. SumsUp(f, S, g)
  BY <1>2, <1>4
<1>7. Total(f, S) = g[S]
  <2>1. S \in SUBSET S
    OBVIOUS
  <2>2. QED
    BY <1>1, <1>6, <2>1, TotalIs
<1>8. Total(f, S) \in Nat
  BY <1>1, TotalStep
<1>9. QED
  BY <1>5, <1>7, <1>8

\* What taking off what is being bought leaves, and of which row it is left.
LEMMA AdvApplied ==
    ASSUME NEW rows, AdvTable(rows), NEW buying, IsFiniteSet(buying), \A s \in buying : s.count \in Nat
    PROVE  /\ AdvTable(AdvApply(rows, buying))
           /\ \A r \in AdvApply(rows, buying) :
                /\ r.count > 0
                /\ \E s \in rows : /\ AdvKey(s) = AdvKey(r)
                                   /\ s.count = r.count + AdvSuppressed(buying, AdvOf(r))
                                   /\ r = [s EXCEPT !.count = @ - AdvSuppressed(buying, AdvOf(s))]
<1> DEFINE less(r) == [r EXCEPT !.count = @ - AdvSuppressed(buying, AdvOf(r))]
           S == {q \in rows : q.count > AdvSuppressed(buying, AdvOf(q))}
<1>1. AdvApply(rows, buying) = {less(r) : r \in S}
  BY DEF AdvApply
<1>2. IsFiniteSet(S) /\ S \subseteq rows
  BY FS_Subset DEF AdvTable
<1>3. IsFiniteSet({less(r) : r \in S})
  <2> DEFINE g == [x \in S |-> less(x)]
  <2>1. {less(r) : r \in S} = {g[x] : x \in S}
    OBVIOUS
  <2> HIDE DEF S, less, g
  <2>2. QED
    BY <1>2, <2>1, ImageFinite
<1>4. ASSUME NEW s \in S
      PROVE  /\ AdvRowLike(less(s)) /\ less(s).count > 0 /\ AdvKey(s) = AdvKey(less(s))
             /\ s.count = less(s).count + AdvSuppressed(buying, AdvOf(less(s)))
  <2> DEFINE supp == AdvSuppressed(buying, AdvOf(s))
  <2>1. AdvRowLike(s) /\ s.count > supp /\ supp \in Nat
    BY <1>2, AdvSuppressedNat DEF AdvTable
  <2>2. less(s) = [s EXCEPT !.count = s.count - supp]
    BY <2>1 DEF AdvRowLike
  <2> HIDE DEF supp, less, S
  <2>3. s.count - supp \in Nat /\ s.count - supp > 0
    BY <2>1 DEF AdvRowLike
  <2>4. AdvRowLike(less(s)) /\ less(s).count = s.count - supp
    BY <2>1, <2>2, <2>3 DEF AdvRowLike
  <2>5. AdvOf(less(s)) = AdvOf(s) /\ AdvKey(less(s)) = AdvKey(s)
    BY <2>1, <2>2 DEF AdvRowLike, AdvOf, AdvKey
  <2>6. QED
    BY <2>1, <2>3, <2>4, <2>5 DEF supp, AdvRowLike
<1> HIDE DEF less, S
<1>5. QED
  BY <1>1, <1>2, <1>3, <1>4 DEF AdvTable, less

\* The cache after a sweep is a table, with one row of a key.
LEMMA AdvConverts ==
    ASSUME NEW found \in SUBSET AdvFound
    PROVE  /\ AdvTable(AdvConvert(found)) /\ AdvDistinct(AdvConvert(found))
           /\ \A a : (\A f \in found : f.account = a) => \A r \in AdvConvert(found) : r.account = a
<1> DEFINE row(f) ==
             [account |-> f.account, provider |-> f.provider, service |-> f.service, region |-> f.region,
              type |-> f.type, engine |-> AdvEngine(f), term |-> f.years,
              payment |-> AdvPayment(f.payment), count |-> f.count, savings |-> f.savings,
              upfront |-> f.upfront, monthly |-> f.monthly,
              onDemand |-> AdvKnown(f.onDemand), pct |-> AdvKnown(f.pct)]
           S == {g \in found : g.years > 0}
<1>1. AdvConvert(found) = {row(f) : f \in S}
  BY DEF AdvConvert
<1>2. IsFiniteSet(S) /\ S \subseteq found
  BY AdvDataAssumption, FS_Subset
<1>3. IsFiniteSet({row(f) : f \in S})
  <2> DEFINE g == [x \in S |-> row(x)]
  <2>1. {row(f) : f \in S} = {g[x] : x \in S}
    OBVIOUS
  <2> HIDE DEF S, row, g
  <2>2. QED
    BY <1>2, <2>1, ImageFinite
<1>4. \A f \in found : AdvRowLike(row(f)) /\ row(f).account = f.account
  BY AdvDataAssumption DEF AdvRowLike
<1>5. AdvConvert(found) \subseteq AdvConvert(AdvFound)
  BY DEF AdvConvert
<1>6. AdvDistinct(AdvConvert(found))
  BY <1>5, AdvDataAssumption DEF AdvDistinct
<1> HIDE DEF row, S
<1>7. QED
  BY <1>1, <1>2, <1>3, <1>4, <1>6 DEF AdvTable

\* Tagged with the account the program runs in, it still is.
LEMMA AdvTags ==
    ASSUME NEW rows, AdvTable(rows), AdvDistinct(rows), \A r \in rows : r.account = "one",
           NEW host \in AdvAccounts \cup {AdvNone}
    PROVE  AdvTable(AdvTag(rows, host)) /\ AdvDistinct(AdvTag(rows, host))
<1> DEFINE tag(r) == [r EXCEPT !.account = host]
<1>1. AdvTag(rows, host) = {tag(r) : r \in rows}
  BY DEF AdvTag
<1>2. ASSUME NEW r \in rows
      PROVE  /\ AdvRowLike(tag(r)) /\ AdvKey(tag(r)) = <<<<host, r.provider, r.service, r.region, r.type, r.engine>>, r.term, r.payment>>
             /\ AdvKey(r) = <<<<"one", r.provider, r.service, r.region, r.type, r.engine>>, r.term, r.payment>>
  <2>1. AdvRowLike(r)
    BY DEF AdvTable
  <2>2. QED
    BY <2>1 DEF AdvRowLike, AdvKey, AdvOf
<1>3. IsFiniteSet({tag(r) : r \in rows})
  <2> DEFINE g == [x \in rows |-> tag(x)]
  <2>1. {tag(r) : r \in rows} = {g[x] : x \in rows}
    OBVIOUS
  <2> HIDE DEF tag, g
  <2>2. QED
    BY <2>1, ImageFinite DEF AdvTable
<1>4. ASSUME NEW r \in rows, NEW q \in rows, AdvKey(tag(r)) = AdvKey(tag(q)) PROVE r = q
  <2> HIDE DEF tag
  <2>1. AdvKey(r) = AdvKey(q)
    BY <1>2, <1>4
  <2>2. QED
    BY <2>1 DEF AdvDistinct
<1> HIDE DEF tag
<1>5. QED
  BY <1>1, <1>2, <1>3, <1>4 DEF AdvTable, AdvDistinct

\* So is the cache after any sweep.
LEMMA AdvCollects ==
    ASSUME AdvShape, NEW rows \in AdvCollected("aws")
    PROVE  AdvTable(rows) /\ AdvDistinct(rows)
<1>1. PICK swept \in AdvSwept("aws", AdvFound) : rows = AdvSave(advRows, "aws", swept)
  BY DEF AdvCollected
<1>2. AdvTable(swept.rows) /\ AdvDistinct(swept.rows)
  <2>1. CASE \E host \in {AdvNone} \cup (advRegistered \cap {"one"}), complete \in BOOLEAN :
                swept = AdvAmbient("aws", AdvFound, host, complete)
    <3>1. PICK host \in {AdvNone} \cup (advRegistered \cap {"one"}) :
                \E complete \in BOOLEAN : swept = AdvAmbient("aws", AdvFound, host, complete)
      BY <2>1
    <3> DEFINE found == {f \in AdvFound : f.provider = "aws" /\ f.account = "one"}
    <3>2. swept.rows = AdvTag(AdvConvert(found), host)
      BY <3>1 DEF AdvAmbient
    <3>3. host \in AdvAccounts \cup {AdvNone}
      BY DEF AdvShape
    <3>4. found \in SUBSET AdvFound /\ \A f \in found : f.account = "one"
      OBVIOUS
    <3> HIDE DEF found
    <3>5. /\ AdvTable(AdvConvert(found)) /\ AdvDistinct(AdvConvert(found))
          /\ \A r \in AdvConvert(found) : r.account = "one"
      BY <3>4, AdvConverts
    <3>6. QED
      BY <3>2, <3>3, <3>5, AdvTags
  <2>2. CASE \E answered, complete : swept = AdvPerAccount("aws", AdvFound, answered, complete)
    <3>1. PICK answered, complete : swept = AdvPerAccount("aws", AdvFound, answered, complete)
      BY <2>2
    <3> DEFINE found == {f \in AdvFound : f.provider = "aws" /\ f.account \in answered}
    <3>2. swept.rows = AdvConvert(found)
      BY <3>1 DEF AdvPerAccount
    <3>3. found \in SUBSET AdvFound
      OBVIOUS
    <3> HIDE DEF found
    <3>4. QED
      BY <3>2, <3>3, AdvConverts
  <2>3. QED
    BY <2>1, <2>2 DEF AdvSwept
<1> DEFINE kept == {r \in advRows : /\ \A n \in swept.rows : AdvKey(n) # AdvKey(r)
                                    /\ r.provider = "aws" => r.account \notin swept.done}
<1>3. rows = swept.rows \cup kept
  BY <1>1 DEF AdvSave
<1>4. AdvTable(kept) /\ AdvDistinct(kept) /\ \A r \in kept, n \in swept.rows : AdvKey(n) # AdvKey(r)
  BY FS_Subset DEF AdvShape, AdvTable, AdvDistinct
<1> HIDE DEF kept
<1>5. IsFiniteSet(rows)
  BY <1>2, <1>3, <1>4, FS_Union DEF AdvTable
<1>6. QED
  BY <1>2, <1>3, <1>4, <1>5 DEF AdvTable, AdvDistinct

\* What an account overrides of a rule, or of none, is a rule.
LEMMA AdvResolved ==
    ASSUME NEW g \in AdvRuleType \cup {AdvNone}, NEW o \in AdvOverrideType, o # AdvNone
    PROVE  AdvResolve(g, o) \in AdvRuleType
<1> DEFINE base == IF g = AdvNone THEN AdvBase ELSE g
<1>1. base \in AdvRuleType
  BY DEF AdvBase, AdvAny, AdvRuleType, AdvLists
<1>2. AdvOwn(o.enabled, base.enabled) \in BOOLEAN /\ AdvOwn(o.coverage, base.coverage) \in Nat
  BY <1>1 DEF AdvOwn, AdvRuleType, AdvOverrideType
<1>3. ASSUME NEW x \in AdvLists, NEW y \in AdvLists PROVE AdvOwnList(x, y) \in AdvLists
  BY DEF AdvOwnList, AdvLists
<1>4. /\ AdvOwnList(o.engines, base.engines) \in AdvLists
      /\ AdvOwnList(o.regions, base.regions) \in AdvLists
      /\ AdvOwnList(o.types, base.types) \in AdvLists
  BY <1>1, <1>3 DEF AdvRuleType, AdvOverrideType
<1>5. AdvResolve(g, o) =
        [base EXCEPT
          !.enabled = AdvOwn(o.enabled, @), !.coverage = AdvOwn(o.coverage, @),
          !.engines = AdvOwnList(o.engines, @), !.regions = AdvOwnList(o.regions, @),
          !.types = AdvOwnList(o.types, @)]
  BY DEF AdvResolve
<1> HIDE DEF base
<1>6. QED
  BY <1>1, <1>2, <1>4, <1>5 DEF AdvRuleType

\* A configuration is what rules are.
LEMMA AdvConfigured ==
    ASSUME AdvShape, NEW r, AdvRowLike(r)
    PROVE  AdvConfig(r) \in AdvRuleType \cup {AdvNone}
<1>1. ASSUME NEW g \in AdvRuleType \cup {AdvNone}, NEW o \in AdvOverrideType \cup {AdvNone}
      PROVE  AdvResolve(g, o) \in AdvRuleType \cup {AdvNone}
  <2>1. CASE o # AdvNone
    BY <2>1, AdvResolved
  <2>2. CASE o = AdvNone
    BY <2>2 DEF AdvResolve
  <2>3. QED
    BY <2>1, <2>2
<1>2. \A g : AdvResolve(g, AdvNone) = g
  BY DEF AdvResolve
<1>3. advRule \in AdvRuleType \cup {AdvNone}
  BY AdvDataAssumption DEF AdvShape
<1>4. ASSUME r.account # AdvNone PROVE advOverride[r.account] \in AdvOverrideType \cup {AdvNone}
  BY <1>4, AdvDataAssumption DEF AdvShape, AdvRowLike
<1>5. QED
  BY <1>1, <1>2, <1>3, <1>4 DEF AdvConfig

\* What a coverage leaves of a saving is no more than the saving.
LEMMA AdvScales ==
    ASSUME AdvShape, NEW r, AdvRowLike(r), NEW scaling \in BOOLEAN
    PROVE  AdvScaled(r, scaling) \in Nat /\ AdvScaled(r, scaling) <= r.savings
<1> DEFINE c == AdvConfig(r)
<1>1. c \in AdvRuleType \cup {AdvNone} /\ r.savings \in Nat
  BY AdvConfigured DEF AdvRowLike
<1> HIDE DEF c
<1>2. CASE ~scaling \/ c = AdvNone
  <2>1. AdvScaled(r, scaling) = r.savings
    BY <1>2 DEF AdvScaled, c
  <2>2. QED
    BY <1>1, <2>1
<1>3. CASE scaling /\ c # AdvNone
  <2>1. c.coverage \in Nat
    BY <1>1, <1>3 DEF AdvRuleType
  <2>2. AdvScaled(r, scaling) =
          IF c.coverage \in {0} \/ c.coverage >= 100 THEN r.savings ELSE (r.savings * c.coverage) \div 100
    BY <1>3 DEF AdvScaled, c
  <2>3. CASE c.coverage >= 100 \/ c.coverage = 0
    BY <1>1, <2>2, <2>3
  <2>4. CASE ~(c.coverage >= 100 \/ c.coverage = 0)
    <3> DEFINE a == r.savings
               p == c.coverage
    <3>1. a \in Nat /\ p \in Nat /\ p <= 100
      BY <1>1, <2>1, <2>4
    <3>2. AdvScaled(r, scaling) = (a * p) \div 100
      BY <2>2, <2>4
    <3> HIDE DEF a, p
    <3>3. (a * p) \div 100 \in Nat /\ (a * p) \div 100 <= a
      BY <3>1, ShareOf
    <3>4. QED
      BY <3>2, <3>3 DEF a
  <2>5. QED
    BY <2>3, <2>4
<1>4. QED
  BY <1>2, <1>3

\* A finite set of naturals that is not empty has a greatest element.
LEMMA AdvGreatest ==
    ASSUME NEW S, IsFiniteSet(S), S # {}, NEW f, \A x \in S : f[x] \in Nat
    PROVE  \E m \in S : \A x \in S : f[x] <= f[m]
<1> DEFINE sum == Total(f, S)
           values == {f[x] : x \in S}
<1>1. sum \in Nat
  BY TotalStep
<1>2. ASSUME NEW x \in S PROVE f[x] \in 0 .. sum
  <2>1. sum = f[x] + Total(f, S \ {x})
    BY TotalRemove
  <2>2. IsFiniteSet(S \ {x})
    BY FS_Subset
  <2>3. Total(f, S \ {x}) \in Nat
    BY <2>2, TotalStep
  <2> HIDE DEF sum
  <2>4. QED
    BY <1>1, <2>1, <2>3
<1> HIDE DEF sum
<1>3. values \subseteq 0 .. sum /\ values # {}
  BY <1>2
<1>4. PICK v \in values : \A k \in values : k <= v
  BY <1>1, <1>3, NatMax
<1>5. QED
  BY <1>4

\* The most that a variant of a cell saves.
LEMMA AdvMostIs ==
    ASSUME NEW rows, AdvTable(rows), NEW b \in rows
    PROVE  /\ AdvMost(rows, AdvOf(b)) \in Nat
           /\ b.savings <= AdvMost(rows, AdvOf(b))
<1> DEFINE S == {q \in rows : AdvOf(q) = AdvOf(b)}
           values == {r.savings : r \in S}
           f == [r \in S |-> r.savings]
<1>1. IsFiniteSet(S) /\ b \in S /\ \A r \in S : r.savings \in Nat
  BY FS_Subset DEF AdvTable, AdvRowLike
<1> HIDE DEF S
<1>2. PICK m \in S : \A x \in S : f[x] <= f[m]
  <2>1. \A r \in S : f[r] \in Nat
    BY <1>1
  <2> HIDE DEF f
  <2>2. QED
    BY <1>1, <2>1, AdvGreatest
<1>3. m.savings \in values /\ values \subseteq Nat /\ \A v \in values : m.savings >= v
  BY <1>1, <1>2
<1>4. b.savings \in values
  BY <1>1
<1>5. AdvMost(rows, AdvOf(b)) = Max(values)
  BY DEF AdvMost, S
<1> HIDE DEF values
<1>6. Max(values) \in values /\ \A v \in values : Max(values) >= v
  BY <1>3 DEF Max
<1>7. QED
  BY <1>3, <1>4, <1>5, <1>6

\* The best variants of the cells save no more than the most of each cell.
LEMMA AdvBounded ==
    ASSUME AdvShape, NEW rows, AdvTable(rows), NEW scaling \in BOOLEAN
    PROVE  /\ AdvPotential(rows, scaling) \in Nat /\ AdvBound(rows) \in Nat
           /\ AdvPotential(rows, scaling) <= AdvBound(rows)
<1> DEFINE value(r) == AdvScaled(r, scaling)
           variants(c) == {p \in rows : AdvOf(p) = c}
           best(c) == CHOOSE b \in variants(c) : \A q \in variants(c) : value(q) <= value(b)
           S == AdvBest(rows, scaling)
           T == {AdvOf(r) : r \in rows}
           f == [b \in S |-> value(b)]
           h == [c \in T |-> AdvMost(rows, c)]
           m == [b \in S |-> AdvOf(b)]
<1>1. \A r \in rows : value(r) \in Nat /\ value(r) <= r.savings /\ r.savings \in Nat
  BY AdvScales DEF AdvTable, AdvRowLike
<1>2. S = {best(c) : c \in T}
  BY DEF AdvBest
<1>3. ASSUME NEW c \in T PROVE best(c) \in rows /\ AdvOf(best(c)) = c
  <2>1. IsFiniteSet(variants(c)) /\ variants(c) # {} /\ variants(c) \subseteq rows
    BY FS_Subset DEF AdvTable
  <2> DEFINE k == [q \in variants(c) |-> value(q)]
  <2>2. \A q \in variants(c) : k[q] \in Nat /\ k[q] = value(q)
    BY <1>1, <2>1
  <2> HIDE DEF k, variants, value
  <2>3. \E b \in variants(c) : \A q \in variants(c) : k[q] <= k[b]
    BY <2>1, <2>2, AdvGreatest
  <2>4. \E b \in variants(c) : \A q \in variants(c) : value(q) <= value(b)
    BY <2>2, <2>3
  <2>5. best(c) \in variants(c)
    BY <2>4
  <2> HIDE DEF best
  <2>6. QED
    BY <2>5 DEF variants
<1> HIDE DEF best
<1>4. IsFiniteSet(T) /\ IsFiniteSet(S) /\ S \subseteq rows
  <2> DEFINE cell == [r \in rows |-> AdvOf(r)]
             first == [c \in T |-> best(c)]
  <2>1. T = {cell[r] : r \in rows} /\ S = {first[c] : c \in T}
    BY <1>2
  <2>2. S \subseteq rows
    BY <1>2, <1>3
  <2> HIDE DEF cell, first, S
  <2>3. IsFiniteSet(T)
    BY <2>1, ImageFinite DEF AdvTable
  <2> HIDE DEF T
  <2>4. QED
    BY <2>1, <2>2, <2>3, ImageFinite
<1>5. \A b \in S : b \in rows /\ m[b] \in T /\ f[b] \in Nat /\ f[b] = value(b)
  <2> HIDE DEF S, value
  <2>1. QED
    BY <1>1, <1>4
<1>6. \A c \in T : h[c] \in Nat /\ h[c] = AdvMost(rows, c)
  BY AdvMostIs
<1>7. \A b \in S : f[b] <= h[m[b]]
  <2> SUFFICES ASSUME NEW b \in S PROVE f[b] <= h[m[b]]
    OBVIOUS
  <2>1. m[b] = AdvOf(b)
    OBVIOUS
  <2>2. b.savings <= h[m[b]]
    BY <1>5, <1>6, <2>1, AdvMostIs
  <2>3. f[b] <= b.savings /\ b.savings \in Nat /\ h[m[b]] \in Nat
    BY <1>1, <1>5, <1>6
  <2> HIDE DEF f, h, m, S
  <2>4. QED
    BY <1>5, <2>2, <2>3
<1>8. \A x, y \in S : m[x] = m[y] => x = y
  <2> SUFFICES ASSUME NEW x \in S, NEW y \in S, AdvOf(x) = AdvOf(y) PROVE x = y
    BY DEF m
  <2> HIDE DEF S, T
  <2>1. PICK c \in T : x = best(c)
    BY <1>2
  <2>2. PICK d \in T : y = best(d)
    BY <1>2
  <2>3. QED
    BY <1>3, <2>1, <2>2
<1> HIDE DEF m
<1>9. Total(f, S) <= Total(h, T) /\ Total(f, S) \in Nat /\ Total(h, T) \in Nat
  <2> HIDE DEF f, h, S, T
  <2>1. QED
    BY <1>4, <1>5, <1>6, <1>7, <1>8, TotalInto, TotalStep
<1>10. AdvPotential(rows, scaling) = Total(f, S)
  <2> DEFINE up(g) == g = [s \in SUBSET S |-> IF s = {} THEN 0 ELSE AdvScaled(Pick(s), scaling) + g[s \ {Pick(s)}]]
             g == CHOOSE g : up(g)
  <2>1. ASSUME NEW k PROVE up(k) <=> SumsUp(f, S, k)
    <3>1. ASSUME NEW s \in SUBSET S, s # {} PROVE AdvScaled(Pick(s), scaling) = f[Pick(s)]
      <4>1. Pick(s) \in s
        BY <3>1 DEF Pick
      <4> HIDE DEF S
      <4>2. QED
        BY <1>5, <4>1
    <3> HIDE DEF S, f
    <3>2. QED
      BY <3>1 DEF SumsUp
  <2> HIDE DEF f
  <2>2. PICK k : SumsUp(f, S, k)
    <3> HIDE DEF S
    <3>1. QED
      BY <1>4, <1>5, SumsExist
  <2>3. up(g)
    <3> HIDE DEF S
    <3>1. up(k)
      BY <2>1, <2>2
    <3>2. QED
      BY <3>1
  <2>4. AdvPotential(rows, scaling) = g[S]
    BY Zenon DEF AdvPotential, MapThenSumSet, MapThenFoldSet, Pick
  <2> HIDE DEF g, up, S
  <2>5. SumsUp(f, S, g) /\ S \in SUBSET S
    BY <2>1, <2>3
  <2>6. QED
    BY <1>4, <1>5, <2>4, <2>5, TotalIs
<1>11. AdvBound(rows) = Total(h, T)
  <2> DEFINE up(g) == g = [s \in SUBSET T |-> IF s = {} THEN 0 ELSE AdvMost(rows, Pick(s)) + g[s \ {Pick(s)}]]
             g == CHOOSE g : up(g)
  <2>1. ASSUME NEW k PROVE up(k) <=> SumsUp(h, T, k)
    <3>1. ASSUME NEW s \in SUBSET T, s # {} PROVE AdvMost(rows, Pick(s)) = h[Pick(s)]
      <4>1. Pick(s) \in s
        BY <3>1 DEF Pick
      <4> HIDE DEF T
      <4>2. QED
        BY <1>6, <4>1
    <3> HIDE DEF T, h
    <3>2. QED
      BY <3>1 DEF SumsUp
  <2> HIDE DEF h
  <2>2. PICK k : SumsUp(h, T, k)
    <3> HIDE DEF T
    <3>1. QED
      BY <1>4, <1>6, SumsExist
  <2>3. up(g)
    <3> HIDE DEF T
    <3>1. up(k)
      BY <2>1, <2>2
    <3>2. QED
      BY <3>1
  <2>4. AdvBound(rows) = g[T]
    BY Zenon DEF AdvBound, MapThenSumSet, MapThenFoldSet, Pick
  <2> HIDE DEF g, up, T
  <2>5. SumsUp(h, T, g) /\ T \in SUBSET T
    BY <2>1, <2>3
  <2>6. QED
    BY <1>4, <1>6, <2>4, <2>5, TotalIs
<1> HIDE DEF f, h, S, T
<1>12. QED
  BY <1>9, <1>10, <1>11

\* A page starts with nothing.
LEMMA AdvStarts == AdvInit => AdvInv
<1> SUFFICES ASSUME AdvInit PROVE AdvInv
  OBVIOUS
<1>1. PICK ask \in AdvAsks :
        advReq = [ask |-> ask, pc |-> IF ask.page = "detail" THEN "cache" ELSE "freshness",
                  rows |-> {}, why |-> {}, trust |-> {}, total |-> 0, kicked |-> FALSE]
  BY DEF AdvInit
<1>2. /\ AdvReqFields /\ advReq.ask = ask /\ advReq.rows = {} /\ advReq.total = 0
      /\ advReq.pc \in {"cache", "freshness"}
  BY <1>1 DEF AdvReqFields
<1>3. AdvTable({}) /\ AdvDistinct({})
  BY FS_EmptySet DEF AdvTable, AdvDistinct
<1>4. AdvTable(advRows) /\ AdvDistinct(advRows)
  BY <1>3, AdvConverts DEF AdvInit
<1>5. IsFiniteSet(advBuying) /\ \A s \in advBuying : s.count \in Nat
  <2> DEFINE S == AdvConvert(AdvFound)
             f == [r \in S |-> [cell |-> AdvOf(r), count |-> 1, age |-> 1]]
  <2>1. {f[r] : r \in S} = {[cell |-> AdvOf(r), count |-> 1, age |-> 1] : r \in S}
    OBVIOUS
  <2>2. IsFiniteSet(S)
    BY AdvConverts DEF AdvTable
  <2> HIDE DEF f, S
  <2>3. IsFiniteSet({f[r] : r \in S})
    BY <2>2, ImageFinite
  <2>4. CASE advBuying = {}
    BY <2>4, FS_EmptySet
  <2>5. CASE advBuying = {[cell |-> AdvOf(r), count |-> 1, age |-> 1] : r \in S}
    <3>1. advBuying = {f[r] : r \in S}
      BY <2>1, <2>5
    <3>2. IsFiniteSet(advBuying)
      BY ONLY <2>3, <3>1
    <3>3. QED
      BY <2>5, <3>2
  <2>6. QED
    BY <2>4, <2>5 DEF AdvInit, S
<1>6. AdvShape
  BY <1>2, <1>3, <1>4, <1>5 DEF AdvInit, AdvShape
<1>7. QED
  BY <1>2, <1>6 DEF AdvInv, AdvStages, AdvReads, AdvScoped, AdvTotals, AdvAt

\* What a page is read from stays what it is.
LEMMA AdvKept ==
    ASSUME UNCHANGED <<advRows, advBuying, advRule, advOverride>>, advReq'.ask = advReq.ask
    PROVE  /\ AdvStored(advReq.ask.filter)' = AdvStored(advReq.ask.filter)
           /\ AdvLeft' = AdvLeft /\ AdvFitting' = AdvFitting /\ AdvHidden' = AdvHidden
<1>1. AdvStored(advReq.ask.filter)' = AdvStored(advReq.ask.filter)
  BY DEF AdvStored
<1>2. AdvLeft' = AdvLeft
  BY <1>1 DEF AdvLeft
<1>3. \A r : AdvConfig(r)' = AdvConfig(r)
  BY DEF AdvConfig
<1>4. \A r : (AdvFits(r)' <=> AdvFits(r)) /\ AdvHiddenBy(r)' = AdvHiddenBy(r)
  BY <1>3 DEF AdvFits, AdvHiddenBy
<1>5. QED
  BY <1>1, <1>2, <1>4 DEF AdvFitting, AdvHidden

\* A step of the request leaves the shape of the rest.
LEMMA AdvSteps ==
    ASSUME AdvShape, UNCHANGED <<advRows, advRegistered, advBuying, advRule, advOverride, advChanges>>,
           advErred' \in BOOLEAN, AdvReqFields', advReq'.ask = advReq.ask, AdvTable(advReq'.rows)
    PROVE  AdvShape'
BY DEF AdvShape

\* A page that failed holds nothing.
LEMMA AdvFails ==
    ASSUME AdvInv, AdvFail, advErred' \in BOOLEAN,
           UNCHANGED <<advRows, advRegistered, advBuying, advRule, advOverride, advChanges>>,
           ~AdvAt("done")
    PROVE  AdvInv'
<1>1. AdvShape /\ AdvTotals /\ AdvReqFields
  BY DEF AdvInv, AdvShape
<1>2. /\ AdvReqFields' /\ advReq'.ask = advReq.ask /\ advReq'.pc = "failed" /\ advReq'.rows = {}
      /\ advReq'.total = advReq.total
  BY <1>1 DEF AdvFail, AdvReqFields
<1>3. AdvTable(advReq'.rows)
  BY <1>2, FS_EmptySet DEF AdvTable
<1>4. AdvShape'
  BY <1>1, <1>2, <1>3, AdvSteps
<1>5. QED
  BY <1>1, <1>2, <1>4 DEF AdvInv, AdvStages, AdvReads, AdvScoped, AdvTotals, AdvAt

\* With nothing collected yet the page collects, or fails.
LEMMA AdvFreshnessStep ==
    ASSUME AdvInv, AdvFreshness
    PROVE  AdvInv'
<1>1. AdvShape /\ AdvTotals /\ AdvReqFields
  BY DEF AdvInv, AdvShape
<1>2. UNCHANGED <<advErred, advRegistered, advBuying, advRule, advOverride, advProviders, advChanges>>
      /\ ~AdvAt("done")
  BY DEF AdvFreshness, AdvOnly, AdvAt
<1>3. CASE AdvFail /\ UNCHANGED <<advRows, advFresh>>
  <2>1. advErred' \in BOOLEAN
    BY <1>1, <1>2 DEF AdvShape
  <2>2. QED
    BY <1>2, <1>3, <2>1, AdvFails
<1>4. CASE AdvTo("cache", {}) /\ (UNCHANGED advRows \/ advRows' \in AdvCollected("aws"))
  <2>1. /\ AdvReqFields' /\ advReq'.ask = advReq.ask /\ advReq'.pc = "cache" /\ advReq'.rows = {}
        /\ advReq'.total = advReq.total
    BY <1>1, <1>4 DEF AdvTo, AdvReqFields
  <2>2. AdvTable(advReq'.rows)
    BY <2>1, FS_EmptySet DEF AdvTable
  <2>3. AdvTable(advRows') /\ AdvDistinct(advRows')
    BY <1>1, <1>4, AdvCollects DEF AdvShape
  <2>4. AdvShape'
    BY <1>1, <1>2, <2>1, <2>2, <2>3 DEF AdvShape
  <2>5. QED
    BY <1>1, <1>2, <2>1, <2>4 DEF AdvInv, AdvStages, AdvReads, AdvScoped, AdvTotals, AdvAt
<1>5. QED
  BY <1>3, <1>4 DEF AdvFreshness

\* The page reads what its filter asks for.
LEMMA AdvReadStep ==
    ASSUME AdvInv, AdvRead
    PROVE  AdvInv'
<1>1. AdvShape /\ AdvTotals /\ AdvReqFields
  BY DEF AdvInv, AdvShape
<1>2. /\ UNCHANGED <<advRows, advErred, advRegistered, advBuying, advRule, advOverride, advChanges>>
      /\ ~AdvAt("done") /\ advErred' \in BOOLEAN
  BY <1>1 DEF AdvRead, AdvOnly, AdvAt, AdvShape
<1>3. CASE AdvTo("buying", AdvStored(advReq.ask.filter))
  <2>1. /\ AdvReqFields' /\ advReq'.ask = advReq.ask /\ advReq'.pc = "buying"
        /\ advReq'.rows = AdvStored(advReq.ask.filter) /\ advReq'.total = advReq.total
    BY <1>1, <1>3 DEF AdvTo, AdvReqFields
  <2>2. AdvTable(advReq'.rows)
    BY <1>1, <2>1, FS_Subset DEF AdvShape, AdvTable, AdvStored
  <2>3. AdvShape'
    BY <1>1, <1>2, <2>1, <2>2, AdvSteps
  <2>4. AdvReads'
    <3>1. AdvStored(advReq.ask.filter)' = AdvStored(advReq.ask.filter)
      BY <1>2, <2>1, AdvKept
    <3>2. QED
      BY <2>1, <3>1 DEF AdvReads, AdvAt
  <2>5. QED
    BY <1>1, <1>2, <2>1, <2>3, <2>4 DEF AdvInv, AdvStages, AdvScoped, AdvTotals, AdvAt
<1>4. QED
  BY <1>2, <1>3, AdvFails DEF AdvRead

\* What is being bought is taken off, or cannot be read.
LEMMA AdvTakeOffStep ==
    ASSUME AdvInv, AdvTakeOff
    PROVE  AdvInv'
<1>1. AdvShape /\ AdvTotals /\ AdvReqFields /\ AdvReads
  BY DEF AdvInv, AdvShape
<1>2. /\ UNCHANGED <<advRows, advRegistered, advBuying, advRule, advOverride, advChanges>>
      /\ AdvAt("buying") /\ (UNCHANGED advErred \/ advErred' = TRUE)
  BY DEF AdvTakeOff, AdvOnly
<1>3. ASSUME NEW rows, AdvTo("rules", rows), AdvTable(rows),
             advChanges' = 0 /\ ~advErred' => rows = AdvLeft
      PROVE  AdvInv'
  <2>1. /\ AdvReqFields' /\ advReq'.ask = advReq.ask /\ advReq'.pc = "rules"
        /\ advReq'.rows = rows /\ advReq'.total = advReq.total
    BY <1>1, <1>3 DEF AdvTo, AdvReqFields
  <2>2. AdvShape'
    BY <1>1, <1>2, <1>3, <2>1, AdvSteps DEF AdvShape
  <2>3. AdvReads'
    <3>1. AdvLeft' = AdvLeft
      BY <1>2, <2>1, AdvKept
    <3>2. QED
      BY <1>3, <2>1, <3>1 DEF AdvReads, AdvAt
  <2>4. QED
    BY <1>1, <1>2, <2>1, <2>2, <2>3 DEF AdvInv, AdvStages, AdvScoped, AdvTotals, AdvAt
<1>4. CASE AdvTo("rules", AdvApply(advReq.rows, advBuying)) /\ UNCHANGED advErred
  <2>1. AdvTable(AdvApply(advReq.rows, advBuying))
    BY <1>1, AdvApplied DEF AdvShape
  <2>2. advChanges' = 0 /\ ~advErred' => AdvApply(advReq.rows, advBuying) = AdvLeft
    BY <1>1, <1>2, <1>4 DEF AdvReads, AdvLeft
  <2>3. QED
    BY <1>3, <1>4, <2>1, <2>2
<1>5. CASE AdvTo("rules", advReq.rows) /\ advErred' = TRUE
  <2>1. AdvTable(advReq.rows)
    BY <1>1 DEF AdvShape
  <2>2. QED
    BY <1>3, <1>5, <2>1
<1>6. QED
  BY <1>4, <1>5 DEF AdvTakeOff

\* The rules drop what they exclude, or say why they would.
LEMMA AdvExcludeStep ==
    ASSUME AdvInv, AdvExclude
    PROVE  AdvInv'
<1>1. AdvShape /\ AdvTotals /\ AdvReqFields /\ AdvReads
  BY DEF AdvInv, AdvShape
<1>2. /\ UNCHANGED <<advRows, advRegistered, advBuying, advRule, advOverride, advChanges>>
      /\ AdvAt("rules") /\ (UNCHANGED advErred \/ advErred' = TRUE)
  BY DEF AdvExclude, AdvOnly
<1>3. advChanges = 0 /\ ~advErred => advReq.rows = AdvLeft
  BY <1>1, <1>2 DEF AdvReads
<1>4. CASE ~AdvDetail /\ AdvTo("ttl", {r \in advReq.rows : AdvFits(r)}) /\ UNCHANGED advErred
  <2>1. /\ AdvReqFields' /\ advReq'.ask = advReq.ask /\ advReq'.pc = "ttl"
        /\ advReq'.rows = {r \in advReq.rows : AdvFits(r)} /\ advReq'.total = advReq.total
    BY <1>1, <1>4 DEF AdvTo, AdvReqFields
  <2>2. AdvTable(advReq'.rows)
    BY <1>1, <2>1, FS_Subset DEF AdvShape, AdvTable
  <2>3. AdvShape'
    BY <1>1, <1>2, <2>1, <2>2, AdvSteps DEF AdvShape
  <2>4. AdvReads'
    <3>1. AdvFitting' = AdvFitting
      BY <1>2, <2>1, AdvKept
    <3>2. advChanges' = 0 /\ ~advErred' => advReq'.rows \subseteq AdvFitting'
      BY <1>2, <1>3, <1>4, <2>1, <3>1 DEF AdvFitting
    <3>3. QED
      BY <1>4, <2>1, <3>2 DEF AdvReads, AdvAt, AdvDetail
  <2>5. QED
    BY <1>1, <1>2, <1>4, <2>1, <2>3, <2>4 DEF AdvInv, AdvStages, AdvScoped, AdvTotals, AdvAt, AdvDetail
<1>5. CASE /\ AdvDetail
           /\ advReq' = [advReq EXCEPT !.pc = "scope", !.why = UNION {AdvHiddenBy(r) : r \in advReq.rows}]
           /\ UNCHANGED advErred
  <2>1. /\ AdvReqFields' /\ advReq'.ask = advReq.ask /\ advReq'.pc = "scope"
        /\ advReq'.rows = advReq.rows /\ advReq'.total = advReq.total
        /\ advReq'.why = UNION {AdvHiddenBy(r) : r \in advReq.rows}
    BY <1>1, <1>5 DEF AdvReqFields
  <2>2. AdvShape'
    BY <1>1, <1>2, <2>1, AdvSteps DEF AdvShape
  <2>3. AdvReads'
    <3>1. AdvLeft' = AdvLeft /\ AdvHidden' = AdvHidden
      BY <1>2, <2>1, AdvKept
    <3>2. advChanges' = 0 /\ ~advErred' => advReq'.rows = AdvLeft' /\ advReq'.why = AdvHidden'
      BY <1>2, <1>3, <1>5, <2>1, <3>1 DEF AdvHidden
    <3>3. QED
      BY <1>5, <2>1, <3>2 DEF AdvReads, AdvAt, AdvDetail
  <2>4. QED
    BY <1>1, <1>2, <1>5, <2>1, <2>2, <2>3 DEF AdvInv, AdvStages, AdvScoped, AdvTotals, AdvAt, AdvDetail
<1>6. CASE AdvTo(IF AdvDetail THEN "scope" ELSE "ttl", advReq.rows) /\ advErred' = TRUE
  <2>1. /\ AdvReqFields' /\ advReq'.ask = advReq.ask /\ advReq'.pc = (IF AdvDetail THEN "scope" ELSE "ttl")
        /\ advReq'.rows = advReq.rows /\ advReq'.total = advReq.total
    BY <1>1, <1>6 DEF AdvTo, AdvReqFields
  <2>2. AdvShape'
    BY <1>1, <1>2, <2>1, AdvSteps DEF AdvShape
  <2>3. QED
    BY <1>1, <1>2, <1>6, <2>1, <2>2 DEF AdvInv, AdvStages, AdvReads, AdvScoped, AdvTotals, AdvAt, AdvDetail
<1>7. QED
  BY <1>4, <1>5, <1>6 DEF AdvExclude, AdvDetail

\* The page of several goes on with what it holds, or with part of it.
LEMMA AdvGoesOn ==
    ASSUME AdvInv, advReq.pc \in {"ttl", "providers"},
           UNCHANGED <<advRows, advRegistered, advBuying, advRule, advOverride, advChanges, advErred>>,
           AdvReqFields', advReq'.ask = advReq.ask, advReq'.pc \in {"providers", "scope"},
           advReq'.rows \subseteq advReq.rows, advReq'.total = advReq.total
    PROVE  AdvInv'
<1>1. AdvShape /\ AdvTotals /\ AdvReads /\ ~AdvDetail /\ ~AdvDetail'
  BY DEF AdvInv, AdvStages, AdvDetail
<1>2. AdvTable(advReq'.rows)
  BY <1>1, FS_Subset DEF AdvShape, AdvTable
<1>3. AdvShape'
  BY <1>1, <1>2, AdvSteps DEF AdvShape
<1>4. AdvReads'
  <2>1. AdvFitting' = AdvFitting
    BY AdvKept
  <2>2. advChanges' = 0 /\ ~advErred' => advReq'.rows \subseteq AdvFitting'
    BY <1>1, <2>1 DEF AdvReads
  <2>3. QED
    BY <1>1, <2>2 DEF AdvReads, AdvAt
<1>5. QED
  BY <1>1, <1>3, <1>4 DEF AdvInv, AdvStages, AdvScoped, AdvTotals, AdvAt

\* A refresh that is started leaves the page as it is.
LEMMA AdvKickStep ==
    ASSUME AdvInv, AdvKick
    PROVE  AdvInv'
<1>1. PICK kick \in BOOLEAN :
        /\ AdvAt("ttl")
        /\ advReq' = [advReq EXCEPT !.pc = IF advReq.ask.page = "list" THEN "providers" ELSE "scope",
                                    !.kicked = kick]
        /\ AdvOnly(<<advRows, advFresh, advErred>>)
  BY DEF AdvKick
<1>2. AdvReqFields
  BY DEF AdvInv, AdvShape
<1>3. /\ AdvReqFields' /\ advReq'.ask = advReq.ask /\ advReq'.pc \in {"providers", "scope"}
      /\ advReq'.rows = advReq.rows /\ advReq'.total = advReq.total
  BY <1>1, <1>2 DEF AdvReqFields
<1>4. QED
  BY <1>1, <1>3, AdvGoesOn DEF AdvOnly, AdvAt

\* The list keeps what the enabled providers offer.
LEMMA AdvOfferStep ==
    ASSUME AdvInv, AdvOffer
    PROVE  AdvInv'
<1>1. AdvReqFields /\ AdvShape
  BY DEF AdvInv, AdvShape
<1>2. /\ UNCHANGED <<advRows, advRegistered, advBuying, advRule, advOverride, advChanges, advErred>>
      /\ AdvAt("providers") /\ ~AdvAt("done") /\ advErred' \in BOOLEAN
  BY <1>1 DEF AdvOffer, AdvOnly, AdvAt, AdvShape
<1>3. CASE AdvTo("scope", AdvOffered(advReq.rows))
  <2>1. /\ AdvReqFields' /\ advReq'.ask = advReq.ask /\ advReq'.pc = "scope"
        /\ advReq'.rows = AdvOffered(advReq.rows) /\ advReq'.total = advReq.total
    BY <1>1, <1>3 DEF AdvTo, AdvReqFields
  <2>2. advReq'.rows \subseteq advReq.rows
    BY <2>1 DEF AdvOffered
  <2>3. QED
    BY <1>2, <2>1, <2>2, AdvGoesOn DEF AdvAt
<1>4. QED
  BY <1>2, <1>3, AdvFails DEF AdvOffer

\* What is not the caller's is dropped.
LEMMA AdvScopeStep ==
    ASSUME AdvInv, AdvScope
    PROVE  AdvInv'
<1> DEFINE mine == AdvMine(advReq.ask, advReq.rows)
<1>1. AdvShape /\ AdvTotals /\ AdvReqFields /\ AdvReads
  BY DEF AdvInv, AdvShape
<1>2. /\ UNCHANGED <<advRows, advRegistered, advBuying, advRule, advOverride, advChanges, advErred>>
      /\ AdvAt("scope") /\ ~AdvAt("done") /\ advErred' \in BOOLEAN
  BY <1>1 DEF AdvScope, AdvOnly, AdvAt, AdvShape
<1>3. /\ mine \subseteq advReq.rows
      /\ advReq.ask.accounts = AdvAccounts \/ \A r \in mine : r.account \in advReq.ask.accounts
  BY DEF AdvMine
<1>4. advReq.ask.page \in {"list", "summary", "detail"}
  BY <1>1, AdvDataAssumption DEF AdvShape
<1>5. ASSUME AdvReqFields', advReq'.ask = advReq.ask, advReq'.rows = mine, advReq'.why = advReq.why,
             \/ advReq'.pc = "done" /\ advReq.ask.page # "summary"
             \/ advReq'.pc = "coverage" /\ advReq.ask.page = "summary" /\ advReq'.total = advReq.total
      PROVE  AdvInv'
  <2>1. AdvTable(advReq'.rows)
    BY <1>1, <1>3, <1>5, FS_Subset DEF AdvShape, AdvTable
  <2>2. AdvShape'
    BY <1>1, <1>2, <1>5, <2>1, AdvSteps DEF AdvShape
  <2>3. AdvReads'
    <3>1. AdvFitting' = AdvFitting /\ AdvLeft' = AdvLeft /\ AdvHidden' = AdvHidden
      BY <1>2, <1>5, AdvKept
    <3>2. ASSUME advChanges' = 0, ~advErred', ~AdvDetail' PROVE advReq'.rows \subseteq AdvFitting'
      <4>1. advReq.rows \subseteq AdvFitting
        BY <1>1, <1>2, <1>5, <3>2 DEF AdvReads, AdvDetail, AdvAt
      <4>2. QED
        BY <1>3, <1>5, <3>1, <4>1
    <3>3. ASSUME advChanges' = 0, ~advErred', AdvDetail'
          PROVE  advReq'.rows = AdvMine(advReq'.ask, AdvLeft') /\ advReq'.why = AdvHidden'
      <4>1. advReq.rows = AdvLeft /\ advReq.why = AdvHidden
        BY <1>1, <1>2, <1>5, <3>3 DEF AdvReads, AdvDetail, AdvAt
      <4>2. QED
        BY <1>5, <3>1, <4>1
    <3>4. advReq'.pc \in {"done", "coverage"} /\ (advReq'.pc = "coverage" => ~AdvDetail')
      BY <1>5 DEF AdvDetail
    <3>5. AdvMine(advReq.ask, AdvLeft)' = AdvMine(advReq'.ask, AdvLeft')
      BY DEF AdvMine
    <3>6. QED
      BY <3>2, <3>3, <3>4, <3>5 DEF AdvReads, AdvAt
  <2>4. AdvScoped'
    BY <1>3, <1>5 DEF AdvScoped
  <2>5. AdvTotals' /\ AdvStages'
    BY <1>1, <1>2, <1>5 DEF AdvTotals, AdvStages, AdvAt, AdvDetail
  <2>6. QED
    BY <2>2, <2>3, <2>4, <2>5 DEF AdvInv
<1> HIDE DEF mine
<1>6. CASE advReq.ask.page = "summary" /\ AdvTo("coverage", mine)
  <2>1. /\ AdvReqFields' /\ advReq'.ask = advReq.ask /\ advReq'.pc = "coverage"
        /\ advReq'.rows = mine /\ advReq'.total = advReq.total /\ advReq'.why = advReq.why
    BY <1>1, <1>6 DEF AdvTo, AdvReqFields
  <2>2. QED
    BY <1>5, <1>6, <2>1
<1>7. CASE /\ advReq.ask.page = "list"
           /\ advReq' = [advReq EXCEPT !.pc = "done", !.rows = mine, !.total = AdvSavings(mine)]
  <2>1. /\ AdvReqFields' /\ advReq'.ask = advReq.ask /\ advReq'.pc = "done"
        /\ advReq'.rows = mine /\ advReq'.why = advReq.why
    BY <1>1, <1>7 DEF AdvReqFields
  <2>2. QED
    BY <1>5, <1>7, <2>1
<1>8. CASE /\ advReq.ask.page = "detail"
           /\ advReq' = [advReq EXCEPT !.pc = "done", !.rows = mine, !.trust = {AdvConfidence(r) : r \in mine}]
  <2>1. /\ AdvReqFields' /\ advReq'.ask = advReq.ask /\ advReq'.pc = "done"
        /\ advReq'.rows = mine /\ advReq'.why = advReq.why
    BY <1>1, <1>8 DEF AdvReqFields
  <2>2. QED
    BY <1>5, <1>8, <2>1
<1>9. AdvFail \/ (CASE advReq.ask.page = "summary" -> AdvTo("coverage", mine)
                    [] advReq.ask.page = "list" ->
                         advReq' = [advReq EXCEPT !.pc = "done", !.rows = mine, !.total = AdvSavings(mine)]
                    [] advReq.ask.page = "detail" ->
                         advReq' = [advReq EXCEPT !.pc = "done", !.rows = mine,
                                                  !.trust = {AdvConfidence(r) : r \in mine}])
  BY DEF AdvScope, mine
<1>10. AdvFail \/ (advReq.ask.page = "summary" /\ AdvTo("coverage", mine))
       \/ (advReq.ask.page = "list"
           /\ advReq' = [advReq EXCEPT !.pc = "done", !.rows = mine, !.total = AdvSavings(mine)])
       \/ (advReq.ask.page = "detail"
           /\ advReq' = [advReq EXCEPT !.pc = "done", !.rows = mine,
                                       !.trust = {AdvConfidence(r) : r \in mine}])
  BY <1>4, <1>9
<1>11. QED
  BY <1>2, <1>6, <1>7, <1>8, <1>10, AdvFails

\* The summary adds up the best variants.
LEMMA AdvSummaryStep ==
    ASSUME AdvInv, AdvSummary
    PROVE  AdvInv'
<1>1. PICK scaling \in BOOLEAN :
        /\ AdvAt("coverage")
        /\ advReq' = [advReq EXCEPT !.pc = "done", !.total = AdvPotential(advReq.rows, scaling)]
        /\ AdvOnly(<<advRows, advFresh, advErred>>)
  BY DEF AdvSummary
<1>2. AdvShape /\ AdvTotals /\ AdvReqFields /\ AdvReads /\ AdvScoped /\ AdvStages
  BY DEF AdvInv, AdvShape
<1>3. /\ AdvReqFields' /\ advReq'.ask = advReq.ask /\ advReq'.pc = "done"
      /\ advReq'.rows = advReq.rows /\ advReq'.total = AdvPotential(advReq.rows, scaling)
  BY <1>1, <1>2 DEF AdvReqFields
<1>4. UNCHANGED <<advRows, advRegistered, advBuying, advRule, advOverride, advChanges, advErred>>
  BY <1>1 DEF AdvOnly
<1>5. AdvShape'
  BY <1>2, <1>3, <1>4, AdvSteps DEF AdvShape
<1>6. ~AdvDetail'
  BY <1>1, <1>2, <1>3 DEF AdvStages, AdvAt, AdvDetail
<1>7. AdvReads'
  <2>1. AdvFitting' = AdvFitting
    BY <1>3, <1>4, AdvKept
  <2>2. advChanges' = 0 /\ ~advErred' => advReq'.rows \subseteq AdvFitting'
    BY <1>1, <1>2, <1>3, <1>4, <2>1 DEF AdvReads, AdvStages, AdvAt
  <2>3. QED
    BY <1>3, <1>6, <2>2 DEF AdvReads, AdvAt
<1>8. AdvTotals'
  <2>1. AdvPotential(advReq.rows, scaling) <= AdvBound(advReq.rows)
    BY <1>2, AdvBounded DEF AdvShape
  <2>2. AdvBound(advReq.rows)' = AdvBound(advReq.rows)
    BY <1>3
  <2>3. QED
    BY <1>3, <2>1, <2>2 DEF AdvTotals, AdvAt
<1>9. AdvScoped' /\ AdvStages'
  BY <1>1, <1>2, <1>3 DEF AdvScoped, AdvStages, AdvAt
<1>10. QED
  BY <1>5, <1>7, <1>8, <1>9 DEF AdvInv

\* What changes meanwhile is counted.
LEMMA AdvChangeStep ==
    ASSUME AdvInv, AdvChange
    PROVE  AdvInv'
<1>1. AdvShape /\ AdvTotals /\ AdvScoped /\ AdvStages
  BY DEF AdvInv
<1>2. /\ advReq.pc \notin {"done", "failed"} /\ advChanges' = advChanges + 1
      /\ UNCHANGED <<advRegistered, advReq, advErred>>
  BY DEF AdvChange
<1>3. advChanges' \in Nat /\ advChanges' # 0
  BY <1>1, <1>2 DEF AdvShape
<1>4. AdvTable(advRows') /\ AdvDistinct(advRows')
  BY <1>1, AdvCollects DEF AdvChange, AdvShape
<1>5. IsFiniteSet(advBuying') /\ \A s \in advBuying' : s.count \in Nat
  <2>1. \/ UNCHANGED advBuying \/ advBuying' = {}
        \/ \E r \in advRows : advBuying' = advBuying \cup {[cell |-> AdvOf(r), count |-> 1, age |-> 0]}
    BY DEF AdvChange
  <2>2. CASE UNCHANGED advBuying \/ advBuying' = {}
    BY <1>1, <2>2, FS_EmptySet DEF AdvShape
  <2>3. ASSUME NEW r \in advRows, advBuying' = advBuying \cup {[cell |-> AdvOf(r), count |-> 1, age |-> 0]}
        PROVE  IsFiniteSet(advBuying') /\ \A s \in advBuying' : s.count \in Nat
    <3> DEFINE new == [cell |-> AdvOf(r), count |-> 1, age |-> 0]
    <3>1. new.count = 1
      OBVIOUS
    <3> HIDE DEF new
    <3>2. advBuying' = advBuying \cup {new}
      BY <2>3 DEF new
    <3>3. IsFiniteSet(advBuying')
      BY <1>1, <3>2, FS_AddElement DEF AdvShape
    <3>4. QED
      BY <1>1, <3>1, <3>2, <3>3 DEF AdvShape
  <2>4. QED
    BY <2>1, <2>2, <2>3
<1>6. /\ advRule' \in AdvRules \cup {AdvNone}
      /\ advOverride' \in [AdvAccounts -> AdvOverrides \cup {AdvNone}]
  BY <1>1 DEF AdvChange, AdvShape
<1>7. AdvShape'
  BY <1>1, <1>2, <1>3, <1>4, <1>5, <1>6 DEF AdvShape, AdvReqFields
<1>8. AdvReads' /\ AdvScoped' /\ AdvStages' /\ AdvTotals'
  BY <1>1, <1>2, <1>3 DEF AdvReads, AdvScoped, AdvStages, AdvTotals, AdvAt, AdvDetail
<1>9. QED
  BY <1>7, <1>8 DEF AdvInv

\* Whatever is read and changed, what a page holds is right.
LEMMA AdvStays == AdvInv /\ [AdvNext]_advVars => AdvInv'
<1> SUFFICES ASSUME AdvInv, [AdvNext]_advVars PROVE AdvInv'
  OBVIOUS
<1>1. CASE UNCHANGED advVars
  <2>1. UNCHANGED <<advRows, advRegistered, advBuying, advRule, advOverride, advReq, advChanges, advErred>>
    BY <1>1 DEF advVars
  <2>2. AdvShape' /\ AdvStages' /\ AdvScoped' /\ AdvTotals'
    BY <2>1 DEF AdvInv, AdvShape, AdvReqFields, AdvStages, AdvScoped, AdvTotals, AdvAt, AdvDetail
  <2>3. AdvReads'
    <3>1. /\ AdvStored(advReq.ask.filter)' = AdvStored(advReq.ask.filter)
          /\ AdvLeft' = AdvLeft /\ AdvFitting' = AdvFitting /\ AdvHidden' = AdvHidden
      BY <2>1, AdvKept
    <3>2. AdvMine(advReq.ask, AdvLeft)' = AdvMine(advReq.ask, AdvLeft)
      BY <2>1, <3>1 DEF AdvMine
    <3>3. QED
      BY <2>1, <3>1, <3>2 DEF AdvInv, AdvReads, AdvAt, AdvDetail
  <2>4. QED
    BY <2>2, <2>3 DEF AdvInv
<1>2. CASE AdvNext
  BY <1>2, AdvFreshnessStep, AdvReadStep, AdvTakeOffStep, AdvExcludeStep, AdvKickStep, AdvOfferStep,
     AdvScopeStep, AdvSummaryStep, AdvChangeStep DEF AdvNext
<1>3. QED
  BY <1>1, <1>2

\* Of the recommendation asked for there is one row at most.
LEMMA AdvAlone ==
    ASSUME AdvShape, AdvDetail
    PROVE  \A r, q \in AdvLeft : r = q
<1> SUFFICES ASSUME NEW r \in AdvLeft, NEW q \in AdvLeft PROVE r = q
  OBVIOUS
<1> DEFINE filter == advReq.ask.filter
           stored == AdvStored(filter)
<1>1. PICK k \in filter.ids : filter.ids = {k}
  BY AdvDataAssumption DEF AdvShape, AdvDetail
<1>2. stored \subseteq advRows /\ \A s \in stored : AdvKey(s) = k
  BY <1>1 DEF AdvStored, AdvMeets, AdvIn
<1>3. \A s, t \in stored : s = t
  BY <1>2 DEF AdvShape, AdvDistinct
<1> HIDE DEF stored, filter
<1>4. AdvTable(stored)
  BY <1>2, FS_Subset DEF AdvShape, AdvTable
<1>5. AdvLeft = AdvApply(stored, advBuying)
  BY DEF AdvLeft, stored, filter
<1>6. PICK s \in stored : r = [s EXCEPT !.count = @ - AdvSuppressed(advBuying, AdvOf(s))]
  BY <1>4, <1>5, AdvApplied DEF AdvShape
<1>7. PICK t \in stored : q = [t EXCEPT !.count = @ - AdvSuppressed(advBuying, AdvOf(t))]
  BY <1>4, <1>5, AdvApplied DEF AdvShape
<1>8. QED
  BY <1>3, <1>6, <1>7

\* What fits the rules is what there is no reason to hide and is enough.
LEMMA AdvDecides ==
    ASSUME NEW r
    PROVE  AdvFits(r) <=> /\ AdvHiddenBy(r) = {}
                          /\ LET c == AdvConfig(r) IN c # AdvNone => AdvEnough(r, c)
<1> DEFINE c == AdvConfig(r)
<1>1. CASE c = AdvNone
  BY <1>1 DEF AdvFits, AdvHiddenBy
<1>2. CASE c # AdvNone
  <2> DEFINE bad(why) == \/ why = "enabled" /\ ~c.enabled
                         \/ why = "engine" /\ ~AdvEngineFits(r, c)
                         \/ why = "region" /\ ~AdvListed(r.region, c.regions)
                         \/ why = "type" /\ ~AdvListed(r.type, c.types)
  <2>1. AdvHiddenBy(r) = {why \in {"enabled", "engine", "region", "type"} : bad(why)}
    BY <1>2 DEF AdvHiddenBy
  <2>2. AdvHiddenBy(r) = {} <=> ~bad("enabled") /\ ~bad("engine") /\ ~bad("region") /\ ~bad("type")
    <3> HIDE DEF bad
    <3>1. QED
      BY <2>1
  <2>3. AdvFits(r) <=> /\ c.enabled /\ AdvEngineFits(r, c) /\ AdvListed(r.region, c.regions)
                       /\ AdvListed(r.type, c.types) /\ AdvEnough(r, c)
    BY <1>2 DEF AdvFits
  <2> HIDE DEF c
  <2>4. QED
    BY <1>2, <2>2, <2>3 DEF c
<1>3. QED
  BY <1>1, <1>2

\* The invariant holds what the pages promise.
LEMMA AdvPromise == AdvInv => AdvSound
<1> SUFFICES ASSUME AdvInv PROVE AdvSound
  OBVIOUS
<1>1. AdvShape /\ AdvReads /\ AdvScoped /\ AdvTotals
  BY DEF AdvInv
<1>2. AdvDetailAgrees
  <2> DEFINE listed == AdvMine(advReq.ask, AdvOffered({r \in AdvLeft : AdvFits(r)}))
  <2> SUFFICES ASSUME AdvQuiet, AdvDetail
               PROVE  /\ listed \subseteq advReq.rows
                      /\ \A r \in advReq.rows :
                            r \in listed <=> /\ advReq.why = {}
                                             /\ r \in AdvOffered({r})
                                             /\ AdvConfig(r) # AdvNone => AdvEnough(r, AdvConfig(r))
    BY DEF AdvDetailAgrees, AdvLeft, AdvDetail
  <2>1. advReq.rows = AdvMine(advReq.ask, AdvLeft) /\ advReq.why = AdvHidden
    BY <1>1 DEF AdvReads, AdvQuiet, AdvDone, AdvAt
  <2>2. listed \subseteq advReq.rows
    BY <2>1 DEF AdvMine, AdvOffered
  <2>3. ASSUME NEW r \in advReq.rows
        PROVE  r \in listed <=> /\ advReq.why = {}
                                /\ r \in AdvOffered({r})
                                /\ AdvConfig(r) # AdvNone => AdvEnough(r, AdvConfig(r))
    <3>1. r \in AdvLeft
      BY <2>1 DEF AdvMine
    <3>2. AdvLeft = {r}
      BY <1>1, <3>1, AdvAlone
    <3>3. AdvHidden = AdvHiddenBy(r)
      BY <3>2 DEF AdvHidden
    <3>4. r \in listed <=> AdvFits(r) /\ r \in AdvOffered({r})
      BY <2>1, <3>1 DEF AdvMine, AdvOffered
    <3> HIDE DEF listed
    <3>5. QED
      BY <2>1, <3>3, <3>4, AdvDecides
  <2>4. QED
    BY <2>2, <2>3
<1>3. AdvQuiet => advReq.rows \subseteq AdvLeft /\ (~AdvDetail => advReq.rows \subseteq AdvFitting)
  BY <1>1 DEF AdvReads, AdvQuiet, AdvDone, AdvAt, AdvMine, AdvFitting
<1>4. AdvCapacity
  <2> SUFFICES ASSUME AdvQuiet, NEW r \in advReq.rows
               PROVE  /\ r.count > 0
                      /\ \E s \in advRows : /\ AdvKey(s) = AdvKey(r)
                                           /\ s.count = r.count + AdvSuppressed(advBuying, AdvOf(r))
    BY DEF AdvCapacity
  <2> DEFINE stored == AdvStored(advReq.ask.filter)
  <2>1. stored \subseteq advRows /\ AdvTable(stored)
    BY <1>1, FS_Subset DEF AdvStored, AdvShape, AdvTable
  <2>2. r \in AdvApply(stored, advBuying)
    BY <1>3 DEF AdvLeft
  <2> HIDE DEF stored
  <2>3. QED
    BY <1>1, <2>1, <2>2, AdvApplied DEF AdvShape
<1>5. AdvAccountsDecide
  <2> SUFFICES ASSUME AdvQuiet, ~AdvDetail, NEW r \in advReq.rows, r.service = "rds", r.account # AdvNone,
                      advOverride[r.account] # AdvNone
               PROVE  LET o == advOverride[r.account] IN
                         /\ o.enabled # FALSE
                         /\ r.region \notin o.regions.never
                         /\ o.regions.only # {} => r.region \in o.regions.only
    BY DEF AdvAccountsDecide, AdvDetail
  <2> DEFINE o == advOverride[r.account]
             g == IF advRule = AdvNone THEN AdvBase ELSE advRule
             c == AdvConfig(r)
  <2>1. AdvRowLike(r) /\ AdvFits(r)
    BY <1>1, <1>3 DEF AdvShape, AdvTable, AdvFitting
  <2>2. o \in AdvOverrideType /\ g \in AdvRuleType
    <3>1. r.account \in AdvAccounts
      BY <2>1 DEF AdvRowLike
    <3>2. o \in AdvOverrideType
      BY <1>1, <3>1, AdvDataAssumption DEF AdvShape
    <3>3. g \in AdvRuleType
      BY <1>1, AdvDataAssumption DEF AdvShape, AdvBase, AdvAny, AdvRuleType, AdvLists
    <3>4. QED
      BY <3>2, <3>3
  <2>3. c = [g EXCEPT !.enabled = AdvOwn(o.enabled, @), !.coverage = AdvOwn(o.coverage, @),
                      !.engines = AdvOwnList(o.engines, @), !.regions = AdvOwnList(o.regions, @),
                      !.types = AdvOwnList(o.types, @)]
    BY DEF AdvConfig, AdvResolve
  <2> HIDE DEF g, o
  <2>4. c.enabled = AdvOwn(o.enabled, g.enabled) /\ c.regions = AdvOwnList(o.regions, g.regions)
    BY <2>2, <2>3 DEF AdvRuleType
  <2>5. c # AdvNone
    <3>1. c = AdvResolve(advRule, o)
      BY DEF AdvConfig, o
    <3>2. advRule \in AdvRuleType \cup {AdvNone} /\ o # AdvNone
      BY <1>1, AdvDataAssumption DEF AdvShape, o
    <3> HIDE DEF c
    <3>3. c \in AdvRuleType
      BY <2>2, <3>1, <3>2, AdvResolved
    <3>4. QED
      BY <3>3, AdvDataAssumption
  <2>6. c.enabled /\ AdvListed(r.region, c.regions)
    BY <2>1, <2>5 DEF AdvFits
  <2> HIDE DEF c
  <2>7. o.enabled # FALSE
    BY <2>4, <2>6, AdvDataAssumption DEF AdvOwn
  <2>8. r.region \notin o.regions.never /\ (o.regions.only # {} => r.region \in o.regions.only)
    BY <2>4, <2>6 DEF AdvOwnList, AdvListed
  <2>9. QED
    BY <2>7, <2>8 DEF o
<1>6. AdvSummaryHonest
  <2>1. ASSUME AdvDone PROVE \/ advReq.ask.accounts = AdvAccounts
                             \/ \A r \in advReq.rows : r.account \in advReq.ask.accounts
    BY <1>1, <2>1 DEF AdvScoped, AdvDone
  <2>2. advReq.ask.page = "summary" => advReq.total <= AdvBound(advReq.rows)
    <3>1. AdvBound(advReq.rows) \in Nat
      BY <1>1, AdvBounded DEF AdvShape
    <3>2. QED
      BY <1>1, <3>1 DEF AdvTotals
  <2>3. QED
    BY <2>1, <2>2 DEF AdvSummaryHonest, AdvBound, AdvMost
<1>7. QED
  BY <1>2, <1>4, <1>5, <1>6 DEF AdvSound

\* Whatever is swept, bought and configured while a page is read, list and detail
\* decide alike, what is shown and what is being bought make up what was advised, and
\* the summary promises no more than one variant of each cell (ListRecommendations,
\* filterRecsByResolvedConfigs, overrideHiddenReasons, bestVariantPerCell).
THEOREM AdviceHonest == AdvSpec => []AdvSound
BY AdvStarts, AdvStays, AdvPromise, PTL DEF AdvSpec

-----------------------------------------------------------------------------
(* The parts side by side, as they are checked: a step of one leaves the others. *)

\* A step of a behaviour is one of its part.
LEMMA PartStep ==
    ASSUME [HandlersNext]_handlersVars
    PROVE  /\ part' = part
           /\ part = "startup" => [StaNext]_staVars
           /\ part = "tasks" => [TskNext]_tskVars
           /\ part = "limits" => [LimNext]_limVars
           /\ part = "utilization" => [UtlNext]_utlVars
           /\ part = "views" => [ViwNext]_viwVars
           /\ part = "advice" => [AdvNext]_advVars
           /\ part = "requests" => [ReqNext]_reqVars
           /\ [DxNext]_dxVars /\ [RshNext]_rshVars
<1> DEFINE Proved ==
             {"startup", "tasks", "limits", "utilization", "views", "advice", "requests", "exchange",
              "reshape"}
<1>1. CASE UNCHANGED handlersVars
  BY <1>1 DEF handlersVars
<1>2. CASE HandlersNext
  <2>1. \/ Only("startup") /\ StaNext
        \/ Only("tasks") /\ TskNext
        \/ Only("limits") /\ LimNext
        \/ Only("utilization") /\ UtlNext
        \/ Only("views") /\ ViwNext
        \/ Only("advice") /\ AdvNext
        \/ Only("requests") /\ ReqNext
        \/ Only("exchange") /\ DxNext
        \/ Only("reshape") /\ RshNext
        \/ \E p : Only(p) /\ p \notin Proved
    BY <1>2, SMT DEF HandlersNext
  <2>2. \A p : Only(p) =>
           /\ part = p /\ part' = part
           /\ p # "exchange" => UNCHANGED dxVars
           /\ p # "reshape" => UNCHANGED rshVars
    BY DEF Only
  <2>3. QED
    BY <2>1, <2>2
<1>3. QED
  BY <1>1, <1>2

\* In a behaviour of all parts a process comes up on a schema that is what is
\* recorded of it (ensureDB, RunMigrations).
THEOREM StartsSound == HandlersSpec => []StartSound
<1> DEFINE Inv == part = "startup" => StaInv
<1>1. HandlersInit => Inv
  <2>1. HandlersInit => StaInit
    BY Zenon DEF HandlersInit
  <2>2. QED
    BY <2>1, StaStart
<1>2. Inv /\ [HandlersNext]_handlersVars => Inv'
  <2> SUFFICES ASSUME part' = "startup", Inv, [HandlersNext]_handlersVars PROVE StaInv'
    OBVIOUS
  <2>1. part = "startup" /\ [StaNext]_staVars
    BY PartStep
  <2>2. StaInv
    BY <2>1
  <2>3. QED
    BY <2>1, <2>2, StaStep
<1>3. Inv => StartSound
  BY StaPromise DEF StartSound
<1> HIDE DEF Inv
<1>4. QED
  BY <1>1, <1>2, <1>3, PTL DEF HandlersSpec

\* In a behaviour of all parts tasks run alone, and the analytics keep what they
\* collect (HandleScheduledTask, CreatePartitions, DropOldPartitions).
THEOREM TasksStaySound == HandlersSpec => []TasksSound
<1> DEFINE Inv == part = "tasks" => TskInv
<1>1. HandlersInit => Inv
  <2>1. HandlersInit => TskInit
    BY Zenon DEF HandlersInit
  <2>2. QED
    BY <2>1, TskStart
<1>2. Inv /\ [HandlersNext]_handlersVars => Inv'
  <2> SUFFICES ASSUME part' = "tasks", Inv, [HandlersNext]_handlersVars PROVE TskInv'
    OBVIOUS
  <2>1. part = "tasks" /\ [TskNext]_tskVars
    BY PartStep
  <2>2. TskInv
    BY <2>1
  <2>3. QED
    BY <2>1, <2>2, TskStep
<1>3. Inv => TasksSound
  BY TskPromise DEF TasksSound
<1> HIDE DEF Inv
<1>4. QED
  BY <1>1, <1>2, <1>3, PTL DEF HandlersSpec

\* In a behaviour of all parts no stretch as long as a window lets more than two
\* windows' attempts through (RateLimiterInterface), and nothing older than the hard
\* age and one fetch is served (getOrFetch).
THEOREM ClockStaysSound == HandlersSpec => []ClockSound
<1> DEFINE Inv == (part = "limits" => LimInv) /\ (part = "utilization" => UtlInv)
<1>1. HandlersInit => Inv
  <2>1. HandlersInit => LimInit /\ UtlInit
    BY Zenon DEF HandlersInit
  <2>2. QED
    BY <2>1, LimStarts, UtlStarts
<1>2. Inv /\ [HandlersNext]_handlersVars => Inv'
  <2> SUFFICES ASSUME Inv, [HandlersNext]_handlersVars PROVE Inv'
    OBVIOUS
  <2>1. ASSUME part' = "limits" PROVE LimInv'
    <3>1. part = "limits" /\ [LimNext]_limVars
      BY <2>1, PartStep
    <3>2. LimInv
      BY <3>1
    <3>3. QED
      BY <3>1, <3>2, LimStays
  <2>2. ASSUME part' = "utilization" PROVE UtlInv'
    <3>1. part = "utilization" /\ [UtlNext]_utlVars
      BY <2>2, PartStep
    <3>2. UtlInv
      BY <3>1
    <3>3. QED
      BY <3>1, <3>2, UtlStays
  <2>3. QED
    BY <2>1, <2>2
<1>3. Inv => ClockSound
  <2>1. UtlInv => UtlFresh
    BY DEF UtlInv
  <2>2. QED
    BY <2>1, LimGoal DEF ClockSound
<1> HIDE DEF Inv
<1>4. QED
  BY <1>1, <1>2, <1>3, PTL DEF HandlersSpec

\* In a behaviour of all parts an advised exchange fits what is used (findBestFit,
\* compositeScore), and a direct one is committed once in a window, by a request
\* within its permission (claimExchangeSubmit, executeExchange).
THEOREM ExchangesSound == HandlersSpec => []ExchangeSound
<1> DEFINE Inv == RshInv /\ DxInv
<1>1. HandlersInit => Inv
  <2>1. HandlersInit => RshInit /\ DxInit
    BY Zenon DEF HandlersInit
  <2>2. QED
    BY <2>1, RshStarts, DxStart
<1>2. Inv /\ [HandlersNext]_handlersVars => Inv'
  BY PartStep, RshStays, DxStep
<1>3. Inv => ExchangeSound
  BY DxPromise DEF RshInv, ExchangeSound
<1> HIDE DEF Inv
<1>4. QED
  BY <1>1, <1>2, <1>3, PTL DEF HandlersSpec

\* In a behaviour of all parts a page about purchases shows what there is, once
\* (getHistory).
THEOREM PagesStaySound == HandlersSpec => []PagesSound
<1> DEFINE Inv == part = "views" => ViwInv
<1>1. HandlersInit => Inv
  <2>1. HandlersInit => (part = "views" => ViwInit)
    BY Zenon DEF HandlersInit, ViwStart
  <2>2. QED
    BY <2>1, ViwStarts
<1>2. Inv /\ [HandlersNext]_handlersVars => Inv'
  <2> SUFFICES ASSUME part' = "views", Inv, [HandlersNext]_handlersVars PROVE ViwInv'
    OBVIOUS
  <2>1. part = "views" /\ [ViwNext]_viwVars
    BY PartStep
  <2>2. ViwInv
    BY <2>1
  <2>3. QED
    BY <2>1, <2>2, ViwStays
<1>3. Inv => PagesSound
  BY ViwPromise DEF PagesSound
<1> HIDE DEF Inv
<1>4. QED
  BY <1>1, <1>2, <1>3, PTL DEF HandlersSpec

\* In a behaviour of all parts a page of advice says what the cache, the purchases in
\* flight and the rules say (ListRecommendations).
THEOREM AdviceStaysSound == HandlersSpec => []AdviceSound
<1> DEFINE Inv == part = "advice" => AdvInv
<1>1. HandlersInit => Inv
  <2>1. HandlersInit => (part = "advice" => AdvInit)
    BY Zenon DEF HandlersInit, AdvStart
  <2>2. QED
    BY <2>1, AdvStarts
<1>2. Inv /\ [HandlersNext]_handlersVars => Inv'
  <2> SUFFICES ASSUME part' = "advice", Inv, [HandlersNext]_handlersVars PROVE AdvInv'
    OBVIOUS
  <2>1. part = "advice" /\ [AdvNext]_advVars
    BY PartStep
  <2>2. AdvInv
    BY <2>1
  <2>3. QED
    BY <2>1, <2>2, AdvStays
<1>3. Inv => AdviceSound
  BY AdvPromise DEF AdviceSound
<1> HIDE DEF Inv
<1>4. QED
  BY <1>1, <1>2, <1>3, PTL DEF HandlersSpec

\* In a behaviour of all parts a request leaves behind what is permitted, whole, and
\* what its answer says, and each route of the table is the first for a path of its own
\* (registerRoutes, Route, requirePermission, the handlers).
THEOREM RequestsStayHonest == HandlersSpec => []RequestsHonest
<1> DEFINE Inv == part = "requests" => ReqInv
<1>1. HandlersInit => Inv
  <2>1. HandlersInit => ReqInit
    BY Zenon DEF HandlersInit
  <2>2. QED
    BY <2>1, ReqInitSound
<1>2. Inv /\ [HandlersNext]_handlersVars => Inv'
  <2> SUFFICES ASSUME part' = "requests", Inv, [HandlersNext]_handlersVars PROVE ReqInv'
    OBVIOUS
  <2>1. part = "requests" /\ [ReqNext]_reqVars
    BY PartStep
  <2>2. ReqInv
    BY <2>1
  <2>3. QED
    BY <2>1, <2>2, ReqStepSound
<1>3. Inv => RequestsHonest
  <2>1. ReqInv => reqRoute \in DOMAIN ReqRoutes
    BY DEF ReqInv
  <2>2. QED
    BY <2>1, ReqInvSound, AllServed DEF RequestsHonest, ReqHonest, ReqPermitted
<1> HIDE DEF Inv
<1>4. QED
  BY <1>1, <1>2, <1>3, PTL DEF HandlersSpec

==============================================================================
