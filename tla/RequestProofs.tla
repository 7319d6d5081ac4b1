------------------------------ MODULE RequestProofs ------------------------------
(* What a request leaves behind, proved for every caller, every route and every    *)
(* step it may end at.  A handler is a concatenation of pieces, so what is asked   *)
(* of its steps is put in a form that concatenation keeps: of no two handlers is   *)
(* the argument made step by step.                                                 *)
EXTENDS Requests, SequenceTheorems, TLAPS

-----------------------------------------------------------------------------
(* What is asked of a sequence of steps.                                       *)

IsSteps(s) == \E S : s \in Seq(S)

\* A step that changes rows, one that has changed them when the next one is
\* reached, one that may answer 4xx, and one that asks for a right.
Writes(x) == x.do \in {"put", "save", "claim", "try"}
Firm(x) == x.do \in {"put", "save", "claim"}
Refuses(x) ==
    \/ x.do = "who"
    \/ x.do \in {"no", "read", "put", "save", "claim"} /\ x.codes \cap (400 .. 499) # {}
AsksRight(x) == x.do = "who" /\ x.who \in {"verb", "carved", "admin"}
AsksAdmin(x) == x.do = "who" /\ x.who = "admin"

\* The rows of which no whole-row save may lose a decision, and those of the
\* caller's own account.
Decisions == {"execution", "settings", "registration", "exchange", "history", "marker", "claim"}
Own == {"user", "session"}

\* Nothing is written; nothing is refused; no decision is saved over.
Quiet(s) == IsSteps(s) /\ \A i \in 1 .. Len(s) : ~Writes(s[i]) /\ s[i].undo = {}
Mute(s) == IsSteps(s) /\ \A i \in 1 .. Len(s) : ~Refuses(s[i])
Keeps(s) == IsSteps(s) /\ \A i \in 1 .. Len(s) : s[i].do = "save" => s[i].rows \cap Decisions = {}

\* Only rows of late are written before a step that may refuse.
Tame(s, late) ==
    /\ IsSteps(s)
    /\ \A i \in 1 .. Len(s), j \in 1 .. Len(s) :
          i < j /\ Writes(s[i]) /\ Refuses(s[j]) => s[i].rows \subseteq late

\* A right is asked for; whatever is written of others is written behind that.
Asks(s) == IsSteps(s) /\ \E i \in 1 .. Len(s) : AsksRight(s[i])
Behind(s) ==
    /\ IsSteps(s)
    /\ \A i \in 1 .. Len(s) :
          Writes(s[i]) => s[i].rows \subseteq Own \/ \E j \in 1 .. i - 1 : AsksRight(s[j])

-----------------------------------------------------------------------------
(* Concatenation.                                                              *)

\* Two sequences of steps are sequences over one set.
LEMMA Together ==
  ASSUME NEW s, NEW t, IsSteps(s), IsSteps(t)
  PROVE  \E S : s \in Seq(S) /\ t \in Seq(S)
  <1>1. PICK S : s \in Seq(S)
    BY DEF IsSteps
  <1>2. PICK T : t \in Seq(T)
    BY DEF IsSteps
  <1>3. s \in Seq(S \cup T) /\ t \in Seq(S \cup T)
    BY <1>1, <1>2
  <1> QED BY <1>3

\* A concatenation has the steps of both, those of the second after the first.
LEMMA Joined ==
  \A s, t : IsSteps(s) /\ IsSteps(t) =>
    /\ IsSteps(s \o t)
    /\ \A i \in 1 .. Len(s) : i \in 1 .. Len(s \o t) /\ (s \o t)[i] = s[i]
    /\ \A i \in 1 .. Len(t) : Len(s) + i \in 1 .. Len(s \o t) /\ (s \o t)[Len(s) + i] = t[i]
    /\ Len(s) \in Nat /\ Len(t) \in Nat
  <1> SUFFICES ASSUME NEW s, NEW t, IsSteps(s), IsSteps(t)
      PROVE
        /\ IsSteps(s \o t)
        /\ \A i \in 1 .. Len(s) : i \in 1 .. Len(s \o t) /\ (s \o t)[i] = s[i]
        /\ \A i \in 1 .. Len(t) : Len(s) + i \in 1 .. Len(s \o t) /\ (s \o t)[Len(s) + i] = t[i]
        /\ Len(s) \in Nat /\ Len(t) \in Nat
    OBVIOUS
  <1>1. PICK S : s \in Seq(S) /\ t \in Seq(S)
    BY Together
  <1>2. s \o t \in Seq(S)
    BY <1>1
  <1> QED BY <1>1, <1>2 DEF IsSteps

\* A step of a concatenation is one of the first or one of the second.
LEMMA Place ==
  ASSUME NEW s, NEW t, IsSteps(s), IsSteps(t), NEW i \in 1 .. Len(s \o t)
  PROVE  \/ i \in 1 .. Len(s) /\ (s \o t)[i] = s[i]
         \/ \E k \in 1 .. Len(t) : i = Len(s) + k /\ (s \o t)[i] = t[k]
  <1>1. PICK S : s \in Seq(S) /\ t \in Seq(S)
    BY Together
  <1>2. CASE i <= Len(s)
    BY <1>1, <1>2
  <1>3. CASE i > Len(s)
    <2>1. i - Len(s) \in 1 .. Len(t) /\ i = Len(s) + (i - Len(s)) /\ (s \o t)[i] = t[i - Len(s)]
      BY <1>1, <1>3
    <2> QED BY <2>1
  <1> QED BY <1>1, <1>2, <1>3

\* A step by itself is a sequence.
LEMMA One == \A x : IsSteps(<<x>>) /\ Len(<<x>>) = 1 /\ <<x>>[1] = x /\ 1 .. Len(<<x>>) = {1}
  <1> TAKE x
  <1>1. <<x>> \in Seq({x})
    OBVIOUS
  <1>2. IsSteps(<<x>>)
    BY <1>1 DEF IsSteps
  <1>3. Len(<<x>>) = 1 /\ <<x>>[1] = x
    OBVIOUS
  <1>4. 1 .. 1 = {1}
    OBVIOUS
  <1> QED BY <1>2, <1>3, <1>4

\* Pieces that write nothing make one that writes nothing.
LEMMA QuietJoin == \A s, t : Quiet(s) /\ Quiet(t) => Quiet(s \o t)
  <1> SUFFICES ASSUME NEW s, NEW t, Quiet(s), Quiet(t) PROVE Quiet(s \o t)
    OBVIOUS
  <1>1. IsSteps(s) /\ IsSteps(t)
    BY DEF Quiet
  <1>2. ASSUME NEW i \in 1 .. Len(s \o t)
        PROVE  ~Writes((s \o t)[i]) /\ (s \o t)[i].undo = {}
    <2>1. \/ i \in 1 .. Len(s) /\ (s \o t)[i] = s[i]
          \/ \E k \in 1 .. Len(t) : i = Len(s) + k /\ (s \o t)[i] = t[k]
      BY <1>1, Place
    <2> QED BY <2>1 DEF Quiet
  <1>3. IsSteps(s \o t)
    BY <1>1, Joined
  <1> QED BY <1>2, <1>3 DEF Quiet

\* Pieces that refuse nothing make one that refuses nothing.
LEMMA MuteJoin == \A s, t : Mute(s) /\ Mute(t) => Mute(s \o t)
  <1> SUFFICES ASSUME NEW s, NEW t, Mute(s), Mute(t) PROVE Mute(s \o t)
    OBVIOUS
  <1>1. IsSteps(s) /\ IsSteps(t)
    BY DEF Mute
  <1>2. ASSUME NEW i \in 1 .. Len(s \o t)
        PROVE  ~Refuses((s \o t)[i])
    <2>1. \/ i \in 1 .. Len(s) /\ (s \o t)[i] = s[i]
          \/ \E k \in 1 .. Len(t) : i = Len(s) + k /\ (s \o t)[i] = t[k]
      BY <1>1, Place
    <2> QED BY <2>1 DEF Mute
  <1> QED BY <1>1, <1>2, Joined DEF Mute

\* Pieces that save over no decision make one that saves over none.
LEMMA KeepsJoin == \A s, t : Keeps(s) /\ Keeps(t) => Keeps(s \o t)
  <1> SUFFICES ASSUME NEW s, NEW t, Keeps(s), Keeps(t) PROVE Keeps(s \o t)
    OBVIOUS
  <1>1. IsSteps(s) /\ IsSteps(t)
    BY DEF Keeps
  <1>2. ASSUME NEW i \in 1 .. Len(s \o t)
        PROVE  (s \o t)[i].do = "save" => (s \o t)[i].rows \cap Decisions = {}
    <2>1. \/ i \in 1 .. Len(s) /\ (s \o t)[i] = s[i]
          \/ \E k \in 1 .. Len(t) : i = Len(s) + k /\ (s \o t)[i] = t[k]
      BY <1>1, Place
    <2> QED BY <2>1 DEF Keeps
  <1> QED BY <1>1, <1>2, Joined DEF Keeps

\* Checks may come before anything.
LEMMA TameAfterQuiet == \A s, t, late : Quiet(s) /\ Tame(t, late) => Tame(s \o t, late)
  <1> SUFFICES ASSUME NEW s, NEW t, NEW late, Quiet(s), Tame(t, late) PROVE Tame(s \o t, late)
    OBVIOUS
  <1>1. IsSteps(s) /\ IsSteps(t)
    BY DEF Quiet, Mute, Tame
  <1>2. ASSUME NEW i \in 1 .. Len(s \o t), NEW j \in 1 .. Len(s \o t), i < j,
               Writes((s \o t)[i]), Refuses((s \o t)[j])
        PROVE  (s \o t)[i].rows \subseteq late
    <2>1. Len(s) \in Nat /\ Len(t) \in Nat
      BY <1>1, Joined
    <2>2. PICK k \in 1 .. Len(t) : i = Len(s) + k /\ (s \o t)[i] = t[k]
      BY <1>1, <1>2, Place DEF Quiet
    <2>3. PICK l \in 1 .. Len(t) : j = Len(s) + l /\ (s \o t)[j] = t[l]
      BY <1>1, <1>2, <2>1, <2>2, Place
    <2> QED BY <1>2, <2>1, <2>2, <2>3 DEF Tame
  <1> QED BY <1>1, <1>2, Joined DEF Tame

\* What refuses nothing may come after anything.
LEMMA TameThenMute == \A s, t, late : Tame(s, late) /\ Mute(t) => Tame(s \o t, late)
  <1> SUFFICES ASSUME NEW s, NEW t, NEW late, Tame(s, late), Mute(t) PROVE Tame(s \o t, late)
    OBVIOUS
  <1>1. IsSteps(s) /\ IsSteps(t)
    BY DEF Quiet, Mute, Tame
  <1>2. ASSUME NEW i \in 1 .. Len(s \o t), NEW j \in 1 .. Len(s \o t), i < j,
               Writes((s \o t)[i]), Refuses((s \o t)[j])
        PROVE  (s \o t)[i].rows \subseteq late
    <2>1. Len(s) \in Nat /\ Len(t) \in Nat
      BY <1>1, Joined
    <2>2. j \in 1 .. Len(s) /\ (s \o t)[j] = s[j]
      BY <1>1, <1>2, Place DEF Mute
    <2>3. i \in 1 .. Len(s) /\ (s \o t)[i] = s[i]
      BY <1>1, <1>2, <2>1, <2>2, Place
    <2> QED BY <1>2, <2>2, <2>3 DEF Tame
  <1> QED BY <1>1, <1>2, Joined DEF Tame

\* A right asked for in a piece is asked for in the whole.
LEMMA AsksJoin ==
  \A s, t : IsSteps(s) /\ IsSteps(t) /\ (Asks(s) \/ Asks(t)) => Asks(s \o t)
  <1> SUFFICES ASSUME NEW s, NEW t, IsSteps(s), IsSteps(t), Asks(s) \/ Asks(t) PROVE Asks(s \o t)
    OBVIOUS
  <1>1. CASE Asks(s)
    <2>1. PICK i \in 1 .. Len(s) : AsksRight(s[i])
      BY <1>1 DEF Asks
    <2> QED BY <2>1, Joined DEF Asks
  <1>2. CASE Asks(t)
    <2>1. PICK i \in 1 .. Len(t) : AsksRight(t[i])
      BY <1>2 DEF Asks
    <2>2. Len(s) + i \in 1 .. Len(s \o t) /\ AsksRight((s \o t)[Len(s) + i])
      BY <2>1, Joined
    <2> QED BY <2>2, Joined DEF Asks
  <1> QED BY <1>1, <1>2

\* What writes nothing needs no right.
LEMMA BehindQuiet == \A s : Quiet(s) => Behind(s)
  BY DEF Quiet, Behind

\* Anything may follow a piece that asks for a right before it writes.
LEMMA BehindAsked == \A s, t : Behind(s) /\ Asks(s) /\ IsSteps(t) => Behind(s \o t)
  <1> SUFFICES ASSUME NEW s, NEW t, Behind(s), Asks(s), IsSteps(t) PROVE Behind(s \o t)
    OBVIOUS
  <1>1. IsSteps(s) /\ Len(s) \in Nat /\ Len(t) \in Nat
    BY Joined DEF Behind
  <1>2. PICK j \in 1 .. Len(s) : AsksRight(s[j])
    BY DEF Asks
  <1>3. ASSUME NEW i \in 1 .. Len(s \o t), Writes((s \o t)[i]), ~((s \o t)[i].rows \subseteq Own)
        PROVE  \E k \in 1 .. i - 1 : AsksRight((s \o t)[k])
    <2>0. \/ i \in 1 .. Len(s) /\ (s \o t)[i] = s[i]
          \/ \E k \in 1 .. Len(t) : i = Len(s) + k /\ (s \o t)[i] = t[k]
      BY <1>1, Place
    <2>1. CASE i \in 1 .. Len(s) /\ (s \o t)[i] = s[i]
      <3>1. PICK k \in 1 .. i - 1 : AsksRight(s[k])
        BY <1>3, <2>1 DEF Behind
      <3>2. k \in 1 .. Len(s)
        BY <1>1, <2>1
      <3> QED BY <1>1, <3>1, <3>2, Joined
    <2>2. CASE \E k \in 1 .. Len(t) : i = Len(s) + k
      <3>1. j \in 1 .. i - 1 /\ AsksRight((s \o t)[j])
        BY <1>1, <1>2, <2>2, Joined
      <3> QED BY <3>1
    <2> QED BY <2>0, <2>1, <2>2
  <1>4. IsSteps(s \o t)
    BY <1>1, Joined
  <1> QED BY <1>3, <1>4 DEF Behind

\* Pieces that write behind a right make one that does.
LEMMA BehindJoin == \A s, t : Behind(s) /\ Behind(t) => Behind(s \o t)
  <1> SUFFICES ASSUME NEW s, NEW t, Behind(s), Behind(t) PROVE Behind(s \o t)
    OBVIOUS
  <1>1. IsSteps(s) /\ IsSteps(t) /\ Len(s) \in Nat /\ Len(t) \in Nat
    BY Joined DEF Behind
  <1>2. ASSUME NEW i \in 1 .. Len(s \o t), Writes((s \o t)[i]), ~((s \o t)[i].rows \subseteq Own)
        PROVE  \E j \in 1 .. i - 1 : AsksRight((s \o t)[j])
    <2>0. \/ i \in 1 .. Len(s) /\ (s \o t)[i] = s[i]
          \/ \E k \in 1 .. Len(t) : i = Len(s) + k /\ (s \o t)[i] = t[k]
      BY <1>1, Place
    <2>1. CASE i \in 1 .. Len(s) /\ (s \o t)[i] = s[i]
      <3>1. PICK j \in 1 .. i - 1 : AsksRight(s[j])
        BY <1>2, <2>1 DEF Behind
      <3>2. j \in 1 .. Len(s)
        BY <1>1, <2>1
      <3> QED BY <1>1, <3>1, <3>2, Joined
    <2>2. CASE \E k \in 1 .. Len(t) : i = Len(s) + k /\ (s \o t)[i] = t[k]
      <3>0. PICK k \in 1 .. Len(t) : i = Len(s) + k /\ (s \o t)[i] = t[k]
        BY <2>2
      <3>1. PICK j \in 1 .. k - 1 : AsksRight(t[j])
        BY <1>2, <3>0 DEF Behind
      <3>2. j \in 1 .. Len(t) /\ Len(s) + j \in 1 .. i - 1
        BY <1>1, <3>0
      <3> QED BY <1>1, <3>1, <3>2, Joined
    <2> QED BY <2>0, <2>1, <2>2
  <1>3. IsSteps(s \o t)
    BY <1>1, Joined
  <1> QED BY <1>2, <1>3 DEF Behind

\* Only rows of late are written.
Within(s, late) ==
    IsSteps(s) /\ \A i \in 1 .. Len(s) : Writes(s[i]) => s[i].rows \subseteq late
\* Only rows of late are written before a refusal, and no decision is lost;
\* nothing is written before a refusal.
Safe(s, late) == Tame(s, late) /\ Keeps(s)
Sound(s) == Safe(s, {})
\* Asked for a right before anything is written.
Covered(s) == Asks(s) /\ Behind(s)

\* How a handler is put together without a refusal after a write.
LEMMA SafeRules ==
  /\ \A s, late : Quiet(s) => Safe(s, late) /\ Behind(s) /\ IsSteps(s)
  /\ \A s, late : Safe(s, late) => IsSteps(s)
  /\ \A s, late : Sound(s) => Safe(s, late)
  /\ \A s, t, late : Quiet(s) /\ Safe(t, late) => Safe(s \o t, late)
  /\ \A s, t, late : Safe(s, late) /\ Mute(t) /\ Keeps(t) => Safe(s \o t, late)
  <1>1. \A s, late : Quiet(s) => Safe(s, late) /\ Behind(s) /\ IsSteps(s)
    BY BehindQuiet DEF Quiet, Safe, Tame, Keeps, Writes
  <1>2. \A s, late : Safe(s, late) => IsSteps(s)
    BY DEF Safe, Tame
  <1>3. \A s : Quiet(s) => Keeps(s)
    BY <1>1 DEF Safe
  <1>4. ASSUME NEW s, NEW late, Sound(s)
        PROVE  Safe(s, late)
    BY <1>4 DEF Sound, Safe, Tame
  <1> QED BY <1>1, <1>2, <1>3, <1>4, TameAfterQuiet, TameThenMute, KeepsJoin DEF Safe

\* The same where nothing at all may be written before a refusal.
LEMMA SoundRules ==
  /\ \A s : Quiet(s) => Sound(s) /\ IsSteps(s)
  /\ \A s : Sound(s) => IsSteps(s)
  /\ \A s, t : Quiet(s) /\ Sound(t) => Sound(s \o t)
  /\ \A s, t : Sound(s) /\ Mute(t) /\ Keeps(t) => Sound(s \o t)
  BY SafeRules DEF Sound

\* The same for a piece that writes certain rows only, which may then be late.
LEMMA WithinRules ==
  /\ \A s, late : Quiet(s) => Within(s, late)
  /\ \A s, t, late : Within(s, late) /\ Within(t, late) => Within(s \o t, late)
  /\ \A s, t, late : Safe(s, late) /\ Within(s, late) /\ Safe(t, {}) => Safe(s \o t, late)
  <1>1. \A s, late : Quiet(s) => Within(s, late)
    BY DEF Quiet, Within
  <1>2. ASSUME NEW s, NEW t, NEW late, Within(s, late), Within(t, late)
        PROVE  Within(s \o t, late)
    <2>1. IsSteps(s) /\ IsSteps(t)
      BY <1>2 DEF Within
    <2>2. ASSUME NEW i \in 1 .. Len(s \o t), Writes((s \o t)[i])
          PROVE  (s \o t)[i].rows \subseteq late
      BY <1>2, <2>1, <2>2, Place DEF Within
    <2> QED BY <2>1, <2>2, Joined DEF Within
  <1>3. ASSUME NEW s, NEW t, NEW late, Safe(s, late), Within(s, late), Safe(t, {})
        PROVE  Safe(s \o t, late)
    <2>1. IsSteps(s) /\ IsSteps(t) /\ Len(s) \in Nat /\ Len(t) \in Nat
      BY <1>3, Joined DEF Within, Safe, Tame
    <2>2. ASSUME NEW i \in 1 .. Len(s \o t), NEW j \in 1 .. Len(s \o t), i < j,
                 Writes((s \o t)[i]), Refuses((s \o t)[j])
          PROVE  (s \o t)[i].rows \subseteq late
      <3>0. \/ i \in 1 .. Len(s) /\ (s \o t)[i] = s[i]
            \/ \E k \in 1 .. Len(t) : i = Len(s) + k /\ (s \o t)[i] = t[k]
        BY <2>1, Place
      <3>1. CASE i \in 1 .. Len(s) /\ (s \o t)[i] = s[i]
        BY <1>3, <2>2, <3>1 DEF Within
      <3>2. CASE \E k \in 1 .. Len(t) : i = Len(s) + k /\ (s \o t)[i] = t[k]
        <4>1. PICK k \in 1 .. Len(t) : i = Len(s) + k /\ (s \o t)[i] = t[k]
          BY <3>2
        <4>2. PICK l \in 1 .. Len(t) : j = Len(s) + l /\ (s \o t)[j] = t[l]
          BY <2>1, <2>2, <4>1, Place
        <4>3. k < l
          BY <2>1, <2>2, <4>1, <4>2
        <4>4. t[k].rows \subseteq {}
          BY <1>3, <2>2, <4>1, <4>2, <4>3 DEF Safe, Tame
        <4> QED BY <4>1, <4>4
      <3> QED BY <3>0, <3>1, <3>2
    <2>3. IsSteps(s \o t)
      BY <2>1, Joined
    <2>4. Keeps(s \o t)
      BY <1>3, KeepsJoin DEF Safe
    <2> QED BY <2>2, <2>3, <2>4 DEF Safe, Tame
  <1> QED BY <1>1, <1>2, <1>3

\* How a handler is put together that asks for a right first.
LEMMA CoveredRules ==
  /\ \A s : Quiet(s) /\ Asks(s) => Covered(s)
  /\ \A s, t : Quiet(s) /\ Quiet(t) /\ (Asks(s) \/ Asks(t)) => Asks(s \o t)
  /\ \A s, t : Covered(s) /\ IsSteps(t) => Covered(s \o t)
  /\ \A s : Covered(s) => Behind(s) /\ IsSteps(s)
  BY BehindQuiet, BehindAsked, AsksJoin DEF Covered, Quiet, Behind

\* Checks and reads write nothing (http_errors.go, the getters of the store).
LEMMA QuietSteps ==
  /\ \A codes : Quiet(ReqNo(codes))
  /\ \A who : Quiet(ReqWho(who))
  /\ \A rows, codes : Quiet(ReqRead(rows, codes)) /\ Quiet(ReqPeek(rows))
  <1>1. \A x : ~Writes(x) /\ x.undo = {} => Quiet(<<x>>)
    BY One DEF Quiet
  <1>2. ASSUME NEW do \in {"no", "read", "peek"}, NEW rows, NEW codes
        PROVE  Quiet(<<ReqStep(do, rows, codes)>>)
    <2>1. ~Writes(ReqStep(do, rows, codes)) /\ ReqStep(do, rows, codes).undo = {}
      BY DEF ReqStep, Writes
    <2> QED BY <1>1, <2>1
  <1>3. ASSUME NEW who
        PROVE  Quiet(ReqWho(who))
    <2> DEFINE x == [ReqStep("who", {}, {}) EXCEPT !.who = who]
    <2>1. ~Writes(x) /\ x.undo = {}
      BY DEF ReqStep, Writes
    <2> QED BY <1>1, <2>1 DEF ReqWho
  <1> QED BY <1>2, <1>3 DEF ReqNo, ReqRead, ReqPeek

\* The checks that ask for a right (requirePermission, requireAdmin).
LEMMA AskingSteps == \A who \in {"verb", "carved", "admin"} : Asks(ReqWho(who))
  <1> TAKE who \in {"verb", "carved", "admin"}
  <1> DEFINE x == [ReqStep("who", {}, {}) EXCEPT !.who = who]
  <1>1. AsksRight(x)
    BY DEF ReqStep, AsksRight
  <1> HIDE DEF x
  <1>2. Asks(<<x>>)
    BY <1>1, One DEF Asks
  <1> QED BY <1>2 DEF ReqWho, x

\* A step that writes is safe by itself.
LEMMA WritingSteps ==
  \A rows, codes :
     /\ Sound(ReqPut(rows)) /\ Sound(ReqAtomic(rows, codes))
     /\ Sound(ReqClaim(rows)) /\ Sound(ReqTry(rows))
     /\ IsSteps(ReqSave(rows))
     /\ rows \cap Decisions = {} => Sound(ReqSave(rows))
     /\ rows \subseteq Own =>
          Behind(ReqPut(rows)) /\ Behind(ReqAtomic(rows, codes)) /\ Behind(ReqSave(rows))
  <1> TAKE rows, codes
  <1>1. \A x : (x.do = "save" => x.rows \cap Decisions = {}) => Sound(<<x>>)
    <2> TAKE x
    <2>1. \A i, j \in 1 .. Len(<<x>>) : ~(i < j)
      BY One
    <2> QED BY <2>1, One DEF Sound, Safe, Tame, Keeps
  <1>3. \A x : x.rows \subseteq Own => Behind(<<x>>)
    BY One DEF Behind
  <1>2. ASSUME NEW do, NEW c
        PROVE  /\ (do = "save" => rows \cap Decisions = {}) => Sound(<<ReqStep(do, rows, c)>>)
               /\ rows \subseteq Own => Behind(<<ReqStep(do, rows, c)>>)
    <2>1. ReqStep(do, rows, c).do = do /\ ReqStep(do, rows, c).rows = rows
      BY DEF ReqStep
    <2> QED BY <1>1, <1>3, <2>1
  <1>4. IsSteps(ReqSave(rows))
    BY One DEF ReqSave
  <1> QED BY <1>2, <1>4 DEF ReqPut, ReqAtomic, ReqClaim, ReqTry, ReqSave

\* A step writes its own rows.
LEMMA WithinSteps ==
  \A rows, codes : Within(ReqPut(rows), rows) /\ Within(ReqClaim(rows), rows)
                   /\ Within(ReqAtomic(rows, codes), rows) /\ Within(ReqTry(rows), rows)
  <1> TAKE rows, codes
  <1>1. \A x : Within(<<x>>, x.rows)
    BY One DEF Within
  <1>2. \A do, c : Within(<<ReqStep(do, rows, c)>>, rows)
    <2> TAKE do, c
    <2>1. ReqStep(do, rows, c).rows = rows
      BY DEF ReqStep
    <2> QED BY <1>1, <2>1
  <1> QED BY <1>2 DEF ReqPut, ReqClaim, ReqAtomic, ReqTry

\* After a step of these nothing is refused.
LEMMA MuteSteps ==
  /\ Mute(ReqNo({500})) /\ Keeps(ReqNo({500}))
  /\ \A rows :
        /\ Mute(ReqPeek(rows)) /\ Keeps(ReqPeek(rows))
        /\ Mute(ReqTry(rows)) /\ Keeps(ReqTry(rows)) /\ Mute(ReqPut(rows)) /\ Keeps(ReqPut(rows))
        /\ rows \cap Decisions = {} => Mute(ReqSave(rows)) /\ Keeps(ReqSave(rows))
  <1>1. \A x : ~Refuses(x) /\ (x.do = "save" => x.rows \cap Decisions = {}) =>
                  Mute(<<x>>) /\ Keeps(<<x>>)
    BY One DEF Mute, Keeps
  <1>2. \A x : ~Refuses(x) /\ x.do # "save" => Mute(<<x>>) /\ Keeps(<<x>>)
    BY <1>1
  <1>3. /\ ~Refuses(ReqStep("no", {}, {500})) /\ ReqStep("no", {}, {500}).do # "save"
        /\ \A rows :
              /\ ~Refuses(ReqStep("peek", rows, {})) /\ ReqStep("peek", rows, {}).do # "save"
              /\ ~Refuses(ReqStep("try", rows, {})) /\ ReqStep("try", rows, {}).do # "save"
              /\ ~Refuses(ReqStep("put", rows, {})) /\ ReqStep("put", rows, {}).do # "save"
              /\ ~Refuses(ReqStep("save", rows, {})) /\ ReqStep("save", rows, {}).rows = rows
    BY DEF ReqStep, Refuses
  <1>4. Mute(ReqNo({500})) /\ Keeps(ReqNo({500}))
    BY <1>2, <1>3 DEF ReqNo
  <1>5. ASSUME NEW rows
        PROVE  /\ Mute(ReqPeek(rows)) /\ Keeps(ReqPeek(rows))
               /\ Mute(ReqTry(rows)) /\ Keeps(ReqTry(rows))
               /\ Mute(ReqPut(rows)) /\ Keeps(ReqPut(rows))
    <2>1. Mute(ReqPeek(rows)) /\ Keeps(ReqPeek(rows))
      BY <1>2, <1>3 DEF ReqPeek
    <2>2. Mute(ReqTry(rows)) /\ Keeps(ReqTry(rows))
      BY <1>2, <1>3 DEF ReqTry
    <2>3. Mute(ReqPut(rows)) /\ Keeps(ReqPut(rows))
      BY <1>2, <1>3 DEF ReqPut
    <2> QED BY <2>1, <2>2, <2>3
  <1>6. ASSUME NEW rows, rows \cap Decisions = {}
        PROVE  Mute(ReqSave(rows)) /\ Keeps(ReqSave(rows))
    BY <1>1, <1>3, <1>6 DEF ReqSave
  <1> QED BY <1>4, <1>5, <1>6

\* Sequences with the same members are the same.
LEMMA SameSeq ==
  \A S : \A s, t \in Seq(S) : Len(s) = Len(t) /\ (\A i \in 1 .. Len(s) : s[i] = t[i]) => s = t
  OBVIOUS

\* What is taken back does not change what a step does otherwise.
LEMMA Undoing ==
  \A codes, taken :
    /\ Sound(ReqUndoing(ReqNo(codes), taken)) /\ Within(ReqUndoing(ReqNo(codes), taken), {})
    /\ codes = {500} => Mute(ReqUndoing(ReqNo(codes), taken)) /\ Keeps(ReqUndoing(ReqNo(codes), taken))
    /\ \A rows : IsSteps(ReqUndoing(ReqNo(codes) \o ReqPut(rows), taken))
                 /\ Sound(ReqUndoing(ReqNo(codes) \o ReqPut(rows), taken))
  <1> TAKE codes, taken
  <1>1. \A x : x.do = "no" => Sound(<<x>>) /\ Within(<<x>>, {})
    <2> SUFFICES ASSUME NEW x, x.do = "no" PROVE Sound(<<x>>) /\ Within(<<x>>, {})
      OBVIOUS
    <2>1. \A i, j \in 1 .. Len(<<x>>) : ~(i < j)
      BY One
    <2> QED BY <2>1, One DEF Sound, Safe, Tame, Keeps, Within, Writes
  <1>2. \A x : x.do \in {"no", "put"} /\ x.codes \in {{}, {500}} => Mute(<<x>>) /\ Keeps(<<x>>)
    BY One DEF Mute, Keeps, Refuses
  <1>3. \A do, rows, c : LET x == [ReqStep(do, rows, c) EXCEPT !.undo = taken]
                         IN  x.do = do /\ x.codes = c
    BY DEF ReqStep
  <1> DEFINE x == [ReqStep("no", {}, codes) EXCEPT !.undo = taken]
  <1>4. ReqUndoing(ReqNo(codes), taken) = <<x>>
    <2>1. \A v : ReqUndoing(<<v>>, taken) = <<[v EXCEPT !.undo = taken]>>
      BY DEF ReqUndoing
    <2> QED BY <2>1 DEF ReqNo
  <1>5. x.do = "no" /\ x.codes = codes
    BY <1>3
  <1>6. ASSUME NEW rows
        PROVE  Sound(ReqUndoing(ReqNo(codes) \o ReqPut(rows), taken))
    <2> DEFINE put == ReqStep("put", rows, {})
               y == [put EXCEPT !.undo = taken]
    <2>1. \A v, w : <<v>> \o <<w>> = <<v, w>>
      <3> TAKE v, w
      <3>1. <<v>> \in Seq({v, w}) /\ <<w>> \in Seq({v, w}) /\ <<v, w>> \in Seq({v, w})
        OBVIOUS
      <3>2. /\ Len(<<v>> \o <<w>>) = 2 /\ (<<v>> \o <<w>>)[1] = v /\ (<<v>> \o <<w>>)[2] = w
            /\ <<v>> \o <<w>> \in Seq({v, w})
        BY <3>1
      <3>3. 1 .. 2 = {1, 2} /\ Len(<<v, w>>) = 2 /\ <<v, w>>[1] = v /\ <<v, w>>[2] = w
        OBVIOUS
      <3>4. \A i \in 1 .. 2 : (<<v>> \o <<w>>)[i] = <<v, w>>[i]
        BY <3>2, <3>3
      <3> QED BY <3>1, <3>2, <3>3, <3>4, SameSeq
    <2>2. \A v, w : ReqUndoing(<<v, w>>, taken) = <<[v EXCEPT !.undo = taken], [w EXCEPT !.undo = taken]>>
      BY DEF ReqUndoing
    <2>3. ReqUndoing(ReqNo(codes) \o ReqPut(rows), taken) = <<x>> \o <<y>>
      <3>1. ReqNo(codes) \o ReqPut(rows) = <<ReqStep("no", {}, codes), put>>
        BY <2>1 DEF ReqNo, ReqPut
      <3>2. ReqUndoing(<<ReqStep("no", {}, codes), put>>, taken) = <<x, y>>
        BY <2>2
      <3>3. <<x>> \o <<y>> = <<x, y>>
        BY <2>1
      <3> QED BY <3>1, <3>2, <3>3
    <2>4. y.do = "put" /\ y.codes = {}
      BY <1>3
    <2> HIDE DEF x, y
    <2> QED BY <1>1, <1>2, <1>5, <2>3, <2>4, SoundRules
  <1> HIDE DEF x
  <1> QED BY <1>1, <1>2, <1>4, <1>5, <1>6, SoundRules

\* The checks every handler is put together from.
LEMMA Pieces ==
  /\ Quiet(ReqPrincipal) /\ Quiet(ReqForgery) /\ Quiet(ReqSession) /\ Quiet(ReqAdmin)
  /\ Quiet(ReqMay) /\ Quiet(ReqMayAny) /\ Quiet(ReqMayCarved) /\ Quiet(ReqLimit)
  /\ Quiet(ReqStrictLimit) /\ Quiet(ReqWithinGrant) /\ Quiet(ReqId) /\ Quiet(ReqBody)
  /\ Quiet(ReqScope)
  /\ Asks(ReqMay) /\ Asks(ReqMayAny) /\ Asks(ReqMayCarved) /\ Asks(ReqAdmin)
  <1>1. /\ Quiet(ReqPrincipal) /\ Quiet(ReqSession) /\ Quiet(ReqAdmin)
        /\ Quiet(ReqMay) /\ Quiet(ReqMayAny) /\ Quiet(ReqMayCarved)
    BY QuietSteps
       DEF ReqPrincipal, ReqSession, ReqAdmin, ReqMay, ReqMayAny, ReqMayCarved
  <1>2. /\ Quiet(ReqForgery) /\ Quiet(ReqLimit) /\ Quiet(ReqStrictLimit)
        /\ Quiet(ReqWithinGrant) /\ Quiet(ReqId) /\ Quiet(ReqBody) /\ Quiet(ReqScope)
    BY QuietSteps DEF ReqForgery, ReqLimit, ReqStrictLimit, ReqWithinGrant, ReqId, ReqBody, ReqScope
  <1> QED BY <1>1, <1>2, AskingSteps DEF ReqAdmin, ReqMay, ReqMayAny, ReqMayCarved

\* The checks that a row is one of the accounts of the caller.
LEMMA ScopePieces ==
  /\ Quiet(ReqAccountInScope) /\ Quiet(ReqPlanInScope) /\ Quiet(ReqPlanAccountsInScope)
  /\ Quiet(ReqExecutionInScope) /\ Quiet(ReqBatchInScope)
  <1>1. Quiet(ReqAccountInScope)
    BY Pieces, QuietSteps, QuietJoin DEF ReqAccountInScope
  <1>2. Quiet(ReqPlanInScope)
    BY Pieces, QuietSteps, QuietJoin DEF ReqPlanInScope
  <1>3. Quiet(ReqPlanAccountsInScope) /\ Quiet(ReqBatchInScope)
    BY <1>1, <1>2, Pieces, QuietSteps, QuietJoin DEF ReqPlanAccountsInScope, ReqBatchInScope
  <1>4. Quiet(ReqExecutionInScope)
    BY <1>2, Pieces, QuietSteps, QuietJoin DEF ReqExecutionInScope
  <1> QED BY <1>1, <1>2, <1>3, <1>4

\* The checks several handlers share.
LEMMA LongerPieces ==
  /\ Quiet(ReqManage) /\ Quiet(ReqSellOwn) /\ Quiet(ReqRevokeOwn) /\ Quiet(ReqSubmission)
  /\ Quiet(ReqAzureBody) /\ Quiet(ReqAzureExecuteBody) /\ Quiet(ReqPage)
  /\ Quiet(ReqSubscriptionInScope) /\ Quiet(ReqAzureClient) /\ Quiet(ReqExchangeRow)
  /\ Quiet(ReqExchangeForSession) /\ Quiet(ReqPending) /\ Quiet(ReqAccountBody)
  /\ Quiet(ReqAnalyticsScope) /\ Quiet(ReqProvidersFit) /\ Quiet(ReqRevokeRequest)
  /\ Asks(ReqSellOwn) /\ Asks(ReqRevokeOwn) /\ Asks(ReqSubmission)
  <1>1.
        /\ Quiet(ReqManage) /\ Quiet(ReqSellOwn) /\ Quiet(ReqRevokeOwn) /\ Quiet(ReqSubmission)
        /\ Quiet(ReqPage) /\ Quiet(ReqAccountBody) /\ Quiet(ReqPending) /\ Asks(ReqSellOwn)
        /\ Asks(ReqRevokeOwn) /\ Asks(ReqSubmission)
    BY Pieces, ScopePieces, QuietSteps, QuietJoin, CoveredRules
       DEF ReqManage, ReqSellOwn, ReqRevokeOwn, ReqSubmission, ReqPercent, ReqEachRec,
           ReqConstraints, ReqPage, ReqAccountBody, ReqPending
  <1>2.
        /\ Quiet(ReqAzureBody) /\ Quiet(ReqSubscriptionInScope) /\ Quiet(ReqAzureClient)
        /\ Quiet(ReqExchangeRow) /\ Quiet(ReqExchangeForSession) /\ Quiet(ReqAnalyticsScope)
        /\ Quiet(ReqProvidersFit)
    BY Pieces, ScopePieces, QuietSteps, QuietJoin
       DEF ReqAzureBody, ReqAzureSources, ReqAzureTargets, ReqSubscriptionInScope,
           ReqAzureClient, ReqExchangeRow, ReqExchangeForSession, ReqExchangeRights,
           ReqAnalyticsScope, ReqProvidersFit
  <1>3.
        /\ Quiet(ReqAzureExecuteBody) /\ Quiet(ReqRevokeRequest)
    BY <1>1, <1>2, Pieces, ScopePieces, QuietSteps, QuietJoin
       DEF ReqAzureExecuteBody, ReqRevokeRequest
  <1> QED BY <1>1, <1>2, <1>3

-----------------------------------------------------------------------------
(* The handlers.                                                             *)

\* The handlers that write nothing.
LEMMA ReadingHandlers ==
  /\ Quiet(ReqMe) /\ Quiet(ReqMyPermissions) /\ Quiet(ReqAdminExists) /\ Quiet(ReqResetStatus)
  /\ Quiet(ReqListUsers) /\ Quiet(ReqGetUser) /\ Quiet(ReqListGroups) /\ Quiet(ReqGetGroup)
  /\ Quiet(ReqListKeys) /\ Quiet(ReqKeyUsage) /\ Quiet(ReqGetConfig) /\ Quiet(ReqGetService)
  /\ Quiet(ReqExchangeConfig) /\ Quiet(ReqLadderConfigs) /\ Quiet(ReqListPlans)
  /\ Quiet(ReqGetPlan) /\ Quiet(ReqListPlanAccounts) /\ Quiet(ReqListAccounts)
  /\ Quiet(ReqAccountNames) /\ Quiet(ReqGetAccount) /\ Quiet(ReqTestCredentials)
  /\ Quiet(ReqOverrides) /\ Quiet(ReqRegistrationStatus) /\ Quiet(ReqRegistrations)
  /\ Quiet(ReqRegistration) /\ Quiet(ReqRecommendations) /\ Quiet(ReqFreshness)
  /\ Quiet(ReqDetail) /\ Quiet(ReqOptions) /\ Quiet(ReqPlanned) /\ Quiet(ReqPurchaseDetails)
  /\ Quiet(ReqRefundQuote) /\ Quiet(ReqConvertibles) /\ Quiet(ReqOfferings)
  /\ Quiet(ReqQuote) /\ Quiet(ReqAzureRIs)
  /\ Quiet(ReqAzureOfferings) /\ Quiet(ReqExchangeHistory) /\ Quiet(ReqTrends)
  /\ Quiet(ReqHistoryAnalytics) /\ Quiet(ReqBreakdown) /\ Quiet(ReqDashboard)
  /\ Quiet(ReqUpcoming) /\ Quiet(ReqHistory) /\ Quiet(ReqInventory) /\ Quiet(ReqCoverage)
  /\ Quiet(ReqFederation) /\ Quiet(ReqHealth) /\ Quiet(ReqInfo) /\ Quiet(ReqDeployment)
  /\ Quiet(ReqVersion) /\ Quiet(ReqDocs)
  <1>1.
        /\ Quiet(ReqMe) /\ Quiet(ReqMyPermissions) /\ Quiet(ReqAdminExists)
        /\ Quiet(ReqResetStatus) /\ Quiet(ReqListUsers) /\ Quiet(ReqGetUser)
        /\ Quiet(ReqListGroups) /\ Quiet(ReqGetGroup) /\ Quiet(ReqListKeys)
        /\ Quiet(ReqKeyUsage)
    BY Pieces, ScopePieces, QuietSteps, QuietJoin, LongerPieces
       DEF ReqMe, ReqMyPermissions, ReqOwnId, ReqAdminExists, ReqResetStatus, ReqListUsers,
           ReqGetUser, ReqListGroups, ReqGetGroup, ReqListKeys, ReqKeyUsage
  <1>2.
        /\ Quiet(ReqGetConfig) /\ Quiet(ReqGetService) /\ Quiet(ReqExchangeConfig)
        /\ Quiet(ReqLadderConfigs) /\ Quiet(ReqListPlans) /\ Quiet(ReqGetPlan)
        /\ Quiet(ReqListPlanAccounts)
    BY Pieces, ScopePieces, QuietSteps, QuietJoin, LongerPieces
       DEF ReqGetConfig, ReqSourceIdentity, ReqGetService, ReqServicePath, ReqExchangeConfig,
           ReqLadderConfigs, ReqLadderScope, ReqListPlans, ReqGetPlan, ReqListPlanAccounts
  <1>3.
        /\ Quiet(ReqListAccounts) /\ Quiet(ReqAccountNames) /\ Quiet(ReqGetAccount)
        /\ Quiet(ReqTestCredentials) /\ Quiet(ReqOverrides) /\ Quiet(ReqRegistrationStatus)
        /\ Quiet(ReqRegistrations) /\ Quiet(ReqRegistration)
    BY Pieces, ScopePieces, QuietSteps, QuietJoin, LongerPieces
       DEF ReqListAccounts, ReqAccountFilter, ReqMarkSelf, ReqAccountNames, ReqGetAccount,
           ReqTestCredentials, ReqOverrides, ReqRegistrationStatus, ReqRegistrations,
           ReqRegistrationFilter, ReqRegistration
  <1>4.
        /\ Quiet(ReqRecommendations) /\ Quiet(ReqFreshness) /\ Quiet(ReqDetail)
        /\ Quiet(ReqOptions) /\ Quiet(ReqPlanned) /\ Quiet(ReqPurchaseDetails)
        /\ Quiet(ReqRefundQuote)
    BY Pieces, ScopePieces, QuietSteps, QuietJoin, LongerPieces
       DEF ReqRecommendations, ReqRecsParams, ReqFreshness, ReqDetail, ReqOptions, ReqPlanned,
           ReqPlanSeen, ReqPurchaseDetails, ReqRefundQuote
  <1>5.
        /\ Quiet(ReqConvertibles) /\ Quiet(ReqOfferings) /\ Quiet(ReqQuote)
        /\ Quiet(ReqAzureRIs)
        /\ Quiet(ReqAzureOfferings) /\ Quiet(ReqExchangeHistory)
    BY Pieces, ScopePieces, QuietSteps, QuietJoin, LongerPieces
       DEF ReqConvertibles, ReqRunningAccount, ReqRegionOfAccount, ReqAwsConfig, ReqOfferings,
           ReqQuote, ReqAwsTargets,
           ReqAzureRIs, ReqAzureScope, ReqAzureOfferings, ReqExchangeHistory
  <1>6.
        /\ Quiet(ReqTrends) /\ Quiet(ReqHistoryAnalytics) /\ Quiet(ReqBreakdown)
        /\ Quiet(ReqDashboard) /\ Quiet(ReqUpcoming) /\ Quiet(ReqHistory) /\ Quiet(ReqInventory)
        /\ Quiet(ReqCoverage)
    BY Pieces, ScopePieces, QuietSteps, QuietJoin, LongerPieces
       DEF ReqTrends, ReqDates, ReqHistoryAnalytics, ReqBreakdown, ReqDashboard, ReqUpcoming,
           ReqHistory, ReqInventory, ReqCoverage
  <1>7.
        /\ Quiet(ReqFederation) /\ Quiet(ReqHealth) /\ Quiet(ReqInfo) /\ Quiet(ReqDeployment)
        /\ Quiet(ReqVersion) /\ Quiet(ReqDocs)
    BY Pieces, ScopePieces, QuietSteps, QuietJoin, LongerPieces
       DEF ReqFederation, ReqFederationParams, ReqHealth, ReqInfo, ReqDeployment, ReqVersion,
           ReqDocs
  <1> QED BY <1>1, <1>2, <1>3, <1>4, <1>5, <1>6, <1>7

\* Sessions and the own account.
LEMMA SessionHandlers ==
  /\ Sound(ReqLogin) /\ Sound(ReqSetupAdmin) /\ Sound(ReqForgotPassword)
  /\ Sound(ReqResetPassword) /\ Sound(ReqLogout) /\ Sound(ReqProfile)
  /\ Sound(ReqChangePassword) /\ Sound(ReqMfaSetup) /\ Sound(ReqMfaEnable)
  /\ Sound(ReqMfaDisable) /\ Sound(ReqMfaCodes) /\ Behind(ReqLogout) /\ Behind(ReqProfile)
  /\ Behind(ReqChangePassword) /\ Behind(ReqMfaSetup) /\ Behind(ReqMfaEnable)
  /\ Behind(ReqMfaDisable) /\ Behind(ReqMfaCodes)
  <1>1.
        /\ Sound(ReqLogin) /\ Sound(ReqSetupAdmin) /\ Sound(ReqForgotPassword)
        /\ Sound(ReqResetPassword)
    BY Pieces, ScopePieces, LongerPieces, QuietSteps, QuietJoin, WritingSteps, SoundRules, MuteSteps, MuteJoin, KeepsJoin
       DEF Decisions, ReqLogin, ReqLoginErrors, ReqSetupAdmin, ReqUserErrors, ReqForgotPassword,
           ReqResetPassword, ReqResetErrors
  <1>2.
        /\ Sound(ReqLogout) /\ Sound(ReqProfile) /\ Sound(ReqChangePassword)
        /\ Sound(ReqMfaSetup) /\ Sound(ReqMfaEnable) /\ Sound(ReqMfaDisable)
        /\ Sound(ReqMfaCodes)
    BY Pieces, ScopePieces, LongerPieces, QuietSteps, QuietJoin, WritingSteps, SoundRules
       DEF Decisions, ReqLogout, ReqProfile, ReqProfilePasswords, ReqProfileErrors,
           ReqChangePassword, ReqPasswordPair, ReqMfaSetup, ReqMfa, ReqMfaErrors, ReqMfaEnable,
           ReqMfaDisable, ReqMfaCodes
  <1>3.
        /\ Behind(ReqLogout) /\ Behind(ReqProfile) /\ Behind(ReqChangePassword)
        /\ Behind(ReqMfaSetup) /\ Behind(ReqMfaEnable) /\ Behind(ReqMfaDisable)
        /\ Behind(ReqMfaCodes)
    BY Pieces, QuietSteps, QuietJoin, WritingSteps, BehindJoin, BehindQuiet
       DEF Own, ReqLogout, ReqProfile, ReqProfilePasswords, ReqProfileErrors, ReqChangePassword,
           ReqPasswordPair, ReqMfaSetup, ReqMfa, ReqMfaErrors, ReqMfaEnable, ReqMfaDisable,
           ReqMfaCodes
  <1> QED BY <1>1, <1>2, <1>3

\* Users, groups, keys, settings.
LEMMA SettingsHandlers ==
  /\ Sound(ReqCreateUser) /\ Sound(ReqUpdateUser) /\ Sound(ReqDeleteUser)
  /\ Sound(ReqCreateGroup) /\ Sound(ReqUpdateGroup) /\ Sound(ReqDeleteGroup)
  /\ Sound(ReqCreateKey) /\ Sound(ReqDeleteKey) /\ Sound(ReqRevokeKey)
  /\ Sound(ReqUpdateExchangeConfig) /\ Sound(ReqPutLadder) /\ Behind(ReqCreateKey)
  /\ Behind(ReqDeleteKey) /\ Behind(ReqRevokeKey) /\ Behind(ReqUpdateExchangeConfig)
  /\ Behind(ReqPutLadder) /\ Sound(ReqUpdateConfig) /\ Sound(ReqUpdateService)
  /\ Sound(ReqUnsubscribe) /\ Sound(ReqCollect)
  <1>1.
        /\ Sound(ReqCreateUser) /\ Sound(ReqUpdateUser) /\ Sound(ReqDeleteUser)
        /\ Sound(ReqCreateGroup) /\ Sound(ReqUpdateGroup) /\ Sound(ReqDeleteGroup)
    BY Pieces, ScopePieces, LongerPieces, QuietSteps, QuietJoin, WritingSteps, SoundRules
       DEF Decisions, ReqCreateUser, ReqUserErrors, ReqUpdateUser, ReqDeleteUser,
           ReqCreateGroup, ReqGroupErrors, ReqUpdateGroup, ReqDeleteGroup
  <1>2.
        /\ Sound(ReqCreateKey) /\ Sound(ReqDeleteKey) /\ Sound(ReqRevokeKey)
        /\ Sound(ReqUpdateExchangeConfig) /\ Sound(ReqPutLadder)
    BY Pieces, ScopePieces, LongerPieces, QuietSteps, QuietJoin, WritingSteps, SoundRules
       DEF Decisions, ReqCreateKey, ReqDeleteKey, ReqKeyId, ReqRevokeKey,
           ReqUpdateExchangeConfig, ReqExchangeConfigBody, ReqAutoModeGrant, ReqPutLadder,
           ReqLadderDefaults, ReqLadderAccount
  <1>3.
        /\ Behind(ReqCreateKey) /\ Behind(ReqDeleteKey) /\ Behind(ReqRevokeKey)
        /\ Behind(ReqUpdateExchangeConfig) /\ Behind(ReqPutLadder)
    BY Pieces, ScopePieces, LongerPieces, QuietSteps, QuietJoin, WritingSteps, SoundRules, CoveredRules
       DEF ReqCreateKey, ReqDeleteKey, ReqKeyId, ReqRevokeKey, ReqUpdateExchangeConfig,
           ReqExchangeConfigBody, ReqAutoModeGrant, ReqPutLadder, ReqLadderDefaults,
           ReqLadderAccount
  <1>4.
        /\ Sound(ReqUpdateConfig) /\ Sound(ReqUpdateService) /\ Sound(ReqUnsubscribe)
        /\ Sound(ReqCollect)
    BY Pieces, ScopePieces, LongerPieces, QuietSteps, QuietJoin, WritingSteps, SoundRules, MuteSteps, MuteJoin, KeepsJoin
       DEF Decisions, ReqUpdateConfig, ReqAutoModeGrant, ReqDefaults, ReqUpdateService,
           ReqServicePath, ReqMergeService, ReqCombo, ReqUnsubscribe, ReqOneClick,
           ReqUnsubscribeParams, ReqCollect
  <1> QED BY <1>1, <1>2, <1>3, <1>4

\* The accounts of a new plan, of which a failure takes the plan back.
LEMMA MembersUndone ==
  /\ IsSteps(ReqUndoing(ReqNo({400, 404}) \o ReqPut({"members"}), {"plan"}))
  /\ Sound(ReqUndoing(ReqNo({400, 404}) \o ReqPut({"members"}), {"plan"}))
  <1> DEFINE codes == {400, 404}
             rows == {"members"}
             taken == {"plan"}
  <1> HIDE DEF codes, rows, taken
  <1>1. /\ IsSteps(ReqUndoing(ReqNo(codes) \o ReqPut(rows), taken))
        /\ Sound(ReqUndoing(ReqNo(codes) \o ReqPut(rows), taken))
    BY Undoing
  <1> QED BY <1>1 DEF codes, rows, taken

\* Plans.
LEMMA PlanHandlers ==
  /\ Sound(ReqReplacePlan) /\ Sound(ReqPatchPlan) /\ Sound(ReqDeletePlan)
  /\ Sound(ReqSetPlanAccounts) /\ Sound(ReqCreatePlanned) /\ Behind(ReqReplacePlan)
  /\ Behind(ReqPatchPlan) /\ Behind(ReqDeletePlan) /\ Behind(ReqCreatePlanned)
  /\ Behind(ReqSetPlanAccounts) /\ Safe(ReqCreatePlan, {"plan"}) /\ Behind(ReqCreatePlan)
  <1>1.
        /\ Sound(ReqReplacePlan) /\ Sound(ReqPatchPlan) /\ Sound(ReqDeletePlan)
        /\ Sound(ReqSetPlanAccounts)
    BY Pieces, ScopePieces, LongerPieces, QuietSteps, QuietJoin, WritingSteps, SoundRules
       DEF Decisions, ReqReplacePlan, ReqPatchPlan, ReqPatchFields, ReqDeletePlan,
           ReqSetPlanAccounts, ReqPlanAccountList
  <1>2.
        /\ Sound(ReqCreatePlanned)
    BY Pieces, ScopePieces, LongerPieces, QuietSteps, QuietJoin, WritingSteps, SoundRules
       DEF Decisions, ReqCreatePlanned, ReqPlannedBody
  <1>3.
        /\ Behind(ReqReplacePlan) /\ Behind(ReqPatchPlan) /\ Behind(ReqDeletePlan)
        /\ Behind(ReqCreatePlanned) /\ Behind(ReqSetPlanAccounts)
    BY Pieces, ScopePieces, LongerPieces, QuietSteps, QuietJoin, WritingSteps, SoundRules, CoveredRules
       DEF ReqReplacePlan, ReqPatchPlan, ReqPatchFields, ReqDeletePlan, ReqCreatePlanned,
           ReqPlannedBody, ReqSetPlanAccounts, ReqPlanAccountList
  <1>4.
        /\ Safe(ReqCreatePlan, {"plan"})
    <2>1. Quiet(ReqMay \o ReqBody \o ReqPlanAccountList \o ReqNo({400}))
      BY Pieces, QuietSteps, QuietJoin DEF ReqPlanAccountList
    <2>2. /\ Sound(ReqMay \o ReqBody \o ReqPlanAccountList \o ReqNo({400}) \o ReqPut({"plan"}))
          /\ Within(ReqMay \o ReqBody \o ReqPlanAccountList \o ReqNo({400}) \o ReqPut({"plan"}), {"plan"})
      BY <2>1, WritingSteps, SoundRules, WithinRules, WithinSteps
    <2> QED BY <2>2, MembersUndone, SafeRules, WithinRules DEF ReqCreatePlan, Sound
  <1>5.
        /\ Behind(ReqCreatePlan)
    <2>2. Covered(ReqMay \o ReqBody \o ReqPlanAccountList \o ReqNo({400}))
      BY Pieces, QuietSteps, QuietJoin, CoveredRules DEF ReqPlanAccountList
    <2> QED BY <2>2, MembersUndone, WritingSteps, SoundRules, CoveredRules DEF ReqCreatePlan
  <1> QED BY <1>1, <1>2, <1>3, <1>4, <1>5

\* Purchases.
LEMMA PurchaseHandlers ==
  /\ Sound(ReqPause) /\ Sound(ReqResume) /\ Sound(ReqRun) /\ Sound(ReqSubmit) /\ Sound(ReqRetry)
  /\ Sound(ReqRevoke) /\ Sound(ReqUnlist) /\ Behind(ReqPause) /\ Behind(ReqResume)
  /\ Behind(ReqRun) /\ Behind(ReqSubmit) /\ Behind(ReqRetry) /\ Behind(ReqRevoke)
  /\ Behind(ReqUnlist) /\ Safe(ReqDeletePlanned, {"execution"}) /\ Safe(ReqList, {"history"})
  /\ Behind(ReqDeletePlanned) /\ Behind(ReqList) /\ Sound(ReqApprovePurchase)
  /\ Sound(ReqCancelPurchase) /\ Sound(ReqRevokeByMail)
  <1>1.
        /\ Sound(ReqPause) /\ Sound(ReqResume) /\ Sound(ReqRun) /\ Sound(ReqSubmit)
        /\ Sound(ReqRetry) /\ Sound(ReqRevoke) /\ Sound(ReqUnlist)
    BY Pieces, ScopePieces, LongerPieces, QuietSteps, QuietJoin, WritingSteps, SoundRules, MuteSteps, MuteJoin, KeepsJoin
       DEF Decisions, ReqPause, ReqResume, ReqRun, ReqSubmit, ReqTotals, ReqRetry, ReqRetryOwn,
           ReqRevoke, ReqProviderRevokes, ReqUnlist, ReqSellErrors
  <1>2.
        /\ Behind(ReqPause) /\ Behind(ReqResume) /\ Behind(ReqRun) /\ Behind(ReqSubmit)
        /\ Behind(ReqRetry) /\ Behind(ReqRevoke) /\ Behind(ReqUnlist)
    <2>1. Behind(ReqPause) /\ Behind(ReqResume) /\ Behind(ReqRun)
      BY Pieces, ScopePieces, LongerPieces, QuietSteps, QuietJoin, WritingSteps, SoundRules, CoveredRules
         DEF ReqPause, ReqResume, ReqRun
    <2>2. Behind(ReqSubmit)
      BY LongerPieces, QuietSteps, WritingSteps, SoundRules, CoveredRules DEF ReqSubmit, ReqTotals
    <2>3. Behind(ReqRetry)
      BY Pieces, QuietSteps, QuietJoin, WritingSteps, SoundRules, CoveredRules
         DEF ReqRetry, ReqRetryOwn
    <2>4. Behind(ReqRevoke)
      BY Pieces, LongerPieces, QuietSteps, QuietJoin, WritingSteps, SoundRules, CoveredRules
         DEF ReqRevoke, ReqProviderRevokes
    <2>5. Behind(ReqUnlist)
      BY Pieces, LongerPieces, QuietSteps, QuietJoin, WritingSteps, SoundRules, CoveredRules
         DEF ReqUnlist, ReqSellErrors
    <2> QED BY <2>1, <2>2, <2>3, <2>4, <2>5
  <1>3.
        /\ Safe(ReqDeletePlanned, {"execution"}) /\ Safe(ReqList, {"history"})
    BY Pieces, ScopePieces, LongerPieces, QuietSteps, QuietJoin, WritingSteps, SoundRules, MuteSteps, MuteJoin, KeepsJoin, SafeRules, WithinRules, WithinSteps, Undoing
       DEF Decisions, ReqDeletePlanned, ReqDeleteOrCancel, ReqCancelOwn, ReqCancelOrRecover,
           ReqDisablePlan, ReqList, ReqPriceSchedule, ReqSellErrors
  <1>4.
        /\ Behind(ReqDeletePlanned)
    <2>1. IsSteps(ReqDisablePlan)
      BY QuietSteps, SoundRules, WritingSteps, Joined DEF ReqDisablePlan
    <2>2. Covered(ReqId \o ReqDeleteOrCancel \o ReqExecutionInScope \o ReqCancelOwn)
      BY Pieces, ScopePieces, QuietSteps, QuietJoin, CoveredRules DEF ReqDeleteOrCancel, ReqCancelOwn
    <2>3. IsSteps(ReqCancelOrRecover)
      BY WritingSteps, SoundRules DEF ReqCancelOrRecover
    <2> QED BY <2>1, <2>2, <2>3, CoveredRules DEF ReqDeletePlanned
  <1>5.
        /\ Behind(ReqList)
    BY Pieces, ScopePieces, LongerPieces, QuietSteps, QuietJoin, WritingSteps, SoundRules, CoveredRules, Undoing
       DEF ReqList, ReqPriceSchedule, ReqSellErrors
  <1>6.
        /\ Sound(ReqApprovePurchase) /\ Sound(ReqCancelPurchase) /\ Sound(ReqRevokeByMail)
    BY Pieces, ScopePieces, LongerPieces, QuietSteps, QuietJoin, WritingSteps, SoundRules
       DEF ReqApprovePurchase, ReqApproveExecution, ReqCancelPurchase, ReqRevokeByMail
  <1> QED BY <1>1, <1>2, <1>3, <1>4, <1>5, <1>6

\* Accounts and registrations.
LEMMA AccountHandlers ==
  /\ Sound(ReqCreateAccount) /\ Sound(ReqCreateSelf) /\ Sound(ReqUpdateAccount)
  /\ Sound(ReqDeleteAccount) /\ Sound(ReqSaveCredentials) /\ Sound(ReqSaveOverride)
  /\ Sound(ReqDeleteOverride) /\ Sound(ReqDiscover) /\ Sound(ReqRegister)
  /\ Sound(ReqRejectRegistration) /\ Sound(ReqDeleteRegistration)
  /\ Safe(ReqApproveRegistration, {"registration"})
  <1>1.
        /\ Sound(ReqCreateAccount) /\ Sound(ReqCreateSelf) /\ Sound(ReqUpdateAccount)
        /\ Sound(ReqDeleteAccount) /\ Sound(ReqSaveCredentials) /\ Sound(ReqSaveOverride)
        /\ Sound(ReqDeleteOverride) /\ Sound(ReqDiscover)
    BY Pieces, ScopePieces, LongerPieces, QuietSteps, QuietJoin, WritingSteps, SoundRules, MuteSteps, MuteJoin, KeepsJoin
       DEF Decisions, ReqCreateAccount, ReqCreateSelf, ReqUpdateAccount, ReqDeleteAccount,
           ReqSaveCredentials, ReqSaveOverride, ReqOverridePath, ReqCombo, ReqDeleteOverride,
           ReqDiscover, ReqOrgRoot
  <1>2.
        /\ Sound(ReqRegister) /\ Sound(ReqRejectRegistration) /\ Sound(ReqDeleteRegistration)
    BY Pieces, ScopePieces, LongerPieces, QuietSteps, QuietJoin, WritingSteps, SoundRules, MuteSteps, MuteJoin, KeepsJoin
       DEF ReqRegister, ReqRejectRegistration, ReqDeleteRegistration
  <1>3.
        /\ Safe(ReqApproveRegistration, {"registration"})
    BY Pieces, ScopePieces, LongerPieces, QuietSteps, QuietJoin, WritingSteps, SoundRules, MuteSteps, MuteJoin, KeepsJoin, SafeRules, WithinRules, WithinSteps
       DEF ReqApproveRegistration, ReqStoreCredential
  <1> QED BY <1>1, <1>2, <1>3

\* Exchanges, and the collection of recommendations.
LEMMA ExchangeHandlers ==
  /\ Sound(ReqRefresh) /\ Sound(ReqExchange) /\ Sound(ReqAzureExchange) /\ Behind(ReqRefresh)
  /\ Behind(ReqExchange) /\ Behind(ReqAzureExchange) /\ Sound(ReqApproveExchange)
  /\ Sound(ReqApproveExchangeSigned) /\ Sound(ReqRejectExchange)
  /\ Sound(ReqUtilization) /\ Behind(ReqUtilization) /\ Sound(ReqReshape) /\ Behind(ReqReshape)
  <1>1.
        /\ Sound(ReqRefresh) /\ Sound(ReqExchange) /\ Sound(ReqAzureExchange)
    BY Pieces, ScopePieces, LongerPieces, QuietSteps, QuietJoin, WritingSteps, SoundRules, MuteSteps, MuteJoin, KeepsJoin, Undoing
       DEF ReqRefresh, ReqExchange, ReqAwsTargets, ReqAzureExchange
  <1>2.
        /\ Behind(ReqRefresh) /\ Behind(ReqExchange) /\ Behind(ReqAzureExchange)
    BY Pieces, ScopePieces, LongerPieces, QuietSteps, QuietJoin, WritingSteps, SoundRules, CoveredRules, Undoing
       DEF ReqRefresh, ReqExchange, ReqAwsTargets, ReqAzureExchange
  <1>3.
        /\ Sound(ReqApproveExchange) /\ Sound(ReqApproveExchangeSigned)
        /\ Sound(ReqRejectExchange)
    BY Pieces, ScopePieces, LongerPieces, QuietSteps, QuietJoin, WritingSteps, SoundRules, MuteSteps, MuteJoin, KeepsJoin
       DEF ReqApproveExchange, ReqApproveExchangeSigned, ReqRejectExchange
  <1>4. Sound(ReqUtilization) /\ Behind(ReqUtilization) /\ Sound(ReqReshape) /\ Behind(ReqReshape)
    <2> DEFINE asked == ReqMay \o ReqRunningAccount \o ReqReshapeParams \o ReqAwsConfig
               listed == asked \o ReqNo({500})
    <2>1. Quiet(asked) /\ Covered(asked)
      BY Pieces, QuietSteps, QuietJoin, CoveredRules
         DEF ReqRunningAccount, ReqReshapeParams, ReqAwsConfig
    <2>2. Quiet(listed) /\ Covered(listed)
      <3> HIDE DEF asked
      <3> QED BY <2>1, QuietSteps, QuietJoin, SoundRules, CoveredRules
    <2>3. Sound(ReqCached)
      BY QuietSteps, WritingSteps, SoundRules DEF ReqCached
    <2>4. /\ ReqUtilization = asked \o ReqCached
          /\ ReqReshape = listed \o ReqCached \o ReqRunningAccount \o ReqStaleness
      BY DEF ReqUtilization, ReqReshape
    <2>5. /\ Mute(ReqRunningAccount) /\ Keeps(ReqRunningAccount) /\ Mute(ReqStaleness)
          /\ Keeps(ReqStaleness) /\ IsSteps(ReqRunningAccount) /\ IsSteps(ReqStaleness)
      BY MuteSteps DEF ReqRunningAccount, ReqScope, ReqStaleness, Mute
    <2> HIDE DEF asked, listed
    <2>6. Sound(ReqUtilization) /\ Behind(ReqUtilization)
      BY <2>1, <2>3, <2>4, SoundRules, CoveredRules
    <2>7. Sound(listed \o ReqCached) /\ Covered(listed \o ReqCached)
      BY <2>2, <2>3, SoundRules, CoveredRules
    <2>8. Sound(ReqReshape)
      BY <2>4, <2>5, <2>7, SoundRules, MuteJoin, KeepsJoin
    <2>9. Behind(ReqReshape)
      BY <2>4, <2>5, <2>7, CoveredRules
    <2> QED BY <2>6, <2>8, <2>9
  <1> QED BY <1>1, <1>2, <1>3, <1>4

------------------------------------------------------------------------------
-----------------------------------------------------------------------------
(* A row l that is only written after another, e.                              *)

\* l is not written; e is written; e is not taken back.
Unwritten(s, l) == IsSteps(s) /\ \A i \in 1 .. Len(s) : Writes(s[i]) => l \notin s[i].rows
Firmly(s, e) == IsSteps(s) /\ \E i \in 1 .. Len(s) : Firm(s[i]) /\ e \in s[i].rows
Untaken(s, e) == IsSteps(s) /\ \A i \in 1 .. Len(s) : e \notin s[i].undo

\* e is not taken back once l is written; l is not written before e is.
Leaves(s, l, e) ==
    /\ IsSteps(s)
    /\ \A i \in 1 .. Len(s), k \in 1 .. Len(s) :
          Writes(s[i]) /\ l \in s[i].rows /\ i < k => e \notin s[k].undo
Preceded(s, l, e) ==
    /\ IsSteps(s)
    /\ \A i \in 1 .. Len(s) :
          Writes(s[i]) /\ l \in s[i].rows => \E j \in 1 .. i : Firm(s[j]) /\ e \in s[j].rows
Follows(s, l, e) == Preceded(s, l, e) /\ Leaves(s, l, e)

\* What neither piece writes is not written.
LEMMA UnwrittenJoin == \A s, t, l : Unwritten(s, l) /\ Unwritten(t, l) => Unwritten(s \o t, l)
  <1> SUFFICES ASSUME NEW s, NEW t, NEW l, Unwritten(s, l), Unwritten(t, l) PROVE Unwritten(s \o t, l)
    OBVIOUS
  <1>1. IsSteps(s) /\ IsSteps(t)
    BY DEF Unwritten
  <1>2. ASSUME NEW i \in 1 .. Len(s \o t), Writes((s \o t)[i])
        PROVE  l \notin (s \o t)[i].rows
    BY <1>1, <1>2, Place DEF Unwritten
  <1> QED BY <1>1, <1>2, Joined DEF Unwritten

\* What a piece has written is written in the whole.
LEMMA FirmlyJoin ==
  \A s, t, e : IsSteps(s) /\ IsSteps(t) /\ (Firmly(s, e) \/ Firmly(t, e)) => Firmly(s \o t, e)
  <1> SUFFICES ASSUME NEW s, NEW t, NEW e, IsSteps(s), IsSteps(t), Firmly(s, e) \/ Firmly(t, e)
      PROVE  Firmly(s \o t, e)
    OBVIOUS
  <1>1. CASE Firmly(s, e)
    <2>1. PICK i \in 1 .. Len(s) : Firm(s[i]) /\ e \in s[i].rows
      BY <1>1 DEF Firmly
    <2> QED BY <2>1, Joined DEF Firmly
  <1>2. CASE Firmly(t, e)
    <2>1. PICK i \in 1 .. Len(t) : Firm(t[i]) /\ e \in t[i].rows
      BY <1>2 DEF Firmly
    <2>2. /\ Len(s) + i \in 1 .. Len(s \o t) /\ Firm((s \o t)[Len(s) + i])
          /\ e \in (s \o t)[Len(s) + i].rows
      BY <2>1, Joined
    <2> QED BY <2>2, Joined DEF Firmly
  <1> QED BY <1>1, <1>2

\* A row written only after another in either piece is so in the whole.
LEMMA PrecededJoin ==
  \A s, t, l, e : Preceded(s, l, e) /\ IsSteps(t) /\ (Preceded(t, l, e) \/ Firmly(s, e)) => Preceded(s \o t, l, e)
  <1> SUFFICES ASSUME NEW s, NEW t, NEW l, NEW e, Preceded(s, l, e), IsSteps(t),
                      Preceded(t, l, e) \/ Firmly(s, e)
      PROVE  Preceded(s \o t, l, e)
    OBVIOUS
  <1>1. IsSteps(s) /\ Len(s) \in Nat /\ Len(t) \in Nat
    BY Joined DEF Preceded
  <1>2. ASSUME NEW i \in 1 .. Len(s \o t), Writes((s \o t)[i]), l \in (s \o t)[i].rows
        PROVE  \E j \in 1 .. i : Firm((s \o t)[j]) /\ e \in (s \o t)[j].rows
    <2>1. CASE i \in 1 .. Len(s) /\ (s \o t)[i] = s[i]
      <3>1. PICK j \in 1 .. i : Firm(s[j]) /\ e \in s[j].rows
        BY <1>2, <2>1 DEF Preceded
      <3>2. j \in 1 .. Len(s)
        BY <1>1, <2>1
      <3> QED BY <1>1, <3>1, <3>2, Joined
    <2>2. CASE \E k \in 1 .. Len(t) : i = Len(s) + k /\ (s \o t)[i] = t[k]
      <3>0. PICK k \in 1 .. Len(t) : i = Len(s) + k /\ (s \o t)[i] = t[k]
        BY <2>2
      <3>1. CASE Preceded(t, l, e)
        <4>1. PICK j \in 1 .. k : Firm(t[j]) /\ e \in t[j].rows
          BY <1>2, <3>0, <3>1 DEF Preceded
        <4>2. j \in 1 .. Len(t) /\ Len(s) + j \in 1 .. i
          BY <1>1, <3>0
        <4>3. (s \o t)[Len(s) + j] = t[j]
          BY <1>1, <4>2, Joined
        <4>4. Firm((s \o t)[Len(s) + j]) /\ e \in (s \o t)[Len(s) + j].rows
          BY <4>1, <4>3
        <4> QED BY <4>2, <4>4
      <3>2. CASE Firmly(s, e)
        <4>1. PICK j \in 1 .. Len(s) : Firm(s[j]) /\ e \in s[j].rows
          BY <3>2 DEF Firmly
        <4>2. j \in 1 .. i
          BY <1>1, <3>0
        <4>3. (s \o t)[j] = s[j]
          BY <1>1, Joined
        <4> QED BY <4>1, <4>2, <4>3
      <3> QED BY <3>1, <3>2
    <2> QED BY <1>1, <2>1, <2>2, Place
  <1> QED BY <1>1, <1>2, Joined DEF Preceded

\* The same of a row that is not taken back once the other is there.
LEMMA LeavesJoin ==
  \A s, t, l, e : Leaves(s, l, e) /\ Leaves(t, l, e) /\ (Untaken(t, e) \/ Unwritten(s, l)) => Leaves(s \o t, l, e)
  <1> SUFFICES ASSUME NEW s, NEW t, NEW l, NEW e, Leaves(s, l, e), Leaves(t, l, e),
                      Untaken(t, e) \/ Unwritten(s, l)
      PROVE  Leaves(s \o t, l, e)
    OBVIOUS
  <1>1. IsSteps(s) /\ IsSteps(t) /\ Len(s) \in Nat /\ Len(t) \in Nat
    BY Joined DEF Leaves
  <1>2. ASSUME NEW i \in 1 .. Len(s \o t), NEW k \in 1 .. Len(s \o t), i < k,
               Writes((s \o t)[i]), l \in (s \o t)[i].rows
        PROVE  e \notin (s \o t)[k].undo
    <2>1. CASE k \in 1 .. Len(s) /\ (s \o t)[k] = s[k]
      <3>1. i \in 1 .. Len(s) /\ (s \o t)[i] = s[i]
        BY <1>1, <1>2, <2>1, Place
      <3> QED BY <1>2, <2>1, <3>1 DEF Leaves
    <2>2. CASE \E m \in 1 .. Len(t) : k = Len(s) + m /\ (s \o t)[k] = t[m]
      <3>0. PICK m \in 1 .. Len(t) : k = Len(s) + m /\ (s \o t)[k] = t[m]
        BY <2>2
      <3>1. CASE Untaken(t, e)
        BY <3>0, <3>1 DEF Untaken
      <3>2. CASE Unwritten(s, l)
        <4>1. PICK h \in 1 .. Len(t) : i = Len(s) + h /\ (s \o t)[i] = t[h]
          BY <1>1, <1>2, <3>2, Place DEF Unwritten
        <4>2. h < m
          BY <1>1, <1>2, <3>0, <4>1
        <4> QED BY <1>2, <3>0, <4>1, <4>2 DEF Leaves
      <3> QED BY <3>1, <3>2
    <2> QED BY <1>1, <2>1, <2>2, Place
  <1> QED BY <1>1, <1>2, Joined DEF Leaves

\* How a handler is put together that writes one row only after another.
LEMMA FollowRules ==
  /\ \A s, l : Quiet(s) => Unwritten(s, l) /\ Untaken(s, l)
  /\ \A s, l, e : Unwritten(s, l) => Follows(s, l, e)
  /\ \A s, t, l, e : Unwritten(s, l) /\ Follows(t, l, e) => Follows(s \o t, l, e)
  /\ \A s, t, l, e : Follows(s, l, e) /\ Firmly(s, e) /\ Untaken(t, e) =>
        Follows(s \o t, l, e) /\ Firmly(s \o t, e)
  /\ \A s, t, l, e : Unwritten(s, l) /\ Firmly(s, e) /\ Leaves(t, l, e) => Follows(s \o t, l, e)
  <1>1. \A s, l : Quiet(s) => Unwritten(s, l) /\ Untaken(s, l)
    BY DEF Quiet, Unwritten, Untaken
  <1>2. \A s, l, e : Unwritten(s, l) => Preceded(s, l, e) /\ Leaves(s, l, e) /\ IsSteps(s)
    BY DEF Unwritten, Preceded, Leaves
  <1>3. \A s, l, e : Untaken(s, e) => Leaves(s, l, e) /\ IsSteps(s)
    BY DEF Untaken, Leaves
  <1>4. \A s, l, e : Leaves(s, l, e) => IsSteps(s)
    BY DEF Leaves
  <1>5. \A s, t, l, e : Unwritten(s, l) /\ Follows(t, l, e) => Follows(s \o t, l, e)
    BY <1>2, <1>4, PrecededJoin, LeavesJoin DEF Follows
  <1>6. \A s, t, l, e : Follows(s, l, e) /\ Firmly(s, e) /\ Untaken(t, e) =>
           Follows(s \o t, l, e) /\ Firmly(s \o t, e)
    BY <1>3, <1>4, PrecededJoin, LeavesJoin, FirmlyJoin DEF Follows
  <1>7. \A s, t, l, e : Unwritten(s, l) /\ Firmly(s, e) /\ Leaves(t, l, e) => Follows(s \o t, l, e)
    BY <1>2, <1>4, PrecededJoin, LeavesJoin DEF Follows
  <1> QED BY <1>1, <1>2, <1>5, <1>6, <1>7 DEF Follows

\* What the single steps do to that order.
LEMMA FollowSteps ==
  /\ \A rows, codes, e :
       /\ Untaken(ReqPut(rows), e) /\ Untaken(ReqTry(rows), e) /\ Untaken(ReqClaim(rows), e)
       /\ Untaken(ReqAtomic(rows, codes), e) /\ Untaken(ReqSave(rows), e)
       /\ e \in rows => Firmly(ReqPut(rows), e) /\ Firmly(ReqClaim(rows), e) /\ Firmly(ReqAtomic(rows, codes), e)
       /\ e \notin rows => /\ Unwritten(ReqPut(rows), e) /\ Unwritten(ReqClaim(rows), e)
                           /\ Unwritten(ReqAtomic(rows, codes), e) /\ Unwritten(ReqTry(rows), e)
  /\ \A rows, l, e : e \in rows => Follows(ReqSave(rows), l, e)
  <1>1. \A x, e : /\ x.undo = {} => Untaken(<<x>>, e)
                  /\ Firm(x) /\ e \in x.rows => Firmly(<<x>>, e)
                  /\ e \notin x.rows => Unwritten(<<x>>, e)
    BY One DEF Untaken, Firmly, Unwritten
  <1>2. ASSUME NEW x, NEW l, NEW e, Firm(x), e \in x.rows, x.undo = {}
        PROVE  Follows(<<x>>, l, e)
    <2>1. 1 \in 1 .. 1
      OBVIOUS
    <2> QED BY <1>2, <2>1, One DEF Follows, Preceded, Leaves
  <1>3. ASSUME NEW do, NEW rows, NEW c
        PROVE  LET x == ReqStep(do, rows, c)
               IN  x.undo = {} /\ x.rows = rows /\ (do \in {"put", "claim", "save"} => Firm(x))
    BY DEF ReqStep, Firm
  <1>4. ASSUME NEW rows, NEW codes, NEW e
        PROVE  /\ Untaken(ReqPut(rows), e) /\ Untaken(ReqTry(rows), e) /\ Untaken(ReqClaim(rows), e)
               /\ Untaken(ReqAtomic(rows, codes), e) /\ Untaken(ReqSave(rows), e)
    BY <1>1, <1>3 DEF ReqPut, ReqTry, ReqClaim, ReqAtomic, ReqSave
  <1>5. ASSUME NEW rows, NEW codes, NEW e, e \in rows
        PROVE  Firmly(ReqPut(rows), e) /\ Firmly(ReqClaim(rows), e) /\ Firmly(ReqAtomic(rows, codes), e)
    BY <1>1, <1>3, <1>5 DEF ReqPut, ReqClaim, ReqAtomic
  <1>6. ASSUME NEW rows, NEW codes, NEW e, e \notin rows
        PROVE  /\ Unwritten(ReqPut(rows), e) /\ Unwritten(ReqClaim(rows), e)
               /\ Unwritten(ReqAtomic(rows, codes), e) /\ Unwritten(ReqTry(rows), e)
    BY <1>1, <1>3, <1>6 DEF ReqPut, ReqClaim, ReqAtomic, ReqTry
  <1>7. ASSUME NEW rows, NEW l, NEW e, e \in rows
        PROVE  Follows(ReqSave(rows), l, e)
    BY <1>2, <1>3, <1>7 DEF ReqSave
  <1> QED BY <1>4, <1>5, <1>6, <1>7

\* What is taken back is taken back before the row that depends on it is written.
LEMMA UndoingLeaves ==
  ASSUME NEW codes, NEW rows, NEW taken, NEW l, NEW e
  PROVE  Leaves(ReqUndoing(ReqNo(codes) \o ReqPut(rows), taken), l, e)
  <1> DEFINE q == ReqNo(codes) \o ReqPut(rows)
             u == ReqUndoing(q, taken)
  <1>1. IsSteps(u)
    BY Undoing
  <1>2. Len(q) = 2 /\ q[1].do = "no" /\ DOMAIN q = 1 .. Len(q)
    <2> DEFINE v == ReqStep("no", {}, codes)
               w == ReqStep("put", rows, {})
    <2>1. v.do = "no"
      BY DEF ReqStep
    <2> HIDE DEF v, w
    <2>2. <<v>> \in Seq({v, w}) /\ <<w>> \in Seq({v, w}) /\ q = <<v>> \o <<w>>
      BY DEF ReqNo, ReqPut, v, w
    <2> QED BY <2>1, <2>2
  <1> HIDE DEF q
  <1>3. DOMAIN u = 1 .. 2
    BY <1>2 DEF ReqUndoing
  <1>4. Len(u) = 2
    BY <1>1, <1>3 DEF IsSteps
  <1>5. ~Writes(u[1])
    <2>1. 1 \in DOMAIN q
      BY <1>2
    <2>2. u[1] = [q[1] EXCEPT !.undo = taken]
      BY <2>1 DEF ReqUndoing
    <2>3. u[1].do = q[1].do
      BY <2>2
    <2> QED BY <1>2, <2>3 DEF Writes
  <1> HIDE DEF u
  <1>6. \A i, k \in 1 .. Len(u) : i < k => i = 1
    BY <1>4
  <1> QED BY <1>1, <1>5, <1>6 DEF Leaves, u, q

\* The handlers that ReqNothingHalf is about.
LEMMA OrderedHandlers ==
  /\ Follows(ReqCreatePlanned, "plan", "planned") /\ Follows(ReqCreatePlanned, "planned", "plan")
  /\ Follows(ReqCreatePlan, "members", "plan")
  /\ Follows(ReqApproveRegistration, "account", "registration")
  /\ Follows(ReqApproveRegistration, "link", "account")
  /\ Follows(ReqApproveRegistration, "credential", "account")
  /\ Follows(ReqApproveRegistration, "mail", "registration")
  /\ Follows(ReqSubmit, "mail", "execution") /\ Follows(ReqRegister, "mail", "registration")
  <1>1. /\ Follows(ReqCreatePlanned, "plan", "planned")
        /\ Follows(ReqCreatePlanned, "planned", "plan")
    <2>1. Quiet(ReqId \o ReqMay \o ReqPlanInScope \o ReqPlannedBody \o ReqRead({"plan"}, {404}))
      BY Pieces, ScopePieces, QuietSteps, QuietJoin DEF ReqPlannedBody
    <2> QED BY <2>1, FollowRules, FollowSteps DEF ReqCreatePlanned
  <1>2. Follows(ReqCreatePlan, "members", "plan")
    <2> DEFINE q == ReqMay \o ReqBody \o ReqPlanAccountList \o ReqNo({400})
               codes == {400, 404}
               rows == {"members"}
               taken == {"plan"}
    <2>1. Quiet(q)
      BY Pieces, QuietSteps, QuietJoin DEF ReqPlanAccountList
    <2>2. Unwritten(q \o ReqPut({"plan"}), "members") /\ Firmly(q \o ReqPut({"plan"}), "plan")
      BY <2>1, FollowRules, FollowSteps, UnwrittenJoin, FirmlyJoin, SoundRules, WritingSteps
    <2> HIDE DEF codes, rows, taken
    <2>3. Leaves(ReqUndoing(ReqNo(codes) \o ReqPut(rows), taken), "members", "plan")
      BY UndoingLeaves
    <2> QED BY <2>2, <2>3, FollowRules DEF ReqCreatePlan, codes, rows, taken
  <1>3. /\ Follows(ReqApproveRegistration, "account", "registration")
        /\ Follows(ReqApproveRegistration, "link", "account")
        /\ Follows(ReqApproveRegistration, "credential", "account")
        /\ Follows(ReqApproveRegistration, "mail", "registration")
    <2> DEFINE q == ReqId \o ReqPending \o ReqAccountBody
               c == q \o ReqClaim({"registration"})
               a == c \o ReqAtomic({"account"}, {409})
    <2>1. Quiet(q)
      BY Pieces, LongerPieces, QuietJoin
    <2> HIDE DEF q
    <2>2. /\ IsSteps(q) /\ IsSteps(c) /\ IsSteps(ReqClaim({"registration"}))
          /\ IsSteps(ReqAtomic({"account"}, {409}))
      BY <2>1, SoundRules, WritingSteps
    <2>3. /\ Firmly(c, "registration")
          /\ \A l : l # "registration" => Unwritten(c, l)
      <3>1. Firmly(c, "registration")
        BY <2>2, FollowSteps, FirmlyJoin
      <3>2. ASSUME NEW l, l # "registration" PROVE Unwritten(c, l)
        BY <2>1, <3>2, FollowRules, FollowSteps, UnwrittenJoin
      <3> QED BY <3>1, <3>2
    <2> HIDE DEF c
    <2>4. /\ Firmly(a, "account") /\ Firmly(a, "registration")
          /\ \A l : l \notin {"registration", "account"} => Unwritten(a, l)
      BY <2>2, <2>3, FollowSteps, UnwrittenJoin, FirmlyJoin
    <2>5. Follows(a, "account", "registration")
      BY <2>2, <2>3, FollowRules, FollowSteps
    <2>6. \A l \in {"link", "credential", "mail"} : Follows(a, l, "account") /\ Follows(a, l, "registration")
      BY <2>4, FollowRules
    <2> HIDE DEF a
    <2>7. ASSUME NEW l, NEW e, Firmly(a, e), Follows(a, l, e)
          PROVE  Follows(a \o ReqStoreCredential \o ReqTry({"link"}) \o ReqTry({"mail"}), l, e)
      BY <2>7, FollowRules, FollowSteps DEF ReqStoreCredential
    <2> QED BY <2>4, <2>5, <2>6, <2>7 DEF ReqApproveRegistration, a, c, q
  <1>4. Follows(ReqSubmit, "mail", "execution")
    <2>1. Quiet(ReqSubmission \o ReqTotals \o ReqNo({500}))
      BY LongerPieces, QuietSteps, QuietJoin DEF ReqTotals
    <2> DEFINE p == ReqSubmission \o ReqTotals \o ReqNo({500}) \o ReqPut({"execution"})
    <2>2. Unwritten(p, "mail") /\ Firmly(p, "execution")
      BY <2>1, FollowRules, FollowSteps, UnwrittenJoin, FirmlyJoin, SoundRules, WritingSteps
    <2>3. ReqSubmit = p \o ReqTry({"mail"}) \o ReqTry({"execution"})
      BY DEF ReqSubmit
    <2> HIDE DEF p
    <2>4. Follows(p, "mail", "execution")
      BY <2>2, FollowRules
    <2> QED BY <2>2, <2>3, <2>4, FollowRules, FollowSteps
  <1>5. Follows(ReqRegister, "mail", "registration")
    <2>1. Quiet(ReqLimit \o ReqBody \o ReqNo({400}) \o ReqNo({500}))
      BY Pieces, QuietSteps, QuietJoin
    <2> DEFINE p == ReqLimit \o ReqBody \o ReqNo({400}) \o ReqNo({500}) \o ReqAtomic({"registration"}, {409})
    <2>2. Unwritten(p, "mail") /\ Firmly(p, "registration")
      BY <2>1, FollowRules, FollowSteps, UnwrittenJoin, FirmlyJoin, SoundRules, WritingSteps
    <2>3. ReqRegister = p \o ReqTry({"mail"})
      BY DEF ReqRegister
    <2> HIDE DEF p
    <2>4. Follows(p, "mail", "registration")
      BY <2>2, FollowRules
    <2> QED BY <2>2, <2>3, <2>4, FollowRules, FollowSteps
  <1> QED BY <1>1, <1>2, <1>3, <1>4, <1>5

-----------------------------------------------------------------------------
(* The table of routes.                                                       *)

\* The rows the handlers of a route write before their last check.
LateOf(ways) ==
    {row \in {"plan", "registration", "execution", "history"} :
        \/ row = "plan" /\ ReqCreatePlan \in ways
        \/ row = "registration" /\ ReqApproveRegistration \in ways
        \/ row = "execution" /\ ReqDeletePlanned \in ways
        \/ row = "history" /\ ReqList \in ways}

\* Of a route: its handlers write nothing else before a refusal, and behind a
\* right where it asks for a user. Where the papers of the caller pick one of
\* several, they write nothing but the exchange.
Handled(r) ==
    /\ r.level \in {"public", "user", "admin"}
    /\ \A way \in r.ways : Safe(way, LateOf(r.ways)) /\ (r.level = "user" => Behind(way))
    /\ (\E way : r.ways = {way}) \/ \A way \in r.ways : Within(way, {"exchange"})
AllHandled(s) == IsSteps(s) /\ \A i \in 1 .. Len(s) : Handled(s[i])

\* Tables of handled routes make a table of handled routes.
LEMMA AllHandledJoin == \A s, t : AllHandled(s) /\ AllHandled(t) => AllHandled(s \o t)
  <1> SUFFICES ASSUME NEW s, NEW t, AllHandled(s), AllHandled(t) PROVE AllHandled(s \o t)
    OBVIOUS
  <1>1. IsSteps(s) /\ IsSteps(t)
    BY DEF AllHandled
  <1>2. ASSUME NEW i \in 1 .. Len(s \o t)
        PROVE  Handled((s \o t)[i])
    <2>1. \/ i \in 1 .. Len(s) /\ (s \o t)[i] = s[i]
          \/ \E k \in 1 .. Len(t) : i = Len(s) + k /\ (s \o t)[i] = t[k]
      BY <1>1, Place
    <2> QED BY <2>1 DEF AllHandled
  <1> QED BY <1>1, <1>2, Joined DEF AllHandled

\* More rows may be late.
LEMMA SafeWidens ==
  \A s, late, more : Safe(s, late) /\ late \subseteq more => Safe(s, more)
  BY DEF Safe, Tame

\* A table that is written out is a sequence.
LEMMA Rows == \A n \in Nat : \A s : s = [i \in 1 .. n |-> s[i]] => IsSteps(s) /\ DOMAIN s = 1 .. Len(s)
  <1> TAKE n \in Nat
  <1> TAKE s
  <1> HAVE s = [i \in 1 .. n |-> s[i]]
  <1> DEFINE S == {s[i] : i \in 1 .. n}
  <1>1. s \in [1 .. n -> S]
    OBVIOUS
  <1>2. \A T : Seq(T) = UNION {[1 .. k -> T] : k \in Nat}
    BY SeqDef
  <1> HIDE DEF S
  <1>3. s \in Seq(S)
    BY <1>1, <1>2
  <1> QED BY <1>3 DEF IsSteps

\* The levels of the routes.
Levels == {"public", "user", "admin"}
\* What a handler has to be, to be all that there is behind a route of a level.
Fit(way, level) == Safe(way, LateOf({way})) /\ (level = "user" => Behind(way))

\* A route of a level with a handler that is fit for it is handled.
LEMMA FitRoutes ==
  \A m, kind, pre, suf, way, level : level \in Levels /\ Fit(way, level) =>
      /\ Handled(ReqRoute(m, kind, pre, suf, level, {way}))
      /\ Handled(ReqExact(m, pre, level, way)) /\ Handled(ReqUnder(m, pre, suf, level, way))
  BY DEF Handled, ReqRoute, ReqExact, ReqUnder, Fit, Levels

\* What makes a handler fit for a level, and the handlers that write early.
LEMMA FitHandlers ==
  /\ \A way, level : Quiet(way) => Fit(way, level)
  /\ \A way, level : Sound(way) /\ Behind(way) => Fit(way, level)
  /\ \A way : Sound(way) => Fit(way, "public") /\ Fit(way, "admin")
  /\ Fit(ReqCreatePlan, "user") /\ Fit(ReqList, "user") /\ Fit(ReqDeletePlanned, "user")
  /\ Fit(ReqApproveRegistration, "admin")
  <1>1. \A way, level : Quiet(way) => Fit(way, level)
    BY SafeRules DEF Fit
  <1>2. \A way : Sound(way) => Safe(way, LateOf({way}))
    BY SafeRules
  <1>3. /\ {"plan"} \subseteq LateOf({ReqCreatePlan}) /\ {"history"} \subseteq LateOf({ReqList})
        /\ {"execution"} \subseteq LateOf({ReqDeletePlanned})
        /\ {"registration"} \subseteq LateOf({ReqApproveRegistration})
    BY DEF LateOf
  <1>4. Fit(ReqCreatePlan, "user")
    BY <1>3, SafeWidens, PlanHandlers DEF Fit
  <1>5. Fit(ReqList, "user") /\ Fit(ReqDeletePlanned, "user")
    BY <1>3, SafeWidens, PurchaseHandlers DEF Fit
  <1>6. Fit(ReqApproveRegistration, "admin")
    BY <1>3, SafeWidens, AccountHandlers DEF Fit
  <1> QED BY <1>1, <1>2, <1>4, <1>5, <1>6 DEF Fit

\* The one route of which the caller's papers pick the handler.
LEMMA ApprovalRoute ==
  \A m, kind, pre, suf :
     Handled(ReqRoute(m, kind, pre, suf, "public", {ReqApproveExchange, ReqApproveExchangeSigned}))
  <1>1. Within(ReqApproveExchange, {"exchange"}) /\ Within(ReqApproveExchangeSigned, {"exchange"})
    BY Pieces, ScopePieces, LongerPieces, WithinSteps, WithinRules
       DEF ReqApproveExchange, ReqApproveExchangeSigned
  <1> QED BY <1>1, ExchangeHandlers, SafeRules DEF Handled, ReqRoute

\* The routes of the dashboard, the settings and the recommendations.
LEMMA PageRoutes == AllHandled(ReqPageRoutes)
  <1>1. /\ Fit(ReqDashboard, "user") /\ Fit(ReqUpcoming, "user") /\ Fit(ReqGetConfig, "user")
        /\ Fit(ReqUpdateConfig, "admin") /\ Fit(ReqGetService, "user")
        /\ Fit(ReqUpdateService, "admin") /\ Fit(ReqOptions, "user")
        /\ Fit(ReqRecommendations, "user") /\ Fit(ReqFreshness, "user")
        /\ Fit(ReqRefresh, "user") /\ Fit(ReqDetail, "user")
    BY FitHandlers, ReadingHandlers, SettingsHandlers, ExchangeHandlers
  <1>2. /\ Handled(ReqPageRoutes[1]) /\ Handled(ReqPageRoutes[2]) /\ Handled(ReqPageRoutes[3])
        /\ Handled(ReqPageRoutes[4]) /\ Handled(ReqPageRoutes[5]) /\ Handled(ReqPageRoutes[6])
        /\ Handled(ReqPageRoutes[7]) /\ Handled(ReqPageRoutes[8]) /\ Handled(ReqPageRoutes[9])
        /\ Handled(ReqPageRoutes[10]) /\ Handled(ReqPageRoutes[11])
    BY <1>1, FitRoutes DEF ReqPageRoutes, Levels
  <1>3. ReqPageRoutes = [i \in 1 .. 11 |-> ReqPageRoutes[i]]
    BY DEF ReqPageRoutes
  <1>4. \A i \in 1 .. 11 : Handled(ReqPageRoutes[i])
    BY <1>2
  <1> QED BY <1>3, <1>4, Rows DEF AllHandled

\* The routes of the plans.
LEMMA PlanRoutes == AllHandled(ReqPlanRoutes)
  <1>1. /\ Fit(ReqListPlans, "user") /\ Fit(ReqCreatePlan, "user")
        /\ Fit(ReqCreatePlanned, "user") /\ Fit(ReqListPlanAccounts, "user")
        /\ Fit(ReqSetPlanAccounts, "user") /\ Fit(ReqGetPlan, "user")
        /\ Fit(ReqReplacePlan, "user") /\ Fit(ReqPatchPlan, "user")
        /\ Fit(ReqDeletePlan, "user")
    BY FitHandlers, ReadingHandlers, PlanHandlers
  <1>2. /\ Handled(ReqPlanRoutes[1]) /\ Handled(ReqPlanRoutes[2]) /\ Handled(ReqPlanRoutes[3])
        /\ Handled(ReqPlanRoutes[4]) /\ Handled(ReqPlanRoutes[5]) /\ Handled(ReqPlanRoutes[6])
        /\ Handled(ReqPlanRoutes[7]) /\ Handled(ReqPlanRoutes[8]) /\ Handled(ReqPlanRoutes[9])
    BY <1>1, FitRoutes DEF ReqPlanRoutes, Levels
  <1>3. ReqPlanRoutes = [i \in 1 .. 9 |-> ReqPlanRoutes[i]]
    BY DEF ReqPlanRoutes
  <1>4. \A i \in 1 .. 9 : Handled(ReqPlanRoutes[i])
    BY <1>2
  <1> QED BY <1>3, <1>4, Rows DEF AllHandled

\* The routes of the purchases.
LEMMA PurchaseRoutes == AllHandled(ReqPurchaseRoutes)
  <1>1. /\ Fit(ReqSubmit, "user") /\ Fit(ReqApprovePurchase, "public")
        /\ Fit(ReqCancelPurchase, "public") /\ Fit(ReqRevokeByMail, "public")
        /\ Fit(ReqRetry, "user") /\ Fit(ReqRevoke, "user") /\ Fit(ReqRefundQuote, "user")
        /\ Fit(ReqList, "user") /\ Fit(ReqUnlist, "user") /\ Fit(ReqPlanned, "user")
        /\ Fit(ReqPause, "user") /\ Fit(ReqResume, "user") /\ Fit(ReqRun, "user")
        /\ Fit(ReqDeletePlanned, "user") /\ Fit(ReqPurchaseDetails, "user")
    BY FitHandlers, ReadingHandlers, PurchaseHandlers
  <1>2. /\ Handled(ReqPurchaseRoutes[1]) /\ Handled(ReqPurchaseRoutes[2])
        /\ Handled(ReqPurchaseRoutes[3]) /\ Handled(ReqPurchaseRoutes[4])
        /\ Handled(ReqPurchaseRoutes[5]) /\ Handled(ReqPurchaseRoutes[6])
        /\ Handled(ReqPurchaseRoutes[7]) /\ Handled(ReqPurchaseRoutes[8])
        /\ Handled(ReqPurchaseRoutes[9]) /\ Handled(ReqPurchaseRoutes[10])
        /\ Handled(ReqPurchaseRoutes[11]) /\ Handled(ReqPurchaseRoutes[12])
        /\ Handled(ReqPurchaseRoutes[13]) /\ Handled(ReqPurchaseRoutes[14])
        /\ Handled(ReqPurchaseRoutes[15]) /\ Handled(ReqPurchaseRoutes[16])
        /\ Handled(ReqPurchaseRoutes[17]) /\ Handled(ReqPurchaseRoutes[18])
    BY <1>1, FitRoutes DEF ReqPurchaseRoutes, Levels
  <1>3. ReqPurchaseRoutes = [i \in 1 .. 18 |-> ReqPurchaseRoutes[i]]
    BY DEF ReqPurchaseRoutes
  <1>4. \A i \in 1 .. 18 : Handled(ReqPurchaseRoutes[i])
    BY <1>2
  <1> QED BY <1>3, <1>4, Rows DEF AllHandled

\* The routes of the history and the analytics.
LEMMA HistoryRoutes == AllHandled(ReqHistoryRoutes)
  <1>1. /\ Fit(ReqHistory, "user") /\ Fit(ReqHistoryAnalytics, "user")
        /\ Fit(ReqBreakdown, "user") /\ Fit(ReqTrends, "user") /\ Fit(ReqCollect, "admin")
    BY FitHandlers, ReadingHandlers, SettingsHandlers
  <1>2. /\ Handled(ReqHistoryRoutes[1]) /\ Handled(ReqHistoryRoutes[2])
        /\ Handled(ReqHistoryRoutes[3]) /\ Handled(ReqHistoryRoutes[4])
        /\ Handled(ReqHistoryRoutes[5])
    BY <1>1, FitRoutes DEF ReqHistoryRoutes, Levels
  <1>3. ReqHistoryRoutes = [i \in 1 .. 5 |-> ReqHistoryRoutes[i]]
    BY DEF ReqHistoryRoutes
  <1>4. \A i \in 1 .. 5 : Handled(ReqHistoryRoutes[i])
    BY <1>2
  <1> QED BY <1>3, <1>4, Rows DEF AllHandled

\* The routes of signing in and of the own account.
LEMMA SignInRoutes == AllHandled(ReqSignInRoutes)
  <1>1. /\ Fit(ReqLogin, "public") /\ Fit(ReqLogout, "user") /\ Fit(ReqMe, "user")
        /\ Fit(ReqMyPermissions, "user") /\ Fit(ReqAdminExists, "public")
        /\ Fit(ReqSetupAdmin, "public") /\ Fit(ReqForgotPassword, "public")
        /\ Fit(ReqResetPassword, "public") /\ Fit(ReqResetStatus, "public")
        /\ Fit(ReqProfile, "user") /\ Fit(ReqChangePassword, "user")
        /\ Fit(ReqMfaSetup, "user") /\ Fit(ReqMfaEnable, "user") /\ Fit(ReqMfaDisable, "user")
        /\ Fit(ReqMfaCodes, "user")
    BY FitHandlers, ReadingHandlers, SessionHandlers
  <1>2. /\ Handled(ReqSignInRoutes[1]) /\ Handled(ReqSignInRoutes[2])
        /\ Handled(ReqSignInRoutes[3]) /\ Handled(ReqSignInRoutes[4])
        /\ Handled(ReqSignInRoutes[5]) /\ Handled(ReqSignInRoutes[6])
        /\ Handled(ReqSignInRoutes[7]) /\ Handled(ReqSignInRoutes[8])
        /\ Handled(ReqSignInRoutes[9]) /\ Handled(ReqSignInRoutes[10])
        /\ Handled(ReqSignInRoutes[11]) /\ Handled(ReqSignInRoutes[12])
        /\ Handled(ReqSignInRoutes[13]) /\ Handled(ReqSignInRoutes[14])
        /\ Handled(ReqSignInRoutes[15])
    BY <1>1, FitRoutes DEF ReqSignInRoutes, Levels
  <1>3. ReqSignInRoutes = [i \in 1 .. 15 |-> ReqSignInRoutes[i]]
    BY DEF ReqSignInRoutes
  <1>4. \A i \in 1 .. 15 : Handled(ReqSignInRoutes[i])
    BY <1>2
  <1> QED BY <1>3, <1>4, Rows DEF AllHandled

\* The routes of the keys and the users.
LEMMA UserRoutes == AllHandled(ReqUserRoutes)
  <1>1. /\ Fit(ReqKeyUsage, "user") /\ Fit(ReqListKeys, "user") /\ Fit(ReqCreateKey, "user")
        /\ Fit(ReqRevokeKey, "user") /\ Fit(ReqDeleteKey, "user")
        /\ Fit(ReqListUsers, "admin") /\ Fit(ReqCreateUser, "admin")
        /\ Fit(ReqGetUser, "admin") /\ Fit(ReqUpdateUser, "admin")
        /\ Fit(ReqDeleteUser, "admin")
    BY FitHandlers, ReadingHandlers, SettingsHandlers
  <1>2. /\ Handled(ReqUserRoutes[1]) /\ Handled(ReqUserRoutes[2]) /\ Handled(ReqUserRoutes[3])
        /\ Handled(ReqUserRoutes[4]) /\ Handled(ReqUserRoutes[5]) /\ Handled(ReqUserRoutes[6])
        /\ Handled(ReqUserRoutes[7]) /\ Handled(ReqUserRoutes[8]) /\ Handled(ReqUserRoutes[9])
        /\ Handled(ReqUserRoutes[10])
    BY <1>1, FitRoutes DEF ReqUserRoutes, Levels
  <1>3. ReqUserRoutes = [i \in 1 .. 10 |-> ReqUserRoutes[i]]
    BY DEF ReqUserRoutes
  <1>4. \A i \in 1 .. 10 : Handled(ReqUserRoutes[i])
    BY <1>2
  <1> QED BY <1>3, <1>4, Rows DEF AllHandled

\* The routes of the accounts.
LEMMA AccountRoutes == AllHandled(ReqAccountRoutes)
  <1>1. /\ Fit(ReqDiscover, "admin") /\ Fit(ReqCreateSelf, "admin")
        /\ Fit(ReqAccountNames, "user") /\ Fit(ReqListAccounts, "user")
        /\ Fit(ReqCreateAccount, "admin") /\ Fit(ReqSaveCredentials, "admin")
        /\ Fit(ReqTestCredentials, "admin") /\ Fit(ReqOverrides, "user")
        /\ Fit(ReqSaveOverride, "admin") /\ Fit(ReqUpdateAccount, "admin")
        /\ Fit(ReqDeleteOverride, "admin") /\ Fit(ReqDeleteAccount, "admin")
        /\ Fit(ReqGetAccount, "user")
    BY FitHandlers, ReadingHandlers, AccountHandlers
  <1>2. /\ Handled(ReqAccountRoutes[1]) /\ Handled(ReqAccountRoutes[2])
        /\ Handled(ReqAccountRoutes[3]) /\ Handled(ReqAccountRoutes[4])
        /\ Handled(ReqAccountRoutes[5]) /\ Handled(ReqAccountRoutes[6])
        /\ Handled(ReqAccountRoutes[7]) /\ Handled(ReqAccountRoutes[8])
        /\ Handled(ReqAccountRoutes[9]) /\ Handled(ReqAccountRoutes[10])
        /\ Handled(ReqAccountRoutes[11]) /\ Handled(ReqAccountRoutes[12])
        /\ Handled(ReqAccountRoutes[13])
    BY <1>1, FitRoutes DEF ReqAccountRoutes, Levels, ReqOverrideRoute
  <1>3. ReqAccountRoutes = [i \in 1 .. 13 |-> ReqAccountRoutes[i]]
    BY DEF ReqAccountRoutes
  <1>4. \A i \in 1 .. 13 : Handled(ReqAccountRoutes[i])
    BY <1>2
  <1> QED BY <1>3, <1>4, Rows DEF AllHandled

\* The routes of the groups and the inventory.
LEMMA GroupRoutes == AllHandled(ReqGroupRoutes)
  <1>1. /\ Fit(ReqListGroups, "user") /\ Fit(ReqCreateGroup, "admin")
        /\ Fit(ReqGetGroup, "user") /\ Fit(ReqUpdateGroup, "admin")
        /\ Fit(ReqDeleteGroup, "admin") /\ Fit(ReqInventory, "user")
        /\ Fit(ReqCoverage, "user")
    BY FitHandlers, ReadingHandlers, SettingsHandlers
  <1>2. /\ Handled(ReqGroupRoutes[1]) /\ Handled(ReqGroupRoutes[2])
        /\ Handled(ReqGroupRoutes[3]) /\ Handled(ReqGroupRoutes[4])
        /\ Handled(ReqGroupRoutes[5]) /\ Handled(ReqGroupRoutes[6])
        /\ Handled(ReqGroupRoutes[7])
    BY <1>1, FitRoutes DEF ReqGroupRoutes, Levels
  <1>3. ReqGroupRoutes = [i \in 1 .. 7 |-> ReqGroupRoutes[i]]
    BY DEF ReqGroupRoutes
  <1>4. \A i \in 1 .. 7 : Handled(ReqGroupRoutes[i])
    BY <1>2
  <1> QED BY <1>3, <1>4, Rows DEF AllHandled

\* The routes of the exchanges.
LEMMA ExchangeRoutes == AllHandled(ReqExchangeRoutes)
  <1>1. /\ Fit(ReqAzureRIs, "user") /\ Fit(ReqAzureOfferings, "user")
        /\ Fit(ReqAzureExchange, "user") /\ Fit(ReqConvertibles, "user")
        /\ Fit(ReqOfferings, "user") /\ Fit(ReqUtilization, "user") /\ Fit(ReqReshape, "user")
        /\ Fit(ReqQuote, "user") /\ Fit(ReqExchange, "user") /\ Fit(ReqExchangeConfig, "user")
        /\ Fit(ReqUpdateExchangeConfig, "user") /\ Fit(ReqExchangeHistory, "user")
        /\ Fit(ReqRejectExchange, "public")
    BY FitHandlers, ReadingHandlers, ExchangeHandlers, SettingsHandlers
  <1>2. /\ Handled(ReqExchangeRoutes[1]) /\ Handled(ReqExchangeRoutes[2])
        /\ Handled(ReqExchangeRoutes[3]) /\ Handled(ReqExchangeRoutes[4])
        /\ Handled(ReqExchangeRoutes[5]) /\ Handled(ReqExchangeRoutes[6])
        /\ Handled(ReqExchangeRoutes[7]) /\ Handled(ReqExchangeRoutes[8])
        /\ Handled(ReqExchangeRoutes[9]) /\ Handled(ReqExchangeRoutes[10])
        /\ Handled(ReqExchangeRoutes[11]) /\ Handled(ReqExchangeRoutes[12])
        /\ Handled(ReqExchangeRoutes[13]) /\ Handled(ReqExchangeRoutes[14])
    BY <1>1, FitRoutes, ApprovalRoute DEF ReqExchangeRoutes, Levels
  <1>3. ReqExchangeRoutes = [i \in 1 .. 14 |-> ReqExchangeRoutes[i]]
    BY DEF ReqExchangeRoutes
  <1>4. \A i \in 1 .. 14 : Handled(ReqExchangeRoutes[i])
    BY <1>2
  <1> QED BY <1>3, <1>4, Rows DEF AllHandled

\* The routes of the ladder, the registrations, and what is open to all.
LEMMA OtherRoutes == AllHandled(ReqOtherRoutes)
  <1>1. /\ Fit(ReqLadderConfigs, "user") /\ Fit(ReqPutLadder, "user")
        /\ Fit(ReqUnsubscribe, "public") /\ Fit(ReqRegister, "public")
        /\ Fit(ReqRegistrationStatus, "public") /\ Fit(ReqRegistrations, "admin")
        /\ Fit(ReqApproveRegistration, "admin") /\ Fit(ReqRejectRegistration, "admin")
        /\ Fit(ReqDeleteRegistration, "admin") /\ Fit(ReqRegistration, "admin")
        /\ Fit(ReqFederation, "user") /\ Fit(ReqHealth, "public") /\ Fit(ReqInfo, "public")
        /\ Fit(ReqDeployment, "user") /\ Fit(ReqVersion, "public") /\ Fit(ReqDocs, "public")
    BY FitHandlers, ReadingHandlers, AccountHandlers, SettingsHandlers
  <1>2. /\ Handled(ReqOtherRoutes[1]) /\ Handled(ReqOtherRoutes[2])
        /\ Handled(ReqOtherRoutes[3]) /\ Handled(ReqOtherRoutes[4])
        /\ Handled(ReqOtherRoutes[5]) /\ Handled(ReqOtherRoutes[6])
        /\ Handled(ReqOtherRoutes[7]) /\ Handled(ReqOtherRoutes[8])
        /\ Handled(ReqOtherRoutes[9]) /\ Handled(ReqOtherRoutes[10])
        /\ Handled(ReqOtherRoutes[11]) /\ Handled(ReqOtherRoutes[12])
        /\ Handled(ReqOtherRoutes[13]) /\ Handled(ReqOtherRoutes[14])
        /\ Handled(ReqOtherRoutes[15]) /\ Handled(ReqOtherRoutes[16])
        /\ Handled(ReqOtherRoutes[17]) /\ Handled(ReqOtherRoutes[18])
        /\ Handled(ReqOtherRoutes[19]) /\ Handled(ReqOtherRoutes[20])
        /\ Handled(ReqOtherRoutes[21])
    BY <1>1, FitRoutes DEF ReqOtherRoutes, Levels
  <1>3. ReqOtherRoutes = [i \in 1 .. 21 |-> ReqOtherRoutes[i]]
    BY DEF ReqOtherRoutes
  <1>4. \A i \in 1 .. 21 : Handled(ReqOtherRoutes[i])
    BY <1>2
  <1> QED BY <1>3, <1>4, Rows DEF AllHandled

\* Every route of the table is handled (registerRoutes).
LEMMA TableHandled == \A i \in DOMAIN ReqRoutes : Handled(ReqRoutes[i])
  <1>1. AllHandled(ReqEarlyRoutes)
    BY PageRoutes, PlanRoutes, PurchaseRoutes, HistoryRoutes, SignInRoutes, AllHandledJoin
       DEF ReqEarlyRoutes
  <1>2. AllHandled(ReqRoutes)
    BY <1>1, UserRoutes, AccountRoutes, GroupRoutes, ExchangeRoutes, OtherRoutes, AllHandledJoin
       DEF ReqRoutes
  <1> QED BY <1>2 DEF AllHandled, IsSteps

-----------------------------------------------------------------------------
(* The steps of a request.                                                     *)

\* Everything is written behind a check that the caller is an administrator.
BehindAdmin(s) ==
    \A i \in 1 .. Len(s) : Writes(s[i]) => \E j \in 1 .. i - 1 : AsksAdmin(s[j])

\* The orders ReqNothingHalf is about.
Whole(s) ==
    /\ ReqWays(ReqCreatePlanned) => Follows(s, "plan", "planned") /\ Follows(s, "planned", "plan")
    /\ ReqWays(ReqCreatePlan) => Follows(s, "members", "plan")
    /\ ReqWays(ReqApproveRegistration) =>
          /\ Follows(s, "account", "registration") /\ Follows(s, "link", "account")
          /\ Follows(s, "credential", "account") /\ Follows(s, "mail", "registration")
    /\ ReqWays(ReqSubmit) => Follows(s, "mail", "execution")
    /\ ReqWays(ReqRegister) => Follows(s, "mail", "registration")

\* Of the steps of the request, whatever its route.
ReqTaken ==
    LET level == ReqRoutes[reqRoute].level
    IN  /\ Safe(reqSteps, ReqLate)
        /\ level = "user" => Behind(reqSteps)
        /\ level = "admin" => BehindAdmin(reqSteps)
        /\ Whole(reqSteps)

\* What is there was written by a step that is done.
ReqDoneWritten ==
    \A row \in reqDone : \E j \in 1 .. Len(reqSteps) :
        j < reqAt /\ Writes(reqSteps[j]) /\ row \in reqSteps[j].rows

\* What a step that is done wrote is there, but for what the last one took back.
ReqWrittenDone ==
    \A j \in 1 .. Len(reqSteps) : j < reqAt /\ Firm(reqSteps[j]) =>
        \A row \in reqSteps[j].rows :
            \/ row \in reqDone
            \/ reqAns # {} /\ reqAt \in 1 .. Len(reqSteps) /\ row \in reqSteps[reqAt].undo

\* The caller passed every check behind it; a 4xx is of the step it is at.
ReqPassed ==
    \A j \in 1 .. Len(reqSteps) : j < reqAt /\ reqSteps[j].do = "who" =>
        ReqPasses(reqSteps[j].who, reqCaller)
ReqRefusedHere ==
    reqAns \cap (400 .. 499) # {} => reqAt \in 1 .. Len(reqSteps) /\ Refuses(reqSteps[reqAt])

ReqInv ==
    /\ reqRoute \in DOMAIN ReqRoutes /\ reqAt \in Nat \ {0}
    /\ ReqTaken /\ ReqDoneWritten /\ ReqWrittenDone /\ ReqPassed /\ ReqRefusedHere
    /\ reqLost \cap Decisions = {}

\* On the way in, and at the level of the route, nothing is written.
LEMMA WayInQuiet == \A r, c : Quiet(ReqWayIn(r, c)) /\ (r.level \in Levels => Quiet(ReqLevel(r)))
  <1> TAKE r, c
  <1>1. Quiet(<<>>)
    BY DEF Quiet, IsSteps
  <1>2. Quiet(ReqSize) /\ Quiet(ReqMedia)
    BY QuietSteps DEF ReqSize, ReqMedia
  <1>3. Quiet(ReqWayIn(r, c))
    BY <1>1, <1>2, Pieces, QuietJoin DEF ReqWayIn
  <1>4. r.level \in Levels => Quiet(ReqLevel(r))
    BY <1>1, Pieces DEF ReqLevel, Levels
  <1> QED BY <1>3, <1>4

\* Whatever a route for administrators writes, it writes behind that check.
LEMMA BehindTheAdmin ==
  ASSUME NEW p, NEW way, Quiet(p), IsSteps(way)
  PROVE  BehindAdmin(p \o ReqAdmin \o way)
  <1> DEFINE q == p \o ReqAdmin
  <1>1. Quiet(q) /\ IsSteps(p) /\ IsSteps(ReqAdmin)
    BY Pieces, QuietJoin DEF Quiet
  <1>2. \E j \in 1 .. Len(q) : AsksAdmin(q[j])
    <2>1. \E j \in 1 .. Len(ReqAdmin) : AsksAdmin(ReqAdmin[j])
      <3> DEFINE x == [ReqStep("who", {}, {}) EXCEPT !.who = "admin"]
      <3>1. AsksAdmin(x)
        BY DEF ReqStep, AsksAdmin
      <3> HIDE DEF x
      <3>2. \E j \in 1 .. Len(<<x>>) : AsksAdmin(<<x>>[j])
        BY <3>1, One
      <3> QED BY <3>2 DEF ReqAdmin, ReqWho, x
    <2>2. PICK j \in 1 .. Len(ReqAdmin) : AsksAdmin(ReqAdmin[j])
      BY <2>1
    <2>3. Len(p) + j \in 1 .. Len(q) /\ AsksAdmin(q[Len(p) + j])
      BY <1>1, <2>2, Joined
    <2> QED BY <2>3
  <1> HIDE DEF q
  <1>3. IsSteps(q) /\ Len(q) \in Nat
    BY <1>1, Joined DEF Quiet
  <1>4. ASSUME NEW i \in 1 .. Len(q \o way), Writes((q \o way)[i])
        PROVE  \E j \in 1 .. i - 1 : AsksAdmin((q \o way)[j])
    <2>1. PICK k \in 1 .. Len(way) : i = Len(q) + k
      BY <1>1, <1>3, <1>4, Place DEF Quiet
    <2>2. PICK j \in 1 .. Len(q) : AsksAdmin(q[j])
      BY <1>2
    <2>3. j \in 1 .. i - 1 /\ AsksAdmin((q \o way)[j])
      BY <1>3, <2>1, <2>2, Joined
    <2> QED BY <2>3
  <1> QED BY <1>4 DEF BehindAdmin, q

\* The way in does not change the order of what is written.
LEMMA WholeAfterQuiet == ASSUME NEW p, NEW way, Quiet(p), Whole(way) PROVE Whole(p \o way)
  <1>1. \A l, e : Follows(way, l, e) => Follows(p \o way, l, e)
    BY FollowRules
  <1> QED BY <1>1 DEF Whole

\* Every handler of the table writes in the order asked of it.
LEMMA WholeWays ==
  ASSUME reqRoute \in DOMAIN ReqRoutes
  PROVE  \A way \in ReqRoutes[reqRoute].ways : Whole(way)
  <1> DEFINE r == ReqRoutes[reqRoute]
  <1> SUFFICES ASSUME NEW way \in r.ways PROVE Whole(way)
    OBVIOUS
  <1>1. \A name : ReqWays(name) <=> name \in r.ways
    BY DEF ReqWays
  <1> HIDE DEF r
  <1>2. CASE \E w : r.ways = {w}
    <2>1. \A name : ReqWays(name) => name = way
      BY <1>1, <1>2
    <2> QED BY <2>1, OrderedHandlers DEF Whole
  <1>3. CASE \A w \in r.ways : Within(w, {"exchange"})
    <2>1. Within(way, {"exchange"})
      BY <1>3
    <2>2. \A l : l # "exchange" => Unwritten(way, l)
      BY <2>1 DEF Within, Unwritten
    <2>3. \A l, e : l # "exchange" => Follows(way, l, e)
      BY <2>2, FollowRules
    <2> QED BY <2>3 DEF Whole
  <1>4. Handled(r)
    BY TableHandled DEF r
  <1> QED BY <1>2, <1>3, <1>4 DEF Handled

\* A request that has not begun.
LEMMA ReqInitSound == ReqInit => ReqInv
  <1> SUFFICES ASSUME ReqInit PROVE ReqInv
    OBVIOUS
  <1> DEFINE r == ReqRoutes[reqRoute]
             p == ReqWayIn(r, reqCaller) \o ReqLevel(r)
  <1>1. PICK way \in r.ways : reqSteps = p \o way
    BY DEF ReqInit
  <1>2. Handled(r) /\ Whole(way)
    BY <1>1, TableHandled, WholeWays DEF ReqInit
  <1>3. ReqLate = LateOf(r.ways)
    BY DEF ReqLate, LateOf, ReqWays
  <1>4. Quiet(ReqWayIn(r, reqCaller)) /\ Quiet(p)
    BY <1>2, WayInQuiet, QuietJoin DEF Handled, Levels
  <1>5. Safe(way, ReqLate) /\ IsSteps(way)
    BY <1>2, <1>3, SafeRules DEF Handled
  <1>6. Safe(reqSteps, ReqLate)
    BY <1>1, <1>4, <1>5, SafeRules
  <1>7. r.level = "user" => Behind(reqSteps)
    BY <1>1, <1>2, <1>4, BehindQuiet, BehindJoin DEF Handled
  <1>8. r.level = "admin" => BehindAdmin(reqSteps)
    <2>1. r.level = "admin" => ReqLevel(r) = ReqAdmin
      BY DEF ReqLevel
    <2> QED BY <1>1, <1>4, <1>5, <2>1, BehindTheAdmin
  <1>9. Whole(reqSteps)
    BY <1>1, <1>2, <1>4, WholeAfterQuiet
  <1> HIDE DEF p
  <1>10. ReqTaken
    BY <1>6, <1>7, <1>8, <1>9 DEF ReqTaken
  <1>11. /\ reqAt = 1 /\ reqAns = {} /\ reqDone = {} /\ reqLost = {}
         /\ reqRoute \in DOMAIN ReqRoutes
    BY DEF ReqInit
  <1>12. \A j \in 1 .. Len(reqSteps) : ~(j < reqAt)
    BY <1>11
  <1> QED BY <1>10, <1>11, <1>12
          DEF ReqInv, ReqDoneWritten, ReqWrittenDone, ReqPassed, ReqRefusedHere

\* A step that goes on: what it asked for was there, what it writes is done.
LEMMA ReqGoesOn ==
  ASSUME ReqInv, reqAns = {}, reqAt <= Len(reqSteps), reqAt' = reqAt + 1, UNCHANGED reqAns,
         UNCHANGED <<reqRoute, reqCaller, reqSteps>>,
         reqDone \subseteq reqDone', reqDone' \subseteq reqDone \cup ReqNow.rows,
         reqDone' # reqDone => Writes(ReqNow),
         Firm(ReqNow) => ReqNow.rows \subseteq reqDone',
         ReqNow.do = "who" => ReqPasses(ReqNow.who, reqCaller),
         reqLost' \cap Decisions = {}
  PROVE  ReqInv'
  <1>1. /\ reqAt \in Nat \ {0} /\ ReqTaken /\ ReqDoneWritten /\ ReqWrittenDone /\ ReqPassed
        /\ IsSteps(reqSteps)
    BY SafeRules DEF ReqInv, ReqTaken
  <1>2. Len(reqSteps) \in Nat
    BY <1>1 DEF IsSteps
  <1>3. reqAt \in 1 .. Len(reqSteps) /\ reqAt' \in Nat \ {0} /\ reqAns' = {}
    BY <1>1, <1>2
  <1>4. \A j \in 1 .. Len(reqSteps) : j < reqAt' <=> j < reqAt \/ j = reqAt
    BY <1>1
  <1>5. ReqTaken'
    BY <1>1 DEF ReqTaken, Whole, ReqWays, ReqLate
  <1>6. ReqDoneWritten'
    <2> SUFFICES ASSUME NEW row \in reqDone'
        PROVE  \E j \in 1 .. Len(reqSteps) : j < reqAt' /\ Writes(reqSteps[j]) /\ row \in reqSteps[j].rows
      BY DEF ReqDoneWritten
    <2>1. CASE row \in reqDone
      BY <1>1, <1>4, <2>1 DEF ReqDoneWritten
    <2>2. CASE row \notin reqDone
      BY <1>3, <1>4, <2>2 DEF ReqNow
    <2> QED BY <2>1, <2>2
  <1>7. ReqWrittenDone'
    <2> SUFFICES ASSUME NEW j \in 1 .. Len(reqSteps), j < reqAt', Firm(reqSteps[j]),
                        NEW row \in reqSteps[j].rows
        PROVE  row \in reqDone'
      BY DEF ReqWrittenDone
    <2>1. CASE j < reqAt
      BY <1>1, <2>1 DEF ReqWrittenDone
    <2>2. CASE j = reqAt
      BY <2>2 DEF ReqNow
    <2> QED BY <1>4, <2>1, <2>2
  <1>8. ReqPassed'
    BY <1>1, <1>4 DEF ReqPassed, ReqNow
  <1>9. ReqRefusedHere'
    BY <1>3 DEF ReqRefusedHere
  <1> QED BY <1>3, <1>5, <1>6, <1>7, <1>8, <1>9 DEF ReqInv

\* A step at which it ends, with rows taken back or not.
LEMMA ReqEnds ==
  ASSUME ReqInv, reqAns = {}, reqAt <= Len(reqSteps),
         UNCHANGED <<reqRoute, reqCaller, reqSteps>>,
         NEW ans, ReqEnd(ans), ans \in 400 .. 499 => Refuses(ReqNow)
  PROVE  ReqInv'
  <1>1. /\ reqAt \in Nat \ {0} /\ ReqTaken /\ ReqDoneWritten /\ ReqWrittenDone /\ ReqPassed
        /\ IsSteps(reqSteps) /\ reqLost \cap Decisions = {}
    BY SafeRules DEF ReqInv, ReqTaken
  <1>2. reqAt \in 1 .. Len(reqSteps)
    BY <1>1 DEF IsSteps
  <1>3. /\ reqAt' = reqAt /\ reqLost' = reqLost /\ reqAns' = {ans}
        /\ reqDone' \in {reqDone, reqDone \ reqSteps[reqAt].undo}
    BY DEF ReqEnd, ReqNow
  <1>4. ReqTaken'
    BY <1>1 DEF ReqTaken, Whole, ReqWays, ReqLate
  <1>5. ReqDoneWritten'
    BY <1>1, <1>3 DEF ReqDoneWritten
  <1>6. ReqWrittenDone'
    <2> SUFFICES ASSUME NEW j \in 1 .. Len(reqSteps), j < reqAt, Firm(reqSteps[j]),
                        NEW row \in reqSteps[j].rows
        PROVE  row \in reqDone' \/ row \in reqSteps[reqAt].undo
      BY <1>2, <1>3 DEF ReqWrittenDone
    <2>1. row \in reqDone
      BY <1>1 DEF ReqWrittenDone
    <2> QED BY <1>3, <2>1
  <1>7. ReqPassed' /\ ReqRefusedHere'
    BY <1>1, <1>2, <1>3 DEF ReqPassed, ReqRefusedHere, ReqNow
  <1> QED BY <1>1, <1>3, <1>4, <1>5, <1>6, <1>7 DEF ReqInv

\* A step that answers 4xx is one that refuses.
LEMMA RefusingCodes ==
  \A x, code :
     code \in x.codes \cup {500} /\ code \in 400 .. 499 /\ x.do \in {"no", "read", "put", "save", "claim"} =>
       Refuses(x)
  <1> SUFFICES ASSUME NEW x, NEW code, code \in x.codes \cup {500}, code \in 400 .. 499,
                      x.do \in {"no", "read", "put", "save", "claim"}
      PROVE  Refuses(x)
    OBVIOUS
  <1>1. code \in x.codes
    OBVIOUS
  <1> QED BY <1>1 DEF Refuses

\* A step of a request keeps the invariant.
LEMMA ReqStepSound == ReqInv /\ [ReqNext]_reqVars => ReqInv'
  <1> SUFFICES ASSUME ReqInv, [ReqNext]_reqVars PROVE ReqInv'
    OBVIOUS
  <1>1. CASE UNCHANGED reqVars
    BY <1>1 DEF reqVars, ReqInv, ReqTaken, Whole, ReqWays, ReqLate, ReqDoneWritten,
                ReqWrittenDone, ReqPassed, ReqRefusedHere
  <1>2. CASE ReqNext
    <2>1. reqAns = {} /\ UNCHANGED <<reqRoute, reqCaller, reqSteps>>
      BY <1>2 DEF ReqNext, ReqRuns
    <2>2. reqLost \cap Decisions = {} /\ ReqTaken
      BY DEF ReqInv
    <2>3. ASSUME NEW code \in ReqNow.codes \cup {500}, ReqEnd(code),
                 ReqNow.do \in {"no", "read", "put", "save", "claim"}, reqAt <= Len(reqSteps)
          PROVE  ReqInv'
      <3>1. code \in 400 .. 499 => Refuses(ReqNow)
        BY <2>3, RefusingCodes
      <3> QED BY <2>1, <2>3, <3>1, ReqEnds
    <2>4. CASE reqAt <= Len(reqSteps) /\ ReqCheck
      <3>1. ReqNow.do = "no"
        BY <2>4 DEF ReqCheck
      <3>2. CASE ReqGo(reqDone) /\ UNCHANGED <<reqHeld, reqStale, reqLost>>
        BY <2>1, <2>2, <2>4, <3>1, <3>2, ReqGoesOn DEF ReqGo, Writes, Firm
      <3>3. CASE \E code \in ReqNow.codes : ReqEnd(code)
        BY <2>3, <2>4, <3>1, <3>3
      <3> QED BY <2>4, <3>2, <3>3 DEF ReqCheck
    <2>5. CASE reqAt <= Len(reqSteps) /\ ReqAsk
      <3>1. ReqNow.do = "who" /\ Refuses(ReqNow)
        BY <2>5 DEF ReqAsk, Refuses
      <3>2. CASE ReqPasses(ReqNow.who, reqCaller) /\ ReqGo(reqDone) /\ UNCHANGED <<reqHeld, reqStale, reqLost>>
        BY <2>1, <2>2, <2>5, <3>1, <3>2, ReqGoesOn DEF ReqGo, Writes, Firm
      <3>3. CASE \E code : ReqEnd(code)
        BY <2>1, <2>5, <3>1, <3>3, ReqEnds
      <3> QED BY <2>5, <3>2, <3>3 DEF ReqAsk
    <2>6. CASE reqAt <= Len(reqSteps) /\ ReqFetch
      <3>1. ReqNow.do \in {"read", "peek"}
        BY <2>6 DEF ReqFetch
      <3>2. CASE ReqGo(reqDone) /\ UNCHANGED reqLost
        BY <2>1, <2>2, <2>6, <3>1, <3>2, ReqGoesOn DEF ReqGo, Writes, Firm
      <3>3. CASE ReqNow.do = "read" /\ \E code \in ReqNow.codes \cup {500} : ReqEnd(code)
        BY <2>3, <2>6, <3>3
      <3> QED BY <2>6, <3>2, <3>3 DEF ReqFetch
    <2>7. CASE reqAt <= Len(reqSteps) /\ ReqWrite
      <3>1. ReqNow.do \in {"put", "save"}
        BY <2>7 DEF ReqWrite
      <3>2. CASE /\ ReqGo(reqDone \cup ReqNow.rows)
                 /\ reqLost' = IF ReqNow.do = "save" THEN reqLost \cup (ReqNow.rows \cap reqStale) ELSE reqLost
        <4>1. IsSteps(reqSteps) /\ reqAt \in 1 .. Len(reqSteps)
          BY <2>2, <2>7, SafeRules DEF ReqTaken, IsSteps, ReqInv
        <4>2. ReqNow.do = "save" => ReqNow.rows \cap Decisions = {}
          BY <2>2, <4>1 DEF ReqTaken, Safe, Keeps, ReqNow
        <4>3. reqLost' \cap Decisions = {}
          BY <2>2, <3>2, <4>2
        <4> QED BY <2>1, <2>7, <3>1, <3>2, <4>3, ReqGoesOn DEF ReqGo, Writes, Firm
      <3>3. CASE \E code \in ReqNow.codes \cup {500} : ReqEnd(code)
        BY <2>3, <2>7, <3>1, <3>3
      <3> QED BY <2>7, <3>2, <3>3 DEF ReqWrite
    <2>8. CASE reqAt <= Len(reqSteps) /\ ReqTake
      <3>1. ReqNow.do = "claim"
        BY <2>8 DEF ReqTake
      <3>2. CASE ReqGo(reqDone \cup ReqNow.rows) /\ UNCHANGED <<reqHeld, reqStale, reqLost>>
        BY <2>1, <2>2, <2>8, <3>1, <3>2, ReqGoesOn DEF ReqGo, Writes, Firm
      <3>3. CASE \E code \in ReqNow.codes \cup {500} : ReqEnd(code)
        BY <2>3, <2>8, <3>1, <3>3
      <3> QED BY <2>8, <3>2, <3>3 DEF ReqTake
    <2>9. CASE reqAt <= Len(reqSteps) /\ ReqAttempt
      <3>1. ReqNow.do = "try" /\ UNCHANGED reqLost
        BY <2>9 DEF ReqAttempt
      <3>2. PICK done \in {reqDone, reqDone \cup ReqNow.rows} : ReqGo(done)
        BY <2>9 DEF ReqAttempt
      <3> QED BY <2>1, <2>2, <2>9, <3>1, <3>2, ReqGoesOn DEF ReqGo, Writes, Firm
    <2>10. CASE UNCHANGED <<reqAt, reqDone, reqLost>> /\ reqAns' \cap (400 .. 499) = {} /\ (reqAns' = reqAns \/ reqAns' # {})
      <3>1. ReqTaken'
        BY <2>1, <2>2 DEF ReqTaken, Whole, ReqWays, ReqLate
      <3>2. ReqWrittenDone'
        BY <2>1, <2>10 DEF ReqInv, ReqWrittenDone
      <3> QED BY <2>1, <2>2, <2>10, <3>1, <3>2
              DEF ReqInv, ReqDoneWritten, ReqPassed, ReqRefusedHere
    <2>11. CASE ReqAnswer \/ ReqCrash
      <3>1. reqAns' = {200} \/ reqAns' = {1}
        BY <2>11 DEF ReqAnswer, ReqCrash
      <3>2. reqAns' \cap (400 .. 499) = {} /\ reqAns' # {}
        BY <3>1
      <3> QED BY <2>10, <2>11, <3>2 DEF ReqAnswer, ReqCrash
    <2>12. CASE ReqOther
      BY <2>1, <2>10, <2>12 DEF ReqOther
    <2> QED BY <1>2, <2>4, <2>5, <2>6, <2>7, <2>8, <2>9, <2>10, <2>11, <2>12 DEF ReqNext
  <1> QED BY <1>1, <1>2

\* What the invariant is for.
LEMMA ReqInvSound == ReqInv => ReqSound /\ ReqWrittenByRight
  <1> SUFFICES ASSUME ReqInv PROVE ReqSound /\ ReqWrittenByRight
    OBVIOUS
  <1>1. /\ reqAt \in Nat \ {0} /\ ReqTaken /\ ReqDoneWritten /\ ReqWrittenDone /\ ReqPassed
        /\ ReqRefusedHere /\ IsSteps(reqSteps)
    BY SafeRules DEF ReqInv, ReqTaken
  <1>2. ReqRefusedChangesNothing
    <2> SUFFICES ASSUME reqAns \cap (400 .. 499) # {}, NEW row \in reqDone PROVE row \in ReqLate
      BY DEF ReqRefusedChangesNothing
    <2>1. reqAt \in 1 .. Len(reqSteps) /\ Refuses(reqSteps[reqAt])
      BY <1>1 DEF ReqRefusedHere
    <2>2. PICK j \in 1 .. Len(reqSteps) : j < reqAt /\ Writes(reqSteps[j]) /\ row \in reqSteps[j].rows
      BY <1>1 DEF ReqDoneWritten
    <2> QED BY <1>1, <2>1, <2>2 DEF ReqTaken, Safe, Tame
  <1>3. ReqNoDecisionLost
    BY DEF ReqInv, ReqNoDecisionLost, Decisions
  <1>4. ASSUME NEW l, NEW e, Follows(reqSteps, l, e)
        PROVE  ReqOrder(l, e)
    <2> SUFFICES ASSUME l \in reqDone PROVE e \in reqDone
      BY DEF ReqOrder
    <2>1. PICK i \in 1 .. Len(reqSteps) : i < reqAt /\ Writes(reqSteps[i]) /\ l \in reqSteps[i].rows
      BY <1>1 DEF ReqDoneWritten
    <2>2. PICK j \in 1 .. i : Firm(reqSteps[j]) /\ e \in reqSteps[j].rows
      BY <1>4, <2>1 DEF Follows, Preceded
    <2>3. j \in 1 .. Len(reqSteps) /\ j < reqAt
      BY <1>1, <2>1
    <2>4. reqAt \in 1 .. Len(reqSteps) => e \notin reqSteps[reqAt].undo
      BY <1>4, <2>1 DEF Follows, Leaves
    <2> QED BY <1>1, <2>2, <2>3, <2>4 DEF ReqWrittenDone
  <1>5. ReqNothingHalf
    BY <1>1, <1>4 DEF ReqNothingHalf, ReqTaken, Whole, ReqOrder
  <1>6. ReqWrittenByRight
    <2> DEFINE r == ReqRoutes[reqRoute]
               c == reqCaller
    <2>1. ASSUME r.level = "user", ~ReqCanDo(c, FALSE), NEW row \in reqDone
          PROVE  row \in {"user", "session"}
      <3>1. PICK i \in 1 .. Len(reqSteps) : i < reqAt /\ Writes(reqSteps[i]) /\ row \in reqSteps[i].rows
        BY <1>1 DEF ReqDoneWritten
      <3>2. ASSUME NEW j \in 1 .. i - 1, AsksRight(reqSteps[j])
            PROVE  FALSE
        <4>1. j \in 1 .. Len(reqSteps) /\ j < reqAt
          BY <1>1, <3>1
        <4>2. ReqPasses(reqSteps[j].who, c) /\ reqSteps[j].who \in {"verb", "carved", "admin"}
          BY <1>1, <3>2, <4>1 DEF ReqPassed, AsksRight
        <4> QED BY <2>1, <4>2 DEF ReqPasses, ReqCanDo
      <3> QED BY <1>1, <2>1, <3>1, <3>2 DEF ReqTaken, Behind, Own
    <2>2. ASSUME r.level = "admin", ~ReqPasses("admin", c), NEW row \in reqDone
          PROVE  FALSE
      <3>1. PICK i \in 1 .. Len(reqSteps) : i < reqAt /\ Writes(reqSteps[i])
        BY <1>1 DEF ReqDoneWritten
      <3>2. PICK j \in 1 .. i - 1 : AsksAdmin(reqSteps[j])
        BY <1>1, <2>2, <3>1 DEF ReqTaken, BehindAdmin
      <3>3. j \in 1 .. Len(reqSteps) /\ j < reqAt
        BY <1>1, <3>1
      <3> QED BY <1>1, <2>2, <3>2, <3>3 DEF ReqPassed, AsksAdmin
    <2> QED BY <2>1, <2>2 DEF ReqWrittenByRight
  <1> QED BY <1>2, <1>3, <1>5, <1>6 DEF ReqSound

\* However a request ends - refused, failed, answered or with the server gone -
\* what it has written is whole, a 4xx has changed nothing but what the handlers of
\* plans, registrations, deletions and listings write early, no decision is saved
\* over, and everything is written behind the right that the level asks for
\* (registerRoutes, requirePermission, createPlannedPurchases, createPlan,
\* approveRegistration).
THEOREM RequestsWhole == ReqSpec => [](ReqSound /\ ReqWrittenByRight)
  <1> QED BY ReqInitSound, ReqStepSound, ReqInvSound, PTL DEF ReqSpec

-----------------------------------------------------------------------------
(* The table: each route is the first for a path of its own, so that what is    *)
(* registered is served, and a public route is one that needs no principal.     *)
(* Rows are told apart by their methods and by the words of their paths.        *)

\* Two sequences with the same words are the same.
LEMMA SameWords ==
  ASSUME NEW S, NEW s \in Seq(S), NEW t \in Seq(S), Len(s) = Len(t),
         \A i \in 1 .. Len(s) : s[i] = t[i]
  PROVE  s = t
  OBVIOUS

\* A path of two words and one more, written out.
LEMMA Spell21 == \A a, b, c : <<a, b>> \o <<c>> = <<a, b, c>>
  <1> TAKE a, b, c
  <1> DEFINE s == <<a, b>> \o <<c>>
             t == <<a, b, c>>
             S == {a, b, c}
  <1>1. s \in Seq(S) /\ t \in Seq(S)
    OBVIOUS
  <1>2. Len(s) = 3 /\ Len(t) = 3
    OBVIOUS
  <1>3. s[1] = t[1] /\ s[2] = t[2] /\ s[3] = t[3]
    OBVIOUS
  <1> HIDE DEF s, t, S
  <1>4. s = t
    BY <1>1, <1>2, <1>3, SameWords
  <1> QED BY <1>4 DEF s, t

\* Two words and two.
LEMMA Spell22 == \A a, b, c, d : <<a, b>> \o <<c, d>> = <<a, b, c, d>>
  <1> TAKE a, b, c, d
  <1> DEFINE s == <<a, b>> \o <<c, d>>
             t == <<a, b, c, d>>
             S == {a, b, c, d}
  <1>1. s \in Seq(S) /\ t \in Seq(S)
    OBVIOUS
  <1>2. Len(s) = 4 /\ Len(t) = 4
    OBVIOUS
  <1>3. s[1] = t[1] /\ s[2] = t[2] /\ s[3] = t[3] /\ s[4] = t[4]
    OBVIOUS
  <1> HIDE DEF s, t, S
  <1>4. s = t
    BY <1>1, <1>2, <1>3, SameWords
  <1> QED BY <1>4 DEF s, t

\* Three words and one.
LEMMA Spell31 == \A a, b, c, d : <<a, b, c>> \o <<d>> = <<a, b, c, d>>
  <1> TAKE a, b, c, d
  <1> DEFINE s == <<a, b, c>> \o <<d>>
             t == <<a, b, c, d>>
             S == {a, b, c, d}
  <1>1. s \in Seq(S) /\ t \in Seq(S)
    OBVIOUS
  <1>2. Len(s) = 4 /\ Len(t) = 4
    OBVIOUS
  <1>3. s[1] = t[1] /\ s[2] = t[2] /\ s[3] = t[3] /\ s[4] = t[4]
    OBVIOUS
  <1> HIDE DEF s, t, S
  <1>4. s = t
    BY <1>1, <1>2, <1>3, SameWords
  <1> QED BY <1>4 DEF s, t

\* Three words and two.
LEMMA Spell32 == \A a, b, c, d, e : <<a, b, c>> \o <<d, e>> = <<a, b, c, d, e>>
  <1> TAKE a, b, c, d, e
  <1> DEFINE s == <<a, b, c>> \o <<d, e>>
             t == <<a, b, c, d, e>>
             S == {a, b, c, d, e}
  <1>1. s \in Seq(S) /\ t \in Seq(S)
    OBVIOUS
  <1>2. Len(s) = 5 /\ Len(t) = 5
    OBVIOUS
  <1>3. s[1] = t[1] /\ s[2] = t[2] /\ s[3] = t[3] /\ s[4] = t[4] /\ s[5] = t[5]
    OBVIOUS
  <1> HIDE DEF s, t, S
  <1>4. s = t
    BY <1>1, <1>2, <1>3, SameWords
  <1> QED BY <1>4 DEF s, t

\* Four words and one.
LEMMA Spell41 == \A a, b, c, d, e : <<a, b, c, d>> \o <<e>> = <<a, b, c, d, e>>
  <1> TAKE a, b, c, d, e
  <1> DEFINE s == <<a, b, c, d>> \o <<e>>
             t == <<a, b, c, d, e>>
             S == {a, b, c, d, e}
  <1>1. s \in Seq(S) /\ t \in Seq(S)
    OBVIOUS
  <1>2. Len(s) = 5 /\ Len(t) = 5
    OBVIOUS
  <1>3. s[1] = t[1] /\ s[2] = t[2] /\ s[3] = t[3] /\ s[4] = t[4] /\ s[5] = t[5]
    OBVIOUS
  <1> HIDE DEF s, t, S
  <1>4. s = t
    BY <1>1, <1>2, <1>3, SameWords
  <1> QED BY <1>4 DEF s, t

\* Nothing more.
LEMMA SpellEmpty ==
  /\ \A a, b, c : <<a, b, c>> \o <<>> = <<a, b, c>>
  /\ \A a, b, c, d : <<a, b, c, d>> \o <<>> = <<a, b, c, d>>
  OBVIOUS

\* A row is not for a path: another method, fewer words than it has or other ones.
Apart(r, m, path) ==
    \/ r.m \notin {"any", m}
    \/ Len(path) < Len(r.pre)
    \/ r.kind = "exact" /\ Len(path) # Len(r.pre)
    \/ r.kind \in {"under", "override"} /\ Len(path) = Len(r.pre)
    \/ r.kind = "override" /\ Len(path) < Len(r.pre) + 3
    \/ Len(r.pre) >= 1 /\ path[1] # r.pre[1]
    \/ Len(r.pre) >= 2 /\ path[2] # r.pre[2]
    \/ Len(r.pre) >= 3 /\ path[3] # r.pre[3]
    \/ Len(r.pre) >= 4 /\ path[4] # r.pre[4]
    \/ r.kind = "under" /\ Len(r.suf) >= 1 /\ path[Len(path)] # r.suf[Len(r.suf)]

\* A row as its constructors make it.
Formed(r) ==
    /\ r.kind \in {"exact", "root", "under", "override"}
    /\ IsSteps(r.pre) /\ IsSteps(r.suf) /\ IsSteps(ReqPathOf(r))
    /\ r.kind = "override" => Len(r.pre) = 2 /\ Len(r.suf) = 2

\* What a prefix and a suffix have in common with the path.
LEMMA SharedWords ==
  ASSUME NEW s, NEW t, IsSteps(s), IsSteps(t)
  PROVE  /\ IsPrefix(s, t) => Len(s) <= Len(t) /\ \A k \in 1 .. Len(s) : s[k] = t[k]
         /\ IsSuffix(s, t) /\ Len(s) >= 1 => Len(t) >= 1 /\ s[Len(s)] = t[Len(t)]
  <1>1. PICK S : s \in Seq(S) /\ t \in Seq(S)
    BY Together
  <1>2. ASSUME NEW u \in Seq(S), NEW v \in Seq(S), IsPrefix(u, v)
        PROVE  Len(u) <= Len(v) /\ \A k \in 1 .. Len(u) : u[k] = v[k]
    <2>1. Len(u) \in Nat /\ Len(v) \in Nat
      OBVIOUS
    <2>2. Len(u) <= Len(v) /\ SubSeq(u, 1, Len(u)) = SubSeq(v, 1, Len(u))
      BY <1>2 DEF IsPrefix
    <2>3. ASSUME NEW k \in 1 .. Len(u)
          PROVE  SubSeq(u, 1, Len(u))[k] = u[k] /\ SubSeq(v, 1, Len(u))[k] = v[k]
      BY <2>1, <2>2
    <2> QED BY <2>2, <2>3
  <1>3. ASSUME NEW u \in Seq(S)
        PROVE  Reverse(u) \in Seq(S) /\ Len(Reverse(u)) = Len(u)
               /\ (Len(u) >= 1 => Reverse(u)[1] = u[Len(u)])
    BY DEF Reverse
  <1>4. ASSUME IsSuffix(s, t), Len(s) >= 1 PROVE Len(t) >= 1 /\ s[Len(s)] = t[Len(t)]
    <2>1. IsPrefix(Reverse(s), Reverse(t))
      BY <1>4 DEF IsSuffix
    <2>2. Len(s) <= Len(t) /\ Reverse(s)[1] = Reverse(t)[1]
      <3>1. Reverse(s) \in Seq(S) /\ Reverse(t) \in Seq(S)
        BY <1>1, <1>3
      <3>2. Len(Reverse(s)) <= Len(Reverse(t)) /\ \A k \in 1 .. Len(Reverse(s)) : Reverse(s)[k] = Reverse(t)[k]
        BY <1>2, <2>1, <3>1
      <3>3. Len(Reverse(s)) = Len(s) /\ Len(Reverse(t)) = Len(t) /\ Len(s) \in Nat /\ Len(t) \in Nat
        BY <1>1, <1>3
      <3> QED BY <1>4, <3>2, <3>3
    <2>3. Len(t) >= 1
      BY <1>1, <1>4, <2>2
    <2> QED BY <1>1, <1>3, <1>4, <2>2, <2>3
  <1> QED BY <1>1, <1>2, <1>4

\* Such a row does not match (matches).
LEMMA ApartMisses ==
  ASSUME NEW r, NEW m, NEW path, Formed(r), IsSteps(path), Apart(r, m, path)
  PROVE  ~ReqMatches(r, m, path)
  <1> SUFFICES ASSUME ReqMatches(r, m, path) PROVE FALSE
    OBVIOUS
  <1>1. Len(path) \in Nat /\ Len(r.pre) \in Nat /\ Len(r.suf) \in Nat
    BY DEF Formed, IsSteps
  <1>2. r.m \in {"any", m}
    BY DEF ReqMatches
  <1>3. CASE r.kind = "exact"
    <2>1. path = r.pre
      BY <1>3 DEF ReqMatches
    <2> QED BY <1>1, <1>2, <1>3, <2>1 DEF Apart
  <1>4. CASE r.kind = "root"
    <2>1. IsPrefix(r.pre, path)
      BY <1>4 DEF ReqMatches
    <2>2. Len(r.pre) <= Len(path) /\ \A k \in 1 .. Len(r.pre) : r.pre[k] = path[k]
      BY <2>1, SharedWords DEF Formed
    <2> QED BY <1>1, <1>2, <1>4, <2>2 DEF Apart
  <1>5. CASE r.kind = "under"
    <2>1. IsPrefix(r.pre, path) /\ r.pre # path /\ IsSuffix(r.suf, path)
      BY <1>5 DEF ReqMatches, IsStrictPrefix
    <2>2. Len(r.pre) <= Len(path) /\ \A k \in 1 .. Len(r.pre) : r.pre[k] = path[k]
      BY <2>1, SharedWords DEF Formed
    <2>3. Len(r.suf) >= 1 => r.suf[Len(r.suf)] = path[Len(path)]
      BY <2>1, SharedWords DEF Formed
    <2>4. Len(r.pre) # Len(path)
      <3>1. PICK S : r.pre \in Seq(S) /\ path \in Seq(S)
        BY Together DEF Formed
      <3> QED BY <2>1, <2>2, <3>1, SameWords
    <2> QED BY <1>1, <1>2, <1>5, <2>2, <2>3, <2>4 DEF Apart
  <1>6. CASE r.kind = "override"
    <2>1. IsPrefix(r.pre, path) /\ \E i \in Len(r.pre) + 2 .. Len(path) - 1 : path[i] = r.suf[1]
      BY <1>6 DEF ReqMatches, IsStrictPrefix
    <2>2. Len(r.pre) <= Len(path) /\ \A k \in 1 .. Len(r.pre) : r.pre[k] = path[k]
      BY <2>1, SharedWords DEF Formed
    <2>3. Len(r.pre) + 3 <= Len(path)
      BY <1>1, <2>1
    <2> QED BY <1>1, <1>2, <1>6, <2>2, <2>3 DEF Apart
  <1> QED BY <1>3, <1>4, <1>5, <1>6 DEF Formed

\* A row matches the path that is made of it.
LEMMA OwnPath ==
  ASSUME NEW r, Formed(r)
  PROVE  ReqMatches(r, r.m, ReqPathOf(r))
  <1> DEFINE pre == r.pre
             suf == r.suf
             path == ReqPath(pre, suf)
  <1>1. PICK S : pre \in Seq(S) /\ suf \in Seq(S)
    BY Together DEF Formed
  <1>2. DEFINE W == S \cup {ReqSomeId}
  <1>3. /\ pre \in Seq(W) /\ suf \in Seq(W) /\ <<ReqSomeId>> \in Seq(W) /\ path \in Seq(W)
        /\ Len(path) = Len(pre) + 1 + Len(suf) /\ Len(pre) \in Nat /\ Len(suf) \in Nat
        /\ \A k \in 1 .. Len(pre) : path[k] = pre[k]
        /\ \A k \in 1 .. Len(suf) : path[Len(pre) + 1 + k] = suf[k]
    <2> DEFINE mid == pre \o <<ReqSomeId>>
    <2>1. pre \in Seq(W) /\ suf \in Seq(W) /\ <<ReqSomeId>> \in Seq(W)
      BY <1>1
    <2>2. Len(pre) \in Nat /\ Len(suf) \in Nat
      BY <1>1
    <2> HIDE DEF pre, suf, W
    <2>3. /\ mid \in Seq(W) /\ Len(mid) = Len(pre) + 1
          /\ \A k \in 1 .. Len(pre) : mid[k] = pre[k]
      BY <2>1, <2>2
    <2>4. path = mid \o suf
      BY Zenon DEF ReqPath
    <2> HIDE DEF mid, path
    <2>5. path \in Seq(W) /\ Len(path) = Len(mid) + Len(suf)
      <3>1. mid \o suf \in Seq(W) /\ Len(mid \o suf) = Len(mid) + Len(suf)
        BY <2>1, <2>3
      <3> QED BY <2>4, <3>1, Zenon
    <2>6. /\ \A k \in 1 .. Len(mid) : path[k] = mid[k]
          /\ \A k \in 1 .. Len(suf) : path[Len(mid) + k] = suf[k]
      BY <2>1, <2>2, <2>3, <2>4
    <2>7. \A k \in 1 .. Len(pre) : path[k] = pre[k]
      BY <2>2, <2>3, <2>6
    <2> QED BY <2>1, <2>2, <2>3, <2>5, <2>6, <2>7
  <1> HIDE DEF path, pre, suf, W
  <1>4. IsPrefix(pre, path) /\ IsPrefix(pre, pre)
    <2>1. SubSeq(pre, 1, Len(pre)) = SubSeq(path, 1, Len(pre))
      BY <1>3
    <2> QED BY <1>3, <2>1 DEF IsPrefix
  <1>5. IsStrictPrefix(pre, path)
    BY <1>3, <1>4 DEF IsStrictPrefix
  <1>6. IsSuffix(suf, path)
    <2> DEFINE u == Reverse(suf)
               v == Reverse(path)
    <2>1. u \in Seq(W) /\ v \in Seq(W) /\ Len(u) = Len(suf) /\ Len(v) = Len(path)
      BY <1>3 DEF Reverse
    <2>2. \A k \in 1 .. Len(suf) : u[k] = suf[Len(suf) - k + 1] /\ v[k] = path[Len(path) - k + 1]
      BY <1>3 DEF Reverse
    <2>3. ASSUME NEW k \in 1 .. Len(suf) PROVE u[k] = v[k]
      <3>1. Len(suf) - k + 1 \in 1 .. Len(suf) /\ Len(path) - k + 1 = Len(pre) + 1 + (Len(suf) - k + 1)
        BY <1>3
      <3> QED BY <1>3, <2>2, <3>1
    <2> HIDE DEF u, v
    <2>4. SubSeq(u, 1, Len(u)) = SubSeq(v, 1, Len(u))
      BY <1>3, <2>1, <2>3
    <2>5. IsPrefix(u, v)
      BY <1>3, <2>1, <2>4 DEF IsPrefix
    <2> QED BY <2>5 DEF IsSuffix, u, v
  <1>7. CASE r.kind \in {"exact", "root"}
    BY <1>4, <1>7 DEF ReqMatches, ReqPathOf, pre
  <1>8. CASE r.kind = "under"
    <2>1. ReqPathOf(r) = path
      BY <1>8 DEF ReqPathOf, path, pre, suf
    <2> QED BY <1>5, <1>6, <1>8, <2>1 DEF ReqMatches, pre, suf
  <1>9. CASE r.kind = "override"
    <2>1. ReqPathOf(r) = path
      BY <1>9 DEF ReqPathOf, path, pre, suf
    <2>2. Len(pre) = 2 /\ Len(suf) = 2
      BY <1>9 DEF Formed, pre, suf
    <2>3. 4 \in Len(pre) + 2 .. Len(path) - 1 /\ path[4] = suf[1]
      BY <1>3, <2>2
    <2> QED BY <1>5, <1>9, <2>1, <2>3 DEF ReqMatches, pre, suf
  <1> QED BY <1>7, <1>8, <1>9 DEF Formed

\* The rows are well made, and none before one is for the path of that one.
InOrder(g) ==
    /\ IsSteps(g)
    /\ \A j \in 1 .. Len(g) : Formed(g[j])
    /\ \A j \in 1 .. Len(g) : \A i \in 1 .. j - 1 : Apart(g[i], g[j].m, ReqPathOf(g[j]))

\* The second word of a path; the rows of a group have the same few.
Second(path, words) == Len(path) >= 2 /\ path[2] \in words
Around(g, words) ==
    \A i \in 1 .. Len(g) : Second(g[i].pre, words) /\ Second(ReqPathOf(g[i]), words)
Elsewhere(g, words) == \A i \in 1 .. Len(g) : ~Second(ReqPathOf(g[i]), words)

\* A public row of the table is open to everybody (isPublicEndpoint).
Opened(g) == \A i \in 1 .. Len(g) : g[i].level = "public" => ReqOpen(ReqPathOf(g[i]))

\* Groups with other second words can follow one another.
LEMMA InOrderJoin ==
  ASSUME NEW g, NEW h, NEW words, InOrder(g), InOrder(h), Around(g, words), Elsewhere(h, words)
  PROVE  InOrder(g \o h)
  <1>1. IsSteps(g) /\ IsSteps(h) /\ IsSteps(g \o h) /\ Len(g) \in Nat /\ Len(h) \in Nat
    BY Joined DEF InOrder
  <1> DEFINE Comes(j) == \/ j \in 1 .. Len(g) /\ (g \o h)[j] = g[j]
                         \/ \E k \in 1 .. Len(h) : j = Len(g) + k /\ (g \o h)[j] = h[k]
  <1>2. ASSUME NEW j \in 1 .. Len(g \o h) PROVE Comes(j)
    BY <1>1, Place
  <1>3. ASSUME NEW j \in 1 .. Len(g \o h) PROVE Formed((g \o h)[j])
    <2>1. Comes(j)
      BY <1>2
    <2> QED BY <2>1 DEF InOrder
  <1>4. ASSUME NEW j \in 1 .. Len(g \o h), NEW i \in 1 .. j - 1
        PROVE  Apart((g \o h)[i], (g \o h)[j].m, ReqPathOf((g \o h)[j]))
    <2>1. Comes(j)
      BY <1>2
    <2>2. i \in 1 .. Len(g \o h)
      BY <1>1 DEF IsSteps
    <2>3. Comes(i)
      BY <1>2, <2>2
    <2>4. CASE j \in 1 .. Len(g) /\ (g \o h)[j] = g[j]
      <3>1. i \in 1 .. Len(g) /\ (g \o h)[i] = g[i]
        BY <1>1, <2>3, <2>4
      <3> QED BY <2>4, <3>1 DEF InOrder
    <2>5. ASSUME NEW k \in 1 .. Len(h), j = Len(g) + k, (g \o h)[j] = h[k]
          PROVE  Apart((g \o h)[i], (g \o h)[j].m, ReqPathOf((g \o h)[j]))
      <3>1. CASE i \in 1 .. Len(g) /\ (g \o h)[i] = g[i]
        <4>1. Second(g[i].pre, words) /\ ~Second(ReqPathOf(h[k]), words)
          BY <3>1 DEF Around, Elsewhere
        <4>2. Len(ReqPathOf(h[k])) \in Nat /\ Len(g[i].pre) \in Nat
          BY <3>1 DEF InOrder, Formed, IsSteps
        <4>3. Apart(g[i], h[k].m, ReqPathOf(h[k]))
          BY <4>1, <4>2 DEF Apart, Second
        <4> QED BY <2>5, <3>1, <4>3
      <3>2. ASSUME NEW n \in 1 .. Len(h), i = Len(g) + n, (g \o h)[i] = h[n]
            PROVE  Apart((g \o h)[i], (g \o h)[j].m, ReqPathOf((g \o h)[j]))
        <4>1. n \in 1 .. k - 1
          BY <1>1, <2>5, <3>2
        <4> QED BY <2>5, <3>2, <4>1 DEF InOrder
      <3> QED BY <2>3, <3>1, <3>2
    <2> QED BY <2>1, <2>4, <2>5
  <1> QED BY <1>1, <1>3, <1>4 DEF InOrder

\* What holds of the rows of two groups holds of the rows of both.
LEMMA AroundJoin ==
  ASSUME NEW g, NEW h, IsSteps(g), IsSteps(h)
  PROVE  /\ \A v, w : Around(g, v) /\ Around(h, w) => Around(g \o h, v \cup w)
         /\ \A v, w : Around(g, v) /\ v \cap w = {} => Elsewhere(g, w)
         /\ Opened(g) /\ Opened(h) => Opened(g \o h)
  <1>1. ASSUME NEW j \in 1 .. Len(g \o h)
        PROVE  \/ j \in 1 .. Len(g) /\ (g \o h)[j] = g[j]
               \/ \E k \in 1 .. Len(h) : (g \o h)[j] = h[k]
    <2>1. \/ j \in 1 .. Len(g) /\ (g \o h)[j] = g[j]
          \/ \E k \in 1 .. Len(h) : j = Len(g) + k /\ (g \o h)[j] = h[k]
      BY Place
    <2> QED BY <2>1
  <1>2. \A v, w : Around(g, v) /\ Around(h, w) => Around(g \o h, v \cup w)
    BY <1>1 DEF Around, Second
  <1>3. \A v, w : Around(g, v) /\ v \cap w = {} => Elsewhere(g, w)
    BY DEF Around, Elsewhere, Second
  <1>4. Opened(g) /\ Opened(h) => Opened(g \o h)
    BY <1>1 DEF Opened
  <1> QED BY <1>2, <1>3, <1>4

\* A group of routes after others that have other second words.
LEMMA GroupAfter ==
  ASSUME NEW g, NEW h, NEW v, NEW w, v \cap w = {},
         InOrder(g) /\ Around(g, v) /\ Opened(g), InOrder(h) /\ Around(h, w) /\ Opened(h)
  PROVE  InOrder(g \o h) /\ Around(g \o h, v \cup w) /\ Opened(g \o h)
  <1>1. IsSteps(g) /\ IsSteps(h)
    BY DEF InOrder
  <1>2. w \cap v = {}
    OBVIOUS
  <1>3. Elsewhere(h, v)
    BY <1>1, <1>2, AroundJoin
  <1>4. InOrder(g \o h)
    BY <1>3, InOrderJoin
  <1> QED BY <1>1, <1>4, AroundJoin

\* In a table in that order, each row is the first for its path (Route).
LEMMA FirstForItsPath ==
  ASSUME InOrder(ReqRoutes), NEW i \in DOMAIN ReqRoutes
  PROVE  ReqResolve(ReqRoutes[i].m, ReqPathOf(ReqRoutes[i])) = i
  <1> DEFINE r == ReqRoutes[i]
             path == ReqPathOf(r)
             hits == {j \in DOMAIN ReqRoutes : ReqMatches(ReqRoutes[j], r.m, path)}
  <1>1. DOMAIN ReqRoutes = 1 .. Len(ReqRoutes) /\ Len(ReqRoutes) \in Nat
    BY DEF InOrder, IsSteps
  <1>2. i \in hits
    BY <1>1, OwnPath DEF InOrder
  <1>3. ASSUME NEW j \in hits PROVE i <= j
    <2>1. j \in 1 .. Len(ReqRoutes) /\ ReqMatches(ReqRoutes[j], r.m, path)
      BY <1>1
    <2>2. Formed(ReqRoutes[j]) /\ IsSteps(path)
      BY <1>1, <2>1 DEF InOrder, Formed
    <2>3. ~Apart(ReqRoutes[j], r.m, path)
      BY <2>1, <2>2, ApartMisses
    <2>4. j \notin 1 .. i - 1
      BY <1>1, <2>3 DEF InOrder
    <2> QED BY <1>1, <2>1, <2>4
  <1>4. hits \subseteq Nat
    BY <1>1
  <1> HIDE DEF hits
  <1>5. \A k \in hits : (\A j \in hits : k <= j) => k = i
    BY <1>2, <1>3, <1>4
  <1>6. (CHOOSE k \in hits : \A j \in hits : k <= j) = i
    BY <1>2, <1>3, <1>5
  <1>7. hits # {}
    BY <1>2
  <1> QED BY <1>6, <1>7, Zenon DEF ReqResolve, hits

\* A row, what it was made of, and the path of it.
Made(r, m, level, kind, pre, suf, path) ==
    /\ Formed(r) /\ r.m = m /\ r.level = level /\ r.kind = kind
    /\ r.pre = pre /\ r.suf = suf /\ ReqPathOf(r) = path

\* What is common to the rows whose path starts with "api" and one more word.
Shape(r, m, level, kind, n, size, b) ==
    /\ Formed(r) /\ r.m = m /\ r.level = level /\ r.kind = kind
    /\ Len(r.pre) = n /\ r.pre[2] = b
    /\ Len(ReqPathOf(r)) = size /\ ReqPathOf(r)[1] = "api" /\ ReqPathOf(r)[2] = b

\* The kinds of rows, by the words after "api": one path of two, three or four
\* words, and what is under two or three words, up to a suffix.
Exact2(r, m, level, b) == Shape(r, m, level, "exact", 2, 2, b)
Exact3(r, m, level, b, c) ==
    Shape(r, m, level, "exact", 3, 3, b) /\ r.pre[3] = c /\ ReqPathOf(r)[3] = c
Exact4(r, m, level, b, c, d) ==
    /\ Shape(r, m, level, "exact", 4, 4, b)
    /\ r.pre[3] = c /\ ReqPathOf(r)[3] = c /\ r.pre[4] = d /\ ReqPathOf(r)[4] = d
Under2(r, m, level, b) ==
    Shape(r, m, level, "under", 2, 3, b) /\ ReqPathOf(r)[3] = ReqSomeId /\ Len(r.suf) = 0
Under2To(r, m, level, b, e) ==
    /\ Shape(r, m, level, "under", 2, 4, b)
    /\ ReqPathOf(r)[3] = ReqSomeId /\ ReqPathOf(r)[4] = e /\ Len(r.suf) = 1 /\ r.suf[1] = e
Under2To2(r, m, level, b, e, f) ==
    /\ Shape(r, m, level, "under", 2, 5, b)
    /\ ReqPathOf(r)[3] = ReqSomeId /\ ReqPathOf(r)[5] = f /\ Len(r.suf) = 2 /\ r.suf[2] = f
Under3(r, m, level, b, c) ==
    /\ Shape(r, m, level, "under", 3, 4, b)
    /\ r.pre[3] = c /\ ReqPathOf(r)[3] = c /\ ReqPathOf(r)[4] = ReqSomeId /\ Len(r.suf) = 0
Under3To(r, m, level, b, c, e) ==
    /\ Shape(r, m, level, "under", 3, 5, b)
    /\ r.pre[3] = c /\ ReqPathOf(r)[3] = c /\ ReqPathOf(r)[5] = e /\ Len(r.suf) = 1 /\ r.suf[1] = e
Exact1(r, m, level, a) ==
    /\ Formed(r) /\ r.m = m /\ r.level = level /\ r.kind = "exact"
    /\ Len(r.pre) = 1 /\ r.pre[1] = a /\ Len(ReqPathOf(r)) = 1 /\ ReqPathOf(r)[1] = a
Root1(r, m, level, a) ==
    /\ Formed(r) /\ r.m = m /\ r.level = level /\ r.kind = "root"
    /\ Len(r.pre) = 1 /\ r.pre[1] = a /\ Len(ReqPathOf(r)) = 1 /\ ReqPathOf(r)[1] = a
Root2(r, m, level, b) == Shape(r, m, level, "root", 2, 2, b)
Override(r, m, level, b) == Shape(r, m, level, "override", 2, 5, b)

\* A short sequence that is written out.
LEMMA ShortSteps ==
  /\ IsSteps(<<>>)
  /\ \A a : IsSteps(<<a>>)
  /\ \A a, b : IsSteps(<<a, b>>)
  /\ \A a, b, c : IsSteps(<<a, b, c>>)
  /\ \A a, b, c, d : IsSteps(<<a, b, c, d>>)
  /\ \A a, b, c, d, e : IsSteps(<<a, b, c, d, e>>)
  <1>1. /\ IsSteps(<<>>)
        /\ \A a : IsSteps(<<a>>)
        /\ \A a, b : IsSteps(<<a, b>>)
        /\ \A a, b, c : IsSteps(<<a, b, c>>)
    <2>1. <<>> \in Seq({})
      OBVIOUS
    <2>2. \A a : <<a>> \in Seq({a})
      OBVIOUS
    <2>3. \A a, b : <<a, b>> \in Seq({a, b})
      OBVIOUS
    <2>4. \A a, b, c : <<a, b, c>> \in Seq({a, b, c})
      OBVIOUS
    <2> QED BY <2>1, <2>2, <2>3, <2>4 DEF IsSteps
  <1>2. \A a, b, c, d : IsSteps(<<a, b, c, d>>)
    <2>1. \A a, b, c, d : <<a, b, c, d>> \in Seq({a, b, c, d})
      OBVIOUS
    <2> QED BY <2>1 DEF IsSteps
  <1>3. \A a, b, c, d, e : IsSteps(<<a, b, c, d, e>>)
    <2>1. \A a, b, c, d, e : <<a, b, c, d, e>> \in Seq({a, b, c, d, e})
      OBVIOUS
    <2> QED BY <2>1 DEF IsSteps
  <1> QED BY <1>1, <1>2, <1>3

\* Rows for one path.
LEMMA ExactMade ==
  ASSUME NEW m, NEW level, NEW ways, NEW pre, IsSteps(pre), NEW kind \in {"exact", "root"}
  PROVE  Made(ReqRoute(m, kind, pre, <<>>, level, ways), m, level, kind, pre, <<>>, pre)
  BY ShortSteps DEF ReqRoute, ReqPathOf, Formed, Made

\* What the words of such rows are.
LEMMA ExactShapes ==
  /\ \A m, level, ways, b : Exact2(ReqRoute(m, "exact", <<"api", b>>, <<>>, level, ways), m, level, b)
  /\ \A m, level, ways, b, c :
        Exact3(ReqRoute(m, "exact", <<"api", b, c>>, <<>>, level, ways), m, level, b, c)
  /\ \A m, level, ways, b, c :
        Exact3(ReqRoute(m, "exact", <<"api", b>> \o <<c>>, <<>>, level, ways), m, level, b, c)
  /\ \A m, level, ways, b, c, d :
        Exact4(ReqRoute(m, "exact", <<"api", b>> \o <<c, d>>, <<>>, level, ways), m, level, b, c, d)
  /\ \A m, level, ways, b, c, d :
        Exact4(ReqRoute(m, "exact", (<<"api", b>> \o <<c>>) \o <<d>>, <<>>, level, ways),
               m, level, b, c, d)
  <1>1. ASSUME NEW m, NEW level, NEW ways, NEW b
        PROVE  Exact2(ReqRoute(m, "exact", <<"api", b>>, <<>>, level, ways), m, level, b)
    <2> DEFINE r == ReqRoute(m, "exact", <<"api", b>>, <<>>, level, ways)
    <2>1. IsSteps(<<"api", b>>)
      BY ShortSteps
    <2>2. Made(r, m, level, "exact", <<"api", b>>, <<>>, <<"api", b>>)
      BY <2>1, ExactMade
    <2> HIDE DEF r
    <2>3. Exact2(r, m, level, b)
      BY <2>2 DEF Made, Exact2, Shape
    <2> QED BY <2>3 DEF r
  <1>2. ASSUME NEW m, NEW level, NEW ways, NEW b, NEW c
        PROVE  Exact3(ReqRoute(m, "exact", <<"api", b, c>>, <<>>, level, ways), m, level, b, c)
    <2> DEFINE r == ReqRoute(m, "exact", <<"api", b, c>>, <<>>, level, ways)
    <2>1. IsSteps(<<"api", b, c>>)
      BY ShortSteps
    <2>2. Made(r, m, level, "exact", <<"api", b, c>>, <<>>, <<"api", b, c>>)
      BY <2>1, ExactMade
    <2> HIDE DEF r
    <2>3. Exact3(r, m, level, b, c)
      BY <2>2 DEF Made, Exact3, Shape
    <2> QED BY <2>3 DEF r
  <1>3. ASSUME NEW m, NEW level, NEW ways, NEW b, NEW c, NEW d
        PROVE  Exact4(ReqRoute(m, "exact", <<"api", b, c, d>>, <<>>, level, ways), m, level, b, c, d)
    <2> DEFINE r == ReqRoute(m, "exact", <<"api", b, c, d>>, <<>>, level, ways)
    <2>1. IsSteps(<<"api", b, c, d>>)
      BY ShortSteps
    <2>2. Made(r, m, level, "exact", <<"api", b, c, d>>, <<>>, <<"api", b, c, d>>)
      BY <2>1, ExactMade
    <2> HIDE DEF r
    <2>3. Exact4(r, m, level, b, c, d)
      BY <2>2 DEF Made, Exact4, Shape
    <2> QED BY <2>3 DEF r
  <1>4. ASSUME NEW b, NEW c PROVE <<"api", b>> \o <<c>> = <<"api", b, c>>
    BY Spell21, Zenon
  <1>5. ASSUME NEW b, NEW c, NEW d
        PROVE  /\ <<"api", b>> \o <<c, d>> = <<"api", b, c, d>>
               /\ <<"api", b, c>> \o <<d>> = <<"api", b, c, d>>
    <2>1. <<"api", b>> \o <<c, d>> = <<"api", b, c, d>>
      BY Spell22, Zenon
    <2>2. <<"api", b, c>> \o <<d>> = <<"api", b, c, d>>
      BY Spell31, Zenon
    <2> QED BY <2>1, <2>2
  <1>6. ASSUME NEW b, NEW c, NEW d
        PROVE  (<<"api", b>> \o <<c>>) \o <<d>> = <<"api", b, c, d>>
    <2>1. <<"api", b>> \o <<c>> = <<"api", b, c>>
      BY <1>4
    <2>2. <<"api", b, c>> \o <<d>> = <<"api", b, c, d>>
      BY <1>5
    <2> QED BY <2>1, <2>2, Zenon
  <1>7. ASSUME NEW m, NEW level, NEW ways, NEW b, NEW c
        PROVE  Exact3(ReqRoute(m, "exact", <<"api", b>> \o <<c>>, <<>>, level, ways), m, level, b, c)
    <2>1. <<"api", b>> \o <<c>> = <<"api", b, c>>
      BY <1>4
    <2> QED BY <2>1, <1>2, Zenon
  <1>8. ASSUME NEW m, NEW level, NEW ways, NEW b, NEW c, NEW d
        PROVE  Exact4(ReqRoute(m, "exact", <<"api", b>> \o <<c, d>>, <<>>, level, ways), m, level, b, c, d)
    <2>1. <<"api", b>> \o <<c, d>> = <<"api", b, c, d>>
      BY <1>5
    <2> QED BY <2>1, <1>3, Zenon
  <1>9. ASSUME NEW m, NEW level, NEW ways, NEW b, NEW c, NEW d
        PROVE  Exact4(ReqRoute(m, "exact", (<<"api", b>> \o <<c>>) \o <<d>>, <<>>, level, ways),
                      m, level, b, c, d)
    <2>1. (<<"api", b>> \o <<c>>) \o <<d>> = <<"api", b, c, d>>
      BY <1>6
    <2> QED BY <2>1, <1>3, Zenon
  <1> QED BY <1>1, <1>2, <1>7, <1>8, <1>9, Zenon

\* Rows for what is under a prefix.
LEMMA UnderMade ==
  ASSUME NEW m, NEW level, NEW ways, NEW pre, NEW suf, NEW mid, NEW path, NEW kind,
         pre \o <<ReqSomeId>> = mid, mid \o suf = path, IsSteps(pre), IsSteps(suf), IsSteps(path),
         kind \in {"under", "override"}, kind = "override" => Len(pre) = 2 /\ Len(suf) = 2
  PROVE  Made(ReqRoute(m, kind, pre, suf, level, ways), m, level, kind, pre, suf, path)
  <1> DEFINE r == ReqRoute(m, kind, pre, suf, level, ways)
  <1>1. r.m = m /\ r.level = level /\ r.kind = kind /\ r.pre = pre /\ r.suf = suf
    BY DEF ReqRoute
  <1>2. ReqPathOf(r) = ReqPath(pre, suf)
    BY <1>1 DEF ReqPathOf
  <1>3. ReqPath(pre, suf) = path
    BY Zenon DEF ReqPath
  <1> HIDE DEF r
  <1>4. Formed(r) /\ ReqPathOf(r) = path
    BY <1>1, <1>2, <1>3 DEF Formed
  <1> QED BY <1>1, <1>4 DEF r, Made

\* What the words of such rows are, and of their paths.
LEMMA UnderShapes ==
  /\ \A m, level, ways, b : Under2(ReqRoute(m, "under", <<"api", b>>, <<>>, level, ways), m, level, b)
  /\ \A m, level, ways, b, e :
        Under2To(ReqRoute(m, "under", <<"api", b>>, <<e>>, level, ways), m, level, b, e)
  /\ \A m, level, ways, b, e, f :
        Under2To2(ReqRoute(m, "under", <<"api", b>>, <<e, f>>, level, ways), m, level, b, e, f)
  /\ \A m, level, ways, b, c :
        Under3(ReqRoute(m, "under", <<"api", b>> \o <<c>>, <<>>, level, ways), m, level, b, c)
  /\ \A m, level, ways, b, c, e :
        Under3To(ReqRoute(m, "under", <<"api", b>> \o <<c>>, <<e>>, level, ways), m, level, b, c, e)
  /\ \A m, level, ways, b, e, f :
        Override(ReqRoute(m, "override", <<"api", b>>, <<e, f>>, level, ways), m, level, b)
  <1>1. ASSUME NEW m, NEW level, NEW ways, NEW b
        PROVE  Under2(ReqRoute(m, "under", <<"api", b>>, <<>>, level, ways), m, level, b)
    <2> DEFINE r == ReqRoute(m, "under", <<"api", b>>, <<>>, level, ways)
    <2>0. <<"api", b>> \o <<ReqSomeId>> = <<"api", b, ReqSomeId>>
      BY Spell21, Zenon
    <2>1. <<"api", b, ReqSomeId>> \o <<>> = <<"api", b, ReqSomeId>>
      BY SpellEmpty, Zenon
    <2>2. IsSteps(<<"api", b>>) /\ IsSteps(<<>>) /\ IsSteps(<<"api", b, ReqSomeId>>)
      BY ShortSteps
    <2>3. "under" \in {"under", "override"} /\ ("under" = "override" => Len(<<"api", b>>) = 2 /\ Len(<<>>) = 2)
      OBVIOUS
    <2>4. Made(r, m, level, "under", <<"api", b>>, <<>>, <<"api", b, ReqSomeId>>)
      BY <2>0, <2>1, <2>2, <2>3, UnderMade, Zenon
    <2> HIDE DEF r
    <2>5. Under2(r, m, level, b)
      BY <2>4 DEF Made, Under2, Shape
    <2> QED BY <2>5 DEF r
  <1>2. ASSUME NEW m, NEW level, NEW ways, NEW b, NEW e
        PROVE  Under2To(ReqRoute(m, "under", <<"api", b>>, <<e>>, level, ways), m, level, b, e)
    <2> DEFINE r == ReqRoute(m, "under", <<"api", b>>, <<e>>, level, ways)
    <2>0. <<"api", b>> \o <<ReqSomeId>> = <<"api", b, ReqSomeId>>
      BY Spell21, Zenon
    <2>1. <<"api", b, ReqSomeId>> \o <<e>> = <<"api", b, ReqSomeId, e>>
      BY Spell31, Zenon
    <2>2. IsSteps(<<"api", b>>) /\ IsSteps(<<e>>) /\ IsSteps(<<"api", b, ReqSomeId, e>>)
      BY ShortSteps
    <2>3. "under" \in {"under", "override"} /\ ("under" = "override" => Len(<<"api", b>>) = 2 /\ Len(<<e>>) = 2)
      OBVIOUS
    <2>4. Made(r, m, level, "under", <<"api", b>>, <<e>>, <<"api", b, ReqSomeId, e>>)
      BY <2>0, <2>1, <2>2, <2>3, UnderMade, Zenon
    <2> HIDE DEF r
    <2>5. Under2To(r, m, level, b, e)
      BY <2>4 DEF Made, Under2To, Shape
    <2> QED BY <2>5 DEF r
  <1>3. ASSUME NEW m, NEW level, NEW ways, NEW b, NEW e, NEW f
        PROVE  Under2To2(ReqRoute(m, "under", <<"api", b>>, <<e, f>>, level, ways), m, level, b, e, f)
    <2> DEFINE r == ReqRoute(m, "under", <<"api", b>>, <<e, f>>, level, ways)
    <2>0. <<"api", b>> \o <<ReqSomeId>> = <<"api", b, ReqSomeId>>
      BY Spell21, Zenon
    <2>1. <<"api", b, ReqSomeId>> \o <<e, f>> = <<"api", b, ReqSomeId, e, f>>
      BY Spell32, Zenon
    <2>2. IsSteps(<<"api", b>>) /\ IsSteps(<<e, f>>) /\ IsSteps(<<"api", b, ReqSomeId, e, f>>)
      BY ShortSteps
    <2>3. "under" \in {"under", "override"} /\ ("under" = "override" => Len(<<"api", b>>) = 2 /\ Len(<<e, f>>) = 2)
      OBVIOUS
    <2>4. Made(r, m, level, "under", <<"api", b>>, <<e, f>>, <<"api", b, ReqSomeId, e, f>>)
      BY <2>0, <2>1, <2>2, <2>3, UnderMade, Zenon
    <2> HIDE DEF r
    <2>5. Under2To2(r, m, level, b, e, f)
      BY <2>4 DEF Made, Under2To2, Shape
    <2> QED BY <2>5 DEF r
  <1>4. ASSUME NEW m, NEW level, NEW ways, NEW b, NEW c
        PROVE  Under3(ReqRoute(m, "under", <<"api", b, c>>, <<>>, level, ways), m, level, b, c)
    <2> DEFINE r == ReqRoute(m, "under", <<"api", b, c>>, <<>>, level, ways)
    <2>0. <<"api", b, c>> \o <<ReqSomeId>> = <<"api", b, c, ReqSomeId>>
      BY Spell31, Zenon
    <2>1. <<"api", b, c, ReqSomeId>> \o <<>> = <<"api", b, c, ReqSomeId>>
      BY SpellEmpty, Zenon
    <2>2. IsSteps(<<"api", b, c>>) /\ IsSteps(<<>>) /\ IsSteps(<<"api", b, c, ReqSomeId>>)
      BY ShortSteps
    <2>3. "under" \in {"under", "override"} /\ ("under" = "override" => Len(<<"api", b, c>>) = 2 /\ Len(<<>>) = 2)
      OBVIOUS
    <2>4. Made(r, m, level, "under", <<"api", b, c>>, <<>>, <<"api", b, c, ReqSomeId>>)
      BY <2>0, <2>1, <2>2, <2>3, UnderMade, Zenon
    <2> HIDE DEF r
    <2>5. Under3(r, m, level, b, c)
      BY <2>4 DEF Made, Under3, Shape
    <2> QED BY <2>5 DEF r
  <1>5. ASSUME NEW m, NEW level, NEW ways, NEW b, NEW c, NEW e
        PROVE  Under3To(ReqRoute(m, "under", <<"api", b, c>>, <<e>>, level, ways), m, level, b, c, e)
    <2> DEFINE r == ReqRoute(m, "under", <<"api", b, c>>, <<e>>, level, ways)
    <2>0. <<"api", b, c>> \o <<ReqSomeId>> = <<"api", b, c, ReqSomeId>>
      BY Spell31, Zenon
    <2>1. <<"api", b, c, ReqSomeId>> \o <<e>> = <<"api", b, c, ReqSomeId, e>>
      BY Spell41, Zenon
    <2>2. IsSteps(<<"api", b, c>>) /\ IsSteps(<<e>>) /\ IsSteps(<<"api", b, c, ReqSomeId, e>>)
      BY ShortSteps
    <2>3. "under" \in {"under", "override"} /\ ("under" = "override" => Len(<<"api", b, c>>) = 2 /\ Len(<<e>>) = 2)
      OBVIOUS
    <2>4. Made(r, m, level, "under", <<"api", b, c>>, <<e>>, <<"api", b, c, ReqSomeId, e>>)
      BY <2>0, <2>1, <2>2, <2>3, UnderMade, Zenon
    <2> HIDE DEF r
    <2>5. Under3To(r, m, level, b, c, e)
      BY <2>4 DEF Made, Under3To, Shape
    <2> QED BY <2>5 DEF r
  <1>6. ASSUME NEW m, NEW level, NEW ways, NEW b, NEW e, NEW f
        PROVE  Override(ReqRoute(m, "override", <<"api", b>>, <<e, f>>, level, ways), m, level, b)
    <2> DEFINE r == ReqRoute(m, "override", <<"api", b>>, <<e, f>>, level, ways)
    <2>0. <<"api", b>> \o <<ReqSomeId>> = <<"api", b, ReqSomeId>>
      BY Spell21, Zenon
    <2>1. <<"api", b, ReqSomeId>> \o <<e, f>> = <<"api", b, ReqSomeId, e, f>>
      BY Spell32, Zenon
    <2>2. IsSteps(<<"api", b>>) /\ IsSteps(<<e, f>>) /\ IsSteps(<<"api", b, ReqSomeId, e, f>>)
      BY ShortSteps
    <2>3. "override" \in {"under", "override"} /\ ("override" = "override" => Len(<<"api", b>>) = 2 /\ Len(<<e, f>>) = 2)
      OBVIOUS
    <2>4. Made(r, m, level, "override", <<"api", b>>, <<e, f>>, <<"api", b, ReqSomeId, e, f>>)
      BY <2>0, <2>1, <2>2, <2>3, UnderMade, Zenon
    <2> HIDE DEF r
    <2>5. Override(r, m, level, b)
      BY <2>4 DEF Made, Override, Shape
    <2> QED BY <2>5 DEF r
  <1>7. ASSUME NEW b, NEW c PROVE <<"api", b>> \o <<c>> = <<"api", b, c>>
    BY Spell21, Zenon
  <1>8. ASSUME NEW m, NEW level, NEW ways, NEW b, NEW c
        PROVE  /\ Under3(ReqRoute(m, "under", <<"api", b>> \o <<c>>, <<>>, level, ways), m, level, b, c)
               /\ \A e : Under3To(ReqRoute(m, "under", <<"api", b>> \o <<c>>, <<e>>, level, ways), m, level, b, c, e)
    <2>1. <<"api", b>> \o <<c>> = <<"api", b, c>>
      BY <1>7
    <2> QED BY <2>1, <1>4, <1>5, Zenon
  <1> QED BY <1>1, <1>2, <1>3, <1>6, <1>8, Zenon

\* Rows of one word, and those of the docs.
LEMMA OtherShapes ==
  /\ \A m, level, ways, a : Exact1(ReqRoute(m, "exact", <<a>>, <<>>, level, ways), m, level, a)
  /\ \A m, level, ways, a : Root1(ReqRoute(m, "root", <<a>>, <<>>, level, ways), m, level, a)
  /\ \A m, level, ways, b : Root2(ReqRoute(m, "root", <<"api", b>>, <<>>, level, ways), m, level, b)
  <1>1. ASSUME NEW m, NEW level, NEW ways, NEW a
        PROVE  Exact1(ReqRoute(m, "exact", <<a>>, <<>>, level, ways), m, level, a)
    <2> DEFINE r == ReqRoute(m, "exact", <<a>>, <<>>, level, ways)
    <2>1. IsSteps(<<a>>)
      BY ShortSteps
    <2>2. Made(r, m, level, "exact", <<a>>, <<>>, <<a>>)
      BY <2>1, ExactMade
    <2> HIDE DEF r
    <2>3. Exact1(r, m, level, a)
      BY <2>2 DEF Made, Exact1, Shape
    <2> QED BY <2>3 DEF r
  <1>2. ASSUME NEW m, NEW level, NEW ways, NEW a
        PROVE  Root1(ReqRoute(m, "root", <<a>>, <<>>, level, ways), m, level, a)
    <2> DEFINE r == ReqRoute(m, "root", <<a>>, <<>>, level, ways)
    <2>1. IsSteps(<<a>>)
      BY ShortSteps
    <2>2. Made(r, m, level, "root", <<a>>, <<>>, <<a>>)
      BY <2>1, ExactMade
    <2> HIDE DEF r
    <2>3. Root1(r, m, level, a)
      BY <2>2 DEF Made, Root1, Shape
    <2> QED BY <2>3 DEF r
  <1>3. ASSUME NEW m, NEW level, NEW ways, NEW b
        PROVE  Root2(ReqRoute(m, "root", <<"api", b>>, <<>>, level, ways), m, level, b)
    <2> DEFINE r == ReqRoute(m, "root", <<"api", b>>, <<>>, level, ways)
    <2>1. IsSteps(<<"api", b>>)
      BY ShortSteps
    <2>2. Made(r, m, level, "root", <<"api", b>>, <<>>, <<"api", b>>)
      BY <2>1, ExactMade
    <2> HIDE DEF r
    <2>3. Root2(r, m, level, b)
      BY <2>2 DEF Made, Root2, Shape
    <2> QED BY <2>3 DEF r
  <1> QED BY <1>1, <1>2, <1>3, Zenon

\* A path that starts with the words of an open one is open.
LEMMA StartsOpen ==
  /\ \A path, x : IsSteps(path) /\ Len(path) >= 1 /\ path[1] = x /\ <<x>> \in ReqOpenUnder
        => ReqOpen(path)
  /\ \A path, x, y : IsSteps(path) /\ Len(path) >= 2 /\ path[1] = x /\ path[2] = y
        /\ <<x, y>> \in ReqOpenUnder => ReqOpen(path)
  /\ \A path, x, y, z : IsSteps(path) /\ Len(path) >= 3 /\ path[1] = x /\ path[2] = y /\ path[3] = z
        /\ <<x, y, z>> \in ReqOpenUnder => ReqOpen(path)
  <1>1. ASSUME NEW pre, NEW path, NEW S, pre \in Seq(S), path \in Seq(S), Len(pre) <= Len(path),
               \A k \in 1 .. Len(pre) : path[k] = pre[k], pre \in ReqOpenUnder
        PROVE  ReqOpen(path)
    <2>1. SubSeq(pre, 1, Len(pre)) = SubSeq(path, 1, Len(pre))
      <3>1. Len(pre) \in Nat /\ Len(path) \in Nat
        BY <1>1
      <3>2. /\ SubSeq(pre, 1, Len(pre)) \in Seq(S) /\ SubSeq(path, 1, Len(pre)) \in Seq(S)
            /\ Len(SubSeq(pre, 1, Len(pre))) = Len(pre) /\ Len(SubSeq(path, 1, Len(pre))) = Len(pre)
        BY <1>1, <3>1
      <3>3. ASSUME NEW k \in 1 .. Len(pre)
            PROVE  SubSeq(pre, 1, Len(pre))[k] = SubSeq(path, 1, Len(pre))[k]
        BY <1>1, <3>1
      <3> QED BY <3>2, <3>3, SameWords
    <2>2. IsPrefix(pre, path)
      BY <1>1, <2>1 DEF IsPrefix
    <2> QED BY <1>1, <2>2 DEF ReqOpen
  <1>2. ASSUME NEW path, NEW x, IsSteps(path), Len(path) >= 1, path[1] = x, <<x>> \in ReqOpenUnder
        PROVE  ReqOpen(path)
    <2> DEFINE pre == <<x>>
    <2>1. IsSteps(pre) /\ Len(pre) = 1 /\ pre[1] = x
      BY ShortSteps
    <2>2. PICK S : pre \in Seq(S) /\ path \in Seq(S)
      BY <1>2, <2>1, Together
    <2>3. pre \in ReqOpenUnder
      BY <1>2
    <2> HIDE DEF pre
    <2>4. Len(pre) <= Len(path) /\ \A k \in 1 .. Len(pre) : path[k] = pre[k]
      BY <1>2, <2>1
    <2> QED BY <1>1, <2>2, <2>3, <2>4
  <1>3. ASSUME NEW path, NEW x, NEW y, IsSteps(path), Len(path) >= 2, path[1] = x, path[2] = y,
               <<x, y>> \in ReqOpenUnder
        PROVE  ReqOpen(path)
    <2> DEFINE pre == <<x, y>>
    <2>1. IsSteps(pre) /\ Len(pre) = 2 /\ pre[1] = x /\ pre[2] = y
      BY ShortSteps
    <2>2. PICK S : pre \in Seq(S) /\ path \in Seq(S)
      BY <1>3, <2>1, Together
    <2>3. pre \in ReqOpenUnder
      BY <1>3
    <2> HIDE DEF pre
    <2>4. Len(pre) <= Len(path) /\ \A k \in 1 .. Len(pre) : path[k] = pre[k]
      BY <1>3, <2>1
    <2> QED BY <1>1, <2>2, <2>3, <2>4
  <1>4. ASSUME NEW path, NEW x, NEW y, NEW z, IsSteps(path), Len(path) >= 3, path[1] = x, path[2] = y,
               path[3] = z, <<x, y, z>> \in ReqOpenUnder
        PROVE  ReqOpen(path)
    <2> DEFINE pre == <<x, y, z>>
    <2>1. IsSteps(pre) /\ Len(pre) = 3 /\ pre[1] = x /\ pre[2] = y /\ pre[3] = z
      BY ShortSteps
    <2>2. PICK S : pre \in Seq(S) /\ path \in Seq(S)
      BY <1>4, <2>1, Together
    <2>3. pre \in ReqOpenUnder
      BY <1>4
    <2> HIDE DEF pre
    <2>4. Len(pre) <= Len(path) /\ \A k \in 1 .. Len(pre) : path[k] = pre[k]
      BY <1>4, <2>1
    <2> QED BY <1>1, <2>2, <2>3, <2>4
  <1> QED BY <1>2, <1>3, <1>4, Zenon

\* The open ones.
LEMMA OpenWords ==
  /\ \A w \in {"health", "docs"} : <<w>> \in ReqOpenUnder
  /\ \A w \in {"health", "info", "docs", "register"} : <<"api", w>> \in ReqOpenUnder
  /\ <<"api", "notifications", "unsubscribe">> \in ReqOpenUnder
  /\ \A w \in {"approve", "cancel", "revoke"} : <<"api", "purchases", w>> \in ReqOpenUnder
  /\ \A w \in {"approve", "reject"} : <<"api", "ri-exchange", w>> \in ReqOpenUnder
  /\ \A w \in {"login", "check-admin", "setup-admin", "forgot-password", "reset-password"} :
        <<"api", "auth", w>> \in ReqOpenUnder
  BY DEF ReqOpenUnder

\* A row with such a path.
LEMMA OpenRows ==
  ASSUME NEW r, Formed(r), ReqPathOf(r)[1] = "api",
         \/ Len(ReqPathOf(r)) >= 2 /\ ReqPathOf(r)[2] \in {"health", "info", "docs", "register"}
         \/ /\ Len(ReqPathOf(r)) >= 3
            /\ \/ ReqPathOf(r)[2] = "notifications" /\ ReqPathOf(r)[3] = "unsubscribe"
               \/ ReqPathOf(r)[2] = "purchases" /\ ReqPathOf(r)[3] \in {"approve", "cancel", "revoke"}
               \/ ReqPathOf(r)[2] = "ri-exchange" /\ ReqPathOf(r)[3] \in {"approve", "reject"}
               \/ /\ ReqPathOf(r)[2] = "auth"
                  /\ ReqPathOf(r)[3] \in {"login", "check-admin", "setup-admin", "forgot-password",
                                          "reset-password"}
  PROVE  ReqOpen(ReqPathOf(r))
  <1> DEFINE path == ReqPathOf(r)
  <1>1. IsSteps(path) /\ path[1] = "api"
    BY DEF Formed
  <1> HIDE DEF path
  <1> SUFFICES ReqOpen(path)
    BY DEF path
  <1>2. ASSUME Len(path) >= 2, path[2] \in {"health", "info", "docs", "register"} PROVE ReqOpen(path)
    <2>1. <<"api", path[2]>> \in ReqOpenUnder
      BY <1>2, OpenWords
    <2> QED BY <1>1, <1>2, <2>1, StartsOpen
  <1>3. ASSUME Len(path) >= 3, <<"api", path[2], path[3]>> \in ReqOpenUnder PROVE ReqOpen(path)
    BY <1>1, <1>3, StartsOpen
  <1>4. CASE Len(path) >= 3 /\ path[2] = "notifications" /\ path[3] = "unsubscribe"
    BY <1>3, <1>4, OpenWords
  <1>5. CASE Len(path) >= 3 /\ path[2] = "purchases" /\ path[3] \in {"approve", "cancel", "revoke"}
    BY <1>3, <1>5, OpenWords
  <1>6. CASE Len(path) >= 3 /\ path[2] = "ri-exchange" /\ path[3] \in {"approve", "reject"}
    BY <1>3, <1>6, OpenWords
  <1>7. CASE /\ Len(path) >= 3 /\ path[2] = "auth"
             /\ path[3] \in {"login", "check-admin", "setup-admin", "forgot-password", "reset-password"}
    BY <1>3, <1>7, OpenWords
  <1> QED BY <1>2, <1>4, <1>5, <1>6, <1>7 DEF path

\* A row of one word that is open.
LEMMA OpenWord ==
  ASSUME NEW r, Formed(r), Len(ReqPathOf(r)) = 1, ReqPathOf(r)[1] \in {"health", "docs", "version"}
  PROVE  ReqOpen(ReqPathOf(r))
  <1> DEFINE path == ReqPathOf(r)
  <1>1. IsSteps(path) /\ Len(path) = 1 /\ path[1] \in {"health", "docs", "version"}
    BY DEF Formed
  <1> HIDE DEF path
  <1> SUFFICES ReqOpen(path)
    BY DEF path
  <1>2. CASE path[1] \in {"health", "docs"}
    <2>1. <<path[1]>> \in ReqOpenUnder
      BY <1>2, OpenWords
    <2> QED BY <1>1, <2>1, StartsOpen
  <1>3. CASE path[1] = "version"
    <2>1. PICK S : path \in Seq(S) /\ <<"version">> \in Seq(S)
      BY <1>1, ShortSteps, Together
    <2>2. path = <<"version">>
      BY <1>1, <1>3, <2>1
    <2> QED BY <2>2 DEF ReqOpen
  <1> QED BY <1>1, <1>2, <1>3

\* The second words of the paths up to the sign-in, and of those after it, but the last.
EarlyWords ==
    {"commitment-options", "config", "dashboard", "recommendations", "plans", "purchases",
     "analytics", "history", "auth"}
LaterWords == {"api-keys", "users", "accounts", "groups", "inventory", "ri-exchange"}

\* The routes of the dashboard, the configuration and the recommendations.
LEMMA PageRoutesInOrder ==
  /\ InOrder(ReqPageRoutes)
  /\ Around(ReqPageRoutes, {"commitment-options", "config", "dashboard", "recommendations"})
  /\ Opened(ReqPageRoutes)
  <1> DEFINE g == ReqPageRoutes
             A(i, j) == Apart(g[i], g[j].m, ReqPathOf(g[j]))
             words == {"commitment-options", "config", "dashboard", "recommendations"}
             W(i) == Second(g[i].pre, words) /\ Second(ReqPathOf(g[i]), words)
             O(i) == g[i].level = "public" => ReqOpen(ReqPathOf(g[i]))
  <1>1. /\ Exact3(g[1], "GET", "user", "dashboard", "summary")
        /\ Exact3(g[2], "GET", "user", "dashboard", "upcoming")
        /\ Exact2(g[3], "GET", "user", "config")
        /\ Exact2(g[4], "PUT", "admin", "config")
        /\ Under3(g[5], "GET", "user", "config", "service")
        /\ Under3(g[6], "PUT", "admin", "config", "service")
        /\ Exact2(g[7], "GET", "user", "commitment-options")
        /\ Exact2(g[8], "GET", "user", "recommendations")
        /\ Exact3(g[9], "GET", "user", "recommendations", "freshness")
        /\ Exact3(g[10], "POST", "user", "recommendations", "refresh")
        /\ Under2To(g[11], "GET", "user", "recommendations", "detail")
    BY ExactShapes, UnderShapes DEF ReqPageRoutes, ReqExact, ReqUnder
  <1>2. g = [i \in 1 .. 11 |-> g[i]] /\ Len(g) = 11
    BY DEF ReqPageRoutes
  <1> HIDE DEF g
  <1>3. IsSteps(g) /\ Len(g) = 11
    BY <1>2, Rows
  <1>4. \A j \in 1 .. 11 : Formed(g[j])
    BY <1>1 DEF Shape, Exact2, Exact3, Under2To, Under3
  <1>5. \A j \in 1 .. 11 : \A i \in 1 .. j - 1 : A(i, j)
    <2> USE DEF Apart, Shape, Exact2, Exact3, Under2To, Under3
    <2>1. A(1, 2) /\ A(1, 3) /\ A(2, 3) /\ A(1, 4) /\ A(2, 4) /\ A(3, 4) /\ A(1, 5)
      BY <1>1, ReqSomeIdAssumption
    <2>2. A(2, 5) /\ A(3, 5) /\ A(4, 5) /\ A(1, 6) /\ A(2, 6) /\ A(3, 6) /\ A(4, 6)
      BY <1>1, ReqSomeIdAssumption
    <2>3. A(5, 6) /\ A(1, 7) /\ A(2, 7) /\ A(3, 7) /\ A(4, 7) /\ A(5, 7) /\ A(6, 7)
      BY <1>1, ReqSomeIdAssumption
    <2>4. A(1, 8) /\ A(2, 8) /\ A(3, 8) /\ A(4, 8) /\ A(5, 8) /\ A(6, 8) /\ A(7, 8)
      BY <1>1, ReqSomeIdAssumption
    <2>5. A(1, 9) /\ A(2, 9) /\ A(3, 9) /\ A(4, 9) /\ A(5, 9) /\ A(6, 9) /\ A(7, 9)
      BY <1>1, ReqSomeIdAssumption
    <2>6. A(8, 9) /\ A(1, 10) /\ A(2, 10) /\ A(3, 10) /\ A(4, 10) /\ A(5, 10) /\ A(6, 10)
      BY <1>1, ReqSomeIdAssumption
    <2>7. A(7, 10) /\ A(8, 10) /\ A(9, 10) /\ A(1, 11) /\ A(2, 11) /\ A(3, 11) /\ A(4, 11)
      BY <1>1, ReqSomeIdAssumption
    <2>8. A(5, 11) /\ A(6, 11) /\ A(7, 11) /\ A(8, 11) /\ A(9, 11) /\ A(10, 11)
      BY <1>1, ReqSomeIdAssumption
    <2> HIDE DEF A, Apart, Shape, Exact2, Exact3, Under2To, Under3
    <2> QED BY <2>1, <2>2, <2>3, <2>4, <2>5, <2>6, <2>7, <2>8
  <1>6. Around(g, words)
    <2>1. W(1) /\ W(2) /\ W(3) /\ W(4) /\ W(5) /\ W(6) /\ W(7) /\ W(8) /\ W(9) /\ W(10) /\ W(11)
      BY <1>1 DEF Second, Shape, Exact2, Exact3, Under2To, Under3
    <2> HIDE DEF W
    <2>2. \A i \in 1 .. 11 : W(i)
      BY <2>1
    <2> QED BY <1>3, <2>2 DEF W, Around
  <1>7. InOrder(g)
    BY <1>3, <1>4, <1>5 DEF InOrder
  <1>8. Opened(g)
    <2> USE DEF Shape, Exact2, Exact3, Under2To, Under3
    <2>1. /\ O(1) /\ O(2) /\ O(3) /\ O(4) /\ O(5) /\ O(6) /\ O(7) /\ O(8) /\ O(9)
          /\ O(10) /\ O(11)
      BY <1>1
    <2> HIDE DEF O, Shape, Exact2, Exact3, Under2To, Under3
    <2>2. \A i \in 1 .. 11 : O(i)
      BY <2>1
    <2> QED BY <1>3, <2>2 DEF O, Opened
  <1> QED BY <1>6, <1>7, <1>8 DEF g, words

\* The routes of the plans.
LEMMA PlanRoutesInOrder ==
  /\ InOrder(ReqPlanRoutes)
  /\ Around(ReqPlanRoutes, {"plans"})
  /\ Opened(ReqPlanRoutes)
  <1> DEFINE g == ReqPlanRoutes
             A(i, j) == Apart(g[i], g[j].m, ReqPathOf(g[j]))
             words == {"plans"}
             W(i) == Second(g[i].pre, words) /\ Second(ReqPathOf(g[i]), words)
             O(i) == g[i].level = "public" => ReqOpen(ReqPathOf(g[i]))
  <1>1. /\ Exact2(g[1], "GET", "user", "plans")
        /\ Exact2(g[2], "POST", "user", "plans")
        /\ Under2To(g[3], "POST", "user", "plans", "purchases")
        /\ Under2To(g[4], "GET", "user", "plans", "accounts")
        /\ Under2To(g[5], "PUT", "user", "plans", "accounts")
        /\ Under2(g[6], "GET", "user", "plans")
        /\ Under2(g[7], "PUT", "user", "plans")
        /\ Under2(g[8], "PATCH", "user", "plans")
        /\ Under2(g[9], "DELETE", "user", "plans")
    BY ExactShapes, UnderShapes DEF ReqPlanRoutes, ReqExact, ReqUnder
  <1>2. g = [i \in 1 .. 9 |-> g[i]] /\ Len(g) = 9
    BY DEF ReqPlanRoutes
  <1> HIDE DEF g
  <1>3. IsSteps(g) /\ Len(g) = 9
    BY <1>2, Rows
  <1>4. \A j \in 1 .. 9 : Formed(g[j])
    BY <1>1 DEF Shape, Exact2, Under2, Under2To
  <1>5. \A j \in 1 .. 9 : \A i \in 1 .. j - 1 : A(i, j)
    <2> USE DEF Apart, Shape, Exact2, Under2, Under2To
    <2>1. A(1, 2) /\ A(1, 3) /\ A(2, 3) /\ A(1, 4) /\ A(2, 4) /\ A(3, 4) /\ A(1, 5)
      BY <1>1, ReqSomeIdAssumption
    <2>2. A(2, 5) /\ A(3, 5) /\ A(4, 5) /\ A(1, 6) /\ A(2, 6) /\ A(3, 6) /\ A(4, 6)
      BY <1>1, ReqSomeIdAssumption
    <2>3. A(5, 6) /\ A(1, 7) /\ A(2, 7) /\ A(3, 7) /\ A(4, 7) /\ A(5, 7) /\ A(6, 7)
      BY <1>1, ReqSomeIdAssumption
    <2>4. A(1, 8) /\ A(2, 8) /\ A(3, 8) /\ A(4, 8) /\ A(5, 8) /\ A(6, 8) /\ A(7, 8)
      BY <1>1, ReqSomeIdAssumption
    <2>5. A(1, 9) /\ A(2, 9) /\ A(3, 9) /\ A(4, 9) /\ A(5, 9) /\ A(6, 9) /\ A(7, 9)
      BY <1>1, ReqSomeIdAssumption
    <2>6. A(8, 9)
      BY <1>1, ReqSomeIdAssumption
    <2> HIDE DEF A, Apart, Shape, Exact2, Under2, Under2To
    <2> QED BY <2>1, <2>2, <2>3, <2>4, <2>5, <2>6
  <1>6. Around(g, words)
    <2>1. W(1) /\ W(2) /\ W(3) /\ W(4) /\ W(5) /\ W(6) /\ W(7) /\ W(8) /\ W(9)
      BY <1>1 DEF Second, Shape, Exact2, Under2, Under2To
    <2> HIDE DEF W
    <2>2. \A i \in 1 .. 9 : W(i)
      BY <2>1
    <2> QED BY <1>3, <2>2 DEF W, Around
  <1>7. InOrder(g)
    BY <1>3, <1>4, <1>5 DEF InOrder
  <1>8. Opened(g)
    <2> USE DEF Shape, Exact2, Under2, Under2To
    <2>1. O(1) /\ O(2) /\ O(3) /\ O(4) /\ O(5) /\ O(6) /\ O(7) /\ O(8) /\ O(9)
      BY <1>1
    <2> HIDE DEF O, Shape, Exact2, Under2, Under2To
    <2>2. \A i \in 1 .. 9 : O(i)
      BY <2>1
    <2> QED BY <1>3, <2>2 DEF O, Opened
  <1> QED BY <1>6, <1>7, <1>8 DEF g, words

\* The routes of the purchases.
LEMMA PurchaseRoutesInOrder ==
  /\ InOrder(ReqPurchaseRoutes)
  /\ Around(ReqPurchaseRoutes, {"purchases"})
  /\ Opened(ReqPurchaseRoutes)
  <1> DEFINE g == ReqPurchaseRoutes
             A(i, j) == Apart(g[i], g[j].m, ReqPathOf(g[j]))
             words == {"purchases"}
             W(i) == Second(g[i].pre, words) /\ Second(ReqPathOf(g[i]), words)
             O(i) == g[i].level = "public" => ReqOpen(ReqPathOf(g[i]))
  <1>1. /\ Exact3(g[1], "POST", "user", "purchases", "execute")
        /\ Under3(g[2], "GET", "public", "purchases", "approve")
        /\ Under3(g[3], "POST", "public", "purchases", "approve")
        /\ Under3(g[4], "GET", "public", "purchases", "cancel")
        /\ Under3(g[5], "POST", "public", "purchases", "cancel")
        /\ Under3(g[6], "GET", "public", "purchases", "revoke")
        /\ Under3(g[7], "POST", "public", "purchases", "revoke")
        /\ Under3(g[8], "POST", "user", "purchases", "retry")
        /\ Under2To(g[9], "POST", "user", "purchases", "revoke")
        /\ Under2To2(g[10], "GET", "user", "purchases", "revoke", "calculate")
        /\ Under2To(g[11], "POST", "user", "purchases", "marketplace-list")
        /\ Under2To(g[12], "POST", "user", "purchases", "marketplace-cancel")
        /\ Exact3(g[13], "GET", "user", "purchases", "planned")
        /\ Under3To(g[14], "POST", "user", "purchases", "planned", "pause")
        /\ Under3To(g[15], "POST", "user", "purchases", "planned", "resume")
        /\ Under3To(g[16], "POST", "user", "purchases", "planned", "run")
        /\ Under3(g[17], "DELETE", "user", "purchases", "planned")
        /\ Under2(g[18], "GET", "user", "purchases")
    BY ExactShapes, UnderShapes DEF ReqPurchaseRoutes, ReqExact, ReqUnder
  <1>2. g = [i \in 1 .. 18 |-> g[i]] /\ Len(g) = 18
    BY DEF ReqPurchaseRoutes
  <1> HIDE DEF g
  <1>3. IsSteps(g) /\ Len(g) = 18
    BY <1>2, Rows
  <1>4. \A j \in 1 .. 18 : Formed(g[j])
    BY <1>1 DEF Shape, Exact3, Under2, Under2To, Under2To2, Under3, Under3To
  <1>5. \A j \in 1 .. 18 : \A i \in 1 .. j - 1 : A(i, j)
    <2> USE DEF Apart, Shape, Exact3, Under2, Under2To, Under2To2, Under3, Under3To
    <2>1. A(1, 2) /\ A(1, 3) /\ A(2, 3) /\ A(1, 4) /\ A(2, 4) /\ A(3, 4) /\ A(1, 5)
      BY <1>1, ReqSomeIdAssumption
    <2>2. A(2, 5) /\ A(3, 5) /\ A(4, 5) /\ A(1, 6) /\ A(2, 6) /\ A(3, 6) /\ A(4, 6)
      BY <1>1, ReqSomeIdAssumption
    <2>3. A(5, 6) /\ A(1, 7) /\ A(2, 7) /\ A(3, 7) /\ A(4, 7) /\ A(5, 7) /\ A(6, 7)
      BY <1>1, ReqSomeIdAssumption
    <2>4. A(1, 8) /\ A(2, 8) /\ A(3, 8) /\ A(4, 8) /\ A(5, 8) /\ A(6, 8) /\ A(7, 8)
      BY <1>1, ReqSomeIdAssumption
    <2>5. A(1, 9) /\ A(2, 9) /\ A(3, 9) /\ A(4, 9) /\ A(5, 9) /\ A(6, 9) /\ A(7, 9)
      BY <1>1, ReqSomeIdAssumption
    <2>6. A(8, 9) /\ A(1, 10) /\ A(2, 10) /\ A(3, 10) /\ A(4, 10) /\ A(5, 10) /\ A(6, 10)
      BY <1>1, ReqSomeIdAssumption
    <2>7. A(7, 10) /\ A(8, 10) /\ A(9, 10) /\ A(1, 11) /\ A(2, 11) /\ A(3, 11) /\ A(4, 11)
      BY <1>1, ReqSomeIdAssumption
    <2>8. A(5, 11) /\ A(6, 11) /\ A(7, 11) /\ A(8, 11) /\ A(9, 11) /\ A(10, 11) /\ A(1, 12)
      BY <1>1, ReqSomeIdAssumption
    <2>9. A(2, 12) /\ A(3, 12) /\ A(4, 12) /\ A(5, 12) /\ A(6, 12) /\ A(7, 12) /\ A(8, 12)
      BY <1>1, ReqSomeIdAssumption
    <2>10. A(9, 12) /\ A(10, 12) /\ A(11, 12) /\ A(1, 13) /\ A(2, 13) /\ A(3, 13) /\ A(4, 13)
      BY <1>1, ReqSomeIdAssumption
    <2>11. A(5, 13) /\ A(6, 13) /\ A(7, 13) /\ A(8, 13) /\ A(9, 13) /\ A(10, 13) /\ A(11, 13)
      BY <1>1, ReqSomeIdAssumption
    <2>12. A(12, 13) /\ A(1, 14) /\ A(2, 14) /\ A(3, 14) /\ A(4, 14) /\ A(5, 14) /\ A(6, 14)
      BY <1>1, ReqSomeIdAssumption
    <2>13. A(7, 14) /\ A(8, 14) /\ A(9, 14) /\ A(10, 14) /\ A(11, 14) /\ A(12, 14) /\ A(13, 14)
      BY <1>1, ReqSomeIdAssumption
    <2>14. A(1, 15) /\ A(2, 15) /\ A(3, 15) /\ A(4, 15) /\ A(5, 15) /\ A(6, 15) /\ A(7, 15)
      BY <1>1, ReqSomeIdAssumption
    <2>15. A(8, 15) /\ A(9, 15) /\ A(10, 15) /\ A(11, 15) /\ A(12, 15) /\ A(13, 15) /\ A(14, 15)
      BY <1>1, ReqSomeIdAssumption
    <2>16. A(1, 16) /\ A(2, 16) /\ A(3, 16) /\ A(4, 16) /\ A(5, 16) /\ A(6, 16) /\ A(7, 16)
      BY <1>1, ReqSomeIdAssumption
    <2>17. A(8, 16) /\ A(9, 16) /\ A(10, 16) /\ A(11, 16) /\ A(12, 16) /\ A(13, 16) /\ A(14, 16)
      BY <1>1, ReqSomeIdAssumption
    <2>18. A(15, 16) /\ A(1, 17) /\ A(2, 17) /\ A(3, 17) /\ A(4, 17) /\ A(5, 17) /\ A(6, 17)
      BY <1>1, ReqSomeIdAssumption
    <2>19. A(7, 17) /\ A(8, 17) /\ A(9, 17) /\ A(10, 17) /\ A(11, 17) /\ A(12, 17) /\ A(13, 17)
      BY <1>1, ReqSomeIdAssumption
    <2>20. A(14, 17) /\ A(15, 17) /\ A(16, 17) /\ A(1, 18) /\ A(2, 18) /\ A(3, 18) /\ A(4, 18)
      BY <1>1, ReqSomeIdAssumption
    <2>21. A(5, 18) /\ A(6, 18) /\ A(7, 18) /\ A(8, 18) /\ A(9, 18) /\ A(10, 18) /\ A(11, 18)
      BY <1>1, ReqSomeIdAssumption
    <2>22. A(12, 18) /\ A(13, 18) /\ A(14, 18) /\ A(15, 18) /\ A(16, 18) /\ A(17, 18)
      BY <1>1, ReqSomeIdAssumption
    <2> HIDE DEF A, Apart, Shape, Exact3, Under2, Under2To, Under2To2, Under3, Under3To
    <2> QED BY <2>1, <2>2, <2>3, <2>4, <2>5, <2>6, <2>7, <2>8, <2>9, <2>10, <2>11, <2>12, <2>13,
           <2>14, <2>15, <2>16, <2>17, <2>18, <2>19, <2>20, <2>21, <2>22
  <1>6. Around(g, words)
    <2>1. /\ W(1) /\ W(2) /\ W(3) /\ W(4) /\ W(5) /\ W(6) /\ W(7) /\ W(8) /\ W(9) /\ W(10) /\ W(11)
          /\ W(12) /\ W(13) /\ W(14) /\ W(15) /\ W(16) /\ W(17) /\ W(18)
      BY <1>1 DEF Second, Shape, Exact3, Under2, Under2To, Under2To2, Under3, Under3To
    <2> HIDE DEF W
    <2>2. \A i \in 1 .. 18 : W(i)
      BY <2>1
    <2> QED BY <1>3, <2>2 DEF W, Around
  <1>7. InOrder(g)
    BY <1>3, <1>4, <1>5 DEF InOrder
  <1>8. Opened(g)
    <2> USE DEF Shape, Exact3, Under2, Under2To, Under2To2, Under3, Under3To
    <2>1. O(1) /\ O(2) /\ O(3) /\ O(4)
      BY <1>1, OpenRows
    <2>2. O(5) /\ O(6) /\ O(7) /\ O(8)
      BY <1>1, OpenRows
    <2>3. O(9) /\ O(10) /\ O(11) /\ O(12)
      BY <1>1
    <2>4. O(13) /\ O(14) /\ O(15) /\ O(16)
      BY <1>1
    <2>5. O(17) /\ O(18)
      BY <1>1
    <2> HIDE DEF O, Shape, Exact3, Under2, Under2To, Under2To2, Under3, Under3To
    <2>6. \A i \in 1 .. 18 : O(i)
      BY <2>1, <2>2, <2>3, <2>4, <2>5
    <2> QED BY <1>3, <2>6 DEF O, Opened
  <1> QED BY <1>6, <1>7, <1>8 DEF g, words

\* The routes of the history and the analytics.
LEMMA HistoryRoutesInOrder ==
  /\ InOrder(ReqHistoryRoutes)
  /\ Around(ReqHistoryRoutes, {"analytics", "history"})
  /\ Opened(ReqHistoryRoutes)
  <1> DEFINE g == ReqHistoryRoutes
             A(i, j) == Apart(g[i], g[j].m, ReqPathOf(g[j]))
             words == {"analytics", "history"}
             W(i) == Second(g[i].pre, words) /\ Second(ReqPathOf(g[i]), words)
             O(i) == g[i].level = "public" => ReqOpen(ReqPathOf(g[i]))
  <1>1. /\ Exact2(g[1], "GET", "user", "history")
        /\ Exact3(g[2], "GET", "user", "history", "analytics")
        /\ Exact3(g[3], "GET", "user", "history", "breakdown")
        /\ Exact3(g[4], "GET", "user", "analytics", "trends")
        /\ Exact3(g[5], "POST", "admin", "analytics", "collect")
    BY ExactShapes DEF ReqHistoryRoutes, ReqExact
  <1>2. g = [i \in 1 .. 5 |-> g[i]] /\ Len(g) = 5
    BY DEF ReqHistoryRoutes
  <1> HIDE DEF g
  <1>3. IsSteps(g) /\ Len(g) = 5
    BY <1>2, Rows
  <1>4. \A j \in 1 .. 5 : Formed(g[j])
    BY <1>1 DEF Shape, Exact2, Exact3
  <1>5. \A j \in 1 .. 5 : \A i \in 1 .. j - 1 : A(i, j)
    <2> USE DEF Apart, Shape, Exact2, Exact3
    <2>1. A(1, 2) /\ A(1, 3) /\ A(2, 3) /\ A(1, 4) /\ A(2, 4) /\ A(3, 4) /\ A(1, 5)
      BY <1>1, ReqSomeIdAssumption
    <2>2. A(2, 5) /\ A(3, 5) /\ A(4, 5)
      BY <1>1, ReqSomeIdAssumption
    <2> HIDE DEF A, Apart, Shape, Exact2, Exact3
    <2> QED BY <2>1, <2>2
  <1>6. Around(g, words)
    <2>1. W(1) /\ W(2) /\ W(3) /\ W(4) /\ W(5)
      BY <1>1 DEF Second, Shape, Exact2, Exact3
    <2> HIDE DEF W
    <2>2. \A i \in 1 .. 5 : W(i)
      BY <2>1
    <2> QED BY <1>3, <2>2 DEF W, Around
  <1>7. InOrder(g)
    BY <1>3, <1>4, <1>5 DEF InOrder
  <1>8. Opened(g)
    <2> USE DEF Shape, Exact2, Exact3
    <2>1. O(1) /\ O(2) /\ O(3) /\ O(4) /\ O(5)
      BY <1>1
    <2> HIDE DEF O, Shape, Exact2, Exact3
    <2>2. \A i \in 1 .. 5 : O(i)
      BY <2>1
    <2> QED BY <1>3, <2>2 DEF O, Opened
  <1> QED BY <1>6, <1>7, <1>8 DEF g, words

\* The routes of signing in.
LEMMA SignInRoutesInOrder ==
  /\ InOrder(ReqSignInRoutes)
  /\ Around(ReqSignInRoutes, {"auth"})
  /\ Opened(ReqSignInRoutes)
  <1> DEFINE g == ReqSignInRoutes
             A(i, j) == Apart(g[i], g[j].m, ReqPathOf(g[j]))
             words == {"auth"}
             W(i) == Second(g[i].pre, words) /\ Second(ReqPathOf(g[i]), words)
             O(i) == g[i].level = "public" => ReqOpen(ReqPathOf(g[i]))
  <1>1. /\ Exact3(g[1], "POST", "public", "auth", "login")
        /\ Exact3(g[2], "POST", "user", "auth", "logout")
        /\ Exact3(g[3], "GET", "user", "auth", "me")
        /\ Exact4(g[4], "GET", "user", "auth", "me", "permissions")
        /\ Exact3(g[5], "GET", "public", "auth", "check-admin")
        /\ Exact3(g[6], "POST", "public", "auth", "setup-admin")
        /\ Exact3(g[7], "POST", "public", "auth", "forgot-password")
        /\ Exact3(g[8], "POST", "public", "auth", "reset-password")
        /\ Exact4(g[9], "GET", "public", "auth", "reset-password", "status")
        /\ Exact3(g[10], "PUT", "user", "auth", "profile")
        /\ Exact3(g[11], "POST", "user", "auth", "change-password")
        /\ Exact4(g[12], "POST", "user", "auth", "mfa", "setup")
        /\ Exact4(g[13], "POST", "user", "auth", "mfa", "enable")
        /\ Exact4(g[14], "POST", "user", "auth", "mfa", "disable")
        /\ Exact4(g[15], "POST", "user", "auth", "mfa", "regenerate-recovery-codes")
    BY ExactShapes DEF ReqSignInRoutes, ReqExact
  <1>2. g = [i \in 1 .. 15 |-> g[i]] /\ Len(g) = 15
    BY DEF ReqSignInRoutes
  <1> HIDE DEF g
  <1>3. IsSteps(g) /\ Len(g) = 15
    BY <1>2, Rows
  <1>4. \A j \in 1 .. 15 : Formed(g[j])
    BY <1>1 DEF Shape, Exact3, Exact4
  <1>5. \A j \in 1 .. 15 : \A i \in 1 .. j - 1 : A(i, j)
    <2> USE DEF Apart, Shape, Exact3, Exact4
    <2>1. A(1, 2) /\ A(1, 3) /\ A(2, 3) /\ A(1, 4) /\ A(2, 4) /\ A(3, 4) /\ A(1, 5)
      BY <1>1, ReqSomeIdAssumption
    <2>2. A(2, 5) /\ A(3, 5) /\ A(4, 5) /\ A(1, 6) /\ A(2, 6) /\ A(3, 6) /\ A(4, 6)
      BY <1>1, ReqSomeIdAssumption
    <2>3. A(5, 6) /\ A(1, 7) /\ A(2, 7) /\ A(3, 7) /\ A(4, 7) /\ A(5, 7) /\ A(6, 7)
      BY <1>1, ReqSomeIdAssumption
    <2>4. A(1, 8) /\ A(2, 8) /\ A(3, 8) /\ A(4, 8) /\ A(5, 8) /\ A(6, 8) /\ A(7, 8)
      BY <1>1, ReqSomeIdAssumption
    <2>5. A(1, 9) /\ A(2, 9) /\ A(3, 9) /\ A(4, 9) /\ A(5, 9) /\ A(6, 9) /\ A(7, 9)
      BY <1>1, ReqSomeIdAssumption
    <2>6. A(8, 9) /\ A(1, 10) /\ A(2, 10) /\ A(3, 10) /\ A(4, 10) /\ A(5, 10) /\ A(6, 10)
      BY <1>1, ReqSomeIdAssumption
    <2>7. A(7, 10) /\ A(8, 10) /\ A(9, 10) /\ A(1, 11) /\ A(2, 11) /\ A(3, 11) /\ A(4, 11)
      BY <1>1, ReqSomeIdAssumption
    <2>8. A(5, 11) /\ A(6, 11) /\ A(7, 11) /\ A(8, 11) /\ A(9, 11) /\ A(10, 11) /\ A(1, 12)
      BY <1>1, ReqSomeIdAssumption
    <2>9. A(2, 12) /\ A(3, 12) /\ A(4, 12) /\ A(5, 12) /\ A(6, 12) /\ A(7, 12) /\ A(8, 12)
      BY <1>1, ReqSomeIdAssumption
    <2>10. A(9, 12) /\ A(10, 12) /\ A(11, 12) /\ A(1, 13) /\ A(2, 13) /\ A(3, 13) /\ A(4, 13)
      BY <1>1, ReqSomeIdAssumption
    <2>11. A(5, 13) /\ A(6, 13) /\ A(7, 13) /\ A(8, 13) /\ A(9, 13) /\ A(10, 13) /\ A(11, 13)
      BY <1>1, ReqSomeIdAssumption
    <2>12. A(12, 13) /\ A(1, 14) /\ A(2, 14) /\ A(3, 14) /\ A(4, 14) /\ A(5, 14) /\ A(6, 14)
      BY <1>1, ReqSomeIdAssumption
    <2>13. A(7, 14) /\ A(8, 14) /\ A(9, 14) /\ A(10, 14) /\ A(11, 14) /\ A(12, 14) /\ A(13, 14)
      BY <1>1, ReqSomeIdAssumption
    <2>14. A(1, 15) /\ A(2, 15) /\ A(3, 15) /\ A(4, 15) /\ A(5, 15) /\ A(6, 15) /\ A(7, 15)
      BY <1>1, ReqSomeIdAssumption
    <2>15. A(8, 15) /\ A(9, 15) /\ A(10, 15) /\ A(11, 15) /\ A(12, 15) /\ A(13, 15) /\ A(14, 15)
      BY <1>1, ReqSomeIdAssumption
    <2> HIDE DEF A, Apart, Shape, Exact3, Exact4
    <2> QED BY <2>1, <2>2, <2>3, <2>4, <2>5, <2>6, <2>7, <2>8, <2>9, <2>10, <2>11, <2>12, <2>13,
           <2>14, <2>15
  <1>6. Around(g, words)
    <2>1. /\ W(1) /\ W(2) /\ W(3) /\ W(4) /\ W(5) /\ W(6) /\ W(7) /\ W(8) /\ W(9) /\ W(10) /\ W(11)
          /\ W(12) /\ W(13) /\ W(14) /\ W(15)
      BY <1>1 DEF Second, Shape, Exact3, Exact4
    <2> HIDE DEF W
    <2>2. \A i \in 1 .. 15 : W(i)
      BY <2>1
    <2> QED BY <1>3, <2>2 DEF W, Around
  <1>7. InOrder(g)
    BY <1>3, <1>4, <1>5 DEF InOrder
  <1>8. Opened(g)
    <2> USE DEF Shape, Exact3, Exact4
    <2>1. O(1) /\ O(2) /\ O(3) /\ O(4)
      BY <1>1, OpenRows
    <2>2. O(5) /\ O(6) /\ O(7) /\ O(8)
      BY <1>1, OpenRows
    <2>3. O(9) /\ O(10) /\ O(11) /\ O(12)
      BY <1>1, OpenRows
    <2>4. O(13) /\ O(14) /\ O(15)
      BY <1>1
    <2> HIDE DEF O, Shape, Exact3, Exact4
    <2>5. \A i \in 1 .. 15 : O(i)
      BY <2>1, <2>2, <2>3, <2>4
    <2> QED BY <1>3, <2>5 DEF O, Opened
  <1> QED BY <1>6, <1>7, <1>8 DEF g, words

\* The routes of the users and their keys.
LEMMA UserRoutesInOrder ==
  /\ InOrder(ReqUserRoutes)
  /\ Around(ReqUserRoutes, {"api-keys", "users"})
  /\ Opened(ReqUserRoutes)
  <1> DEFINE g == ReqUserRoutes
             A(i, j) == Apart(g[i], g[j].m, ReqPathOf(g[j]))
             words == {"api-keys", "users"}
             W(i) == Second(g[i].pre, words) /\ Second(ReqPathOf(g[i]), words)
             O(i) == g[i].level = "public" => ReqOpen(ReqPathOf(g[i]))
  <1>1. /\ Exact3(g[1], "GET", "user", "api-keys", "usage-stats")
        /\ Exact2(g[2], "GET", "user", "api-keys")
        /\ Exact2(g[3], "POST", "user", "api-keys")
        /\ Under2To(g[4], "POST", "user", "api-keys", "revoke")
        /\ Under2(g[5], "DELETE", "user", "api-keys")
        /\ Exact2(g[6], "GET", "admin", "users")
        /\ Exact2(g[7], "POST", "admin", "users")
        /\ Under2(g[8], "GET", "admin", "users")
        /\ Under2(g[9], "PUT", "admin", "users")
        /\ Under2(g[10], "DELETE", "admin", "users")
    BY ExactShapes, UnderShapes DEF ReqUserRoutes, ReqExact, ReqUnder
  <1>2. g = [i \in 1 .. 10 |-> g[i]] /\ Len(g) = 10
    BY DEF ReqUserRoutes
  <1> HIDE DEF g
  <1>3. IsSteps(g) /\ Len(g) = 10
    BY <1>2, Rows
  <1>4. \A j \in 1 .. 10 : Formed(g[j])
    BY <1>1 DEF Shape, Exact2, Exact3, Under2, Under2To
  <1>5. \A j \in 1 .. 10 : \A i \in 1 .. j - 1 : A(i, j)
    <2> USE DEF Apart, Shape, Exact2, Exact3, Under2, Under2To
    <2>1. A(1, 2) /\ A(1, 3) /\ A(2, 3) /\ A(1, 4) /\ A(2, 4) /\ A(3, 4) /\ A(1, 5)
      BY <1>1, ReqSomeIdAssumption
    <2>2. A(2, 5) /\ A(3, 5) /\ A(4, 5) /\ A(1, 6) /\ A(2, 6) /\ A(3, 6) /\ A(4, 6)
      BY <1>1, ReqSomeIdAssumption
    <2>3. A(5, 6) /\ A(1, 7) /\ A(2, 7) /\ A(3, 7) /\ A(4, 7) /\ A(5, 7) /\ A(6, 7)
      BY <1>1, ReqSomeIdAssumption
    <2>4. A(1, 8) /\ A(2, 8) /\ A(3, 8) /\ A(4, 8) /\ A(5, 8) /\ A(6, 8) /\ A(7, 8)
      BY <1>1, ReqSomeIdAssumption
    <2>5. A(1, 9) /\ A(2, 9) /\ A(3, 9) /\ A(4, 9) /\ A(5, 9) /\ A(6, 9) /\ A(7, 9)
      BY <1>1, ReqSomeIdAssumption
    <2>6. A(8, 9) /\ A(1, 10) /\ A(2, 10) /\ A(3, 10) /\ A(4, 10) /\ A(5, 10) /\ A(6, 10)
      BY <1>1, ReqSomeIdAssumption
    <2>7. A(7, 10) /\ A(8, 10) /\ A(9, 10)
      BY <1>1, ReqSomeIdAssumption
    <2> HIDE DEF A, Apart, Shape, Exact2, Exact3, Under2, Under2To
    <2> QED BY <2>1, <2>2, <2>3, <2>4, <2>5, <2>6, <2>7
  <1>6. Around(g, words)
    <2>1. W(1) /\ W(2) /\ W(3) /\ W(4) /\ W(5) /\ W(6) /\ W(7) /\ W(8) /\ W(9) /\ W(10)
      BY <1>1 DEF Second, Shape, Exact2, Exact3, Under2, Under2To
    <2> HIDE DEF W
    <2>2. \A i \in 1 .. 10 : W(i)
      BY <2>1
    <2> QED BY <1>3, <2>2 DEF W, Around
  <1>7. InOrder(g)
    BY <1>3, <1>4, <1>5 DEF InOrder
  <1>8. Opened(g)
    <2> USE DEF Shape, Exact2, Exact3, Under2, Under2To
    <2>1. /\ O(1) /\ O(2) /\ O(3) /\ O(4) /\ O(5) /\ O(6) /\ O(7) /\ O(8) /\ O(9)
          /\ O(10)
      BY <1>1
    <2> HIDE DEF O, Shape, Exact2, Exact3, Under2, Under2To
    <2>2. \A i \in 1 .. 10 : O(i)
      BY <2>1
    <2> QED BY <1>3, <2>2 DEF O, Opened
  <1> QED BY <1>6, <1>7, <1>8 DEF g, words

\* The routes of the accounts.
LEMMA AccountRoutesInOrder ==
  /\ InOrder(ReqAccountRoutes)
  /\ Around(ReqAccountRoutes, {"accounts"})
  /\ Opened(ReqAccountRoutes)
  <1> DEFINE g == ReqAccountRoutes
             A(i, j) == Apart(g[i], g[j].m, ReqPathOf(g[j]))
             words == {"accounts"}
             W(i) == Second(g[i].pre, words) /\ Second(ReqPathOf(g[i]), words)
             O(i) == g[i].level = "public" => ReqOpen(ReqPathOf(g[i]))
  <1>1. /\ Exact3(g[1], "POST", "admin", "accounts", "discover-org")
        /\ Exact3(g[2], "POST", "admin", "accounts", "self")
        /\ Exact3(g[3], "GET", "user", "accounts", "list")
        /\ Exact2(g[4], "GET", "user", "accounts")
        /\ Exact2(g[5], "POST", "admin", "accounts")
        /\ Under2To(g[6], "POST", "admin", "accounts", "credentials")
        /\ Under2To(g[7], "POST", "admin", "accounts", "test")
        /\ Under2To(g[8], "GET", "user", "accounts", "service-overrides")
        /\ Override(g[9], "PUT", "admin", "accounts")
        /\ Under2(g[10], "PUT", "admin", "accounts")
        /\ Override(g[11], "DELETE", "admin", "accounts")
        /\ Under2(g[12], "DELETE", "admin", "accounts")
        /\ Under2(g[13], "GET", "user", "accounts")
    BY ExactShapes, UnderShapes DEF ReqAccountRoutes, ReqExact, ReqUnder, ReqOverrideRoute
  <1>2. g = [i \in 1 .. 13 |-> g[i]] /\ Len(g) = 13
    BY DEF ReqAccountRoutes
  <1> HIDE DEF g
  <1>3. IsSteps(g) /\ Len(g) = 13
    BY <1>2, Rows
  <1>4. \A j \in 1 .. 13 : Formed(g[j])
    BY <1>1 DEF Shape, Exact2, Exact3, Under2, Under2To, Override
  <1>5. \A j \in 1 .. 13 : \A i \in 1 .. j - 1 : A(i, j)
    <2> USE DEF Apart, Shape, Exact2, Exact3, Under2, Under2To, Override
    <2>1. A(1, 2) /\ A(1, 3) /\ A(2, 3) /\ A(1, 4) /\ A(2, 4) /\ A(3, 4) /\ A(1, 5)
      BY <1>1, ReqSomeIdAssumption
    <2>2. A(2, 5) /\ A(3, 5) /\ A(4, 5) /\ A(1, 6) /\ A(2, 6) /\ A(3, 6) /\ A(4, 6)
      BY <1>1, ReqSomeIdAssumption
    <2>3. A(5, 6) /\ A(1, 7) /\ A(2, 7) /\ A(3, 7) /\ A(4, 7) /\ A(5, 7) /\ A(6, 7)
      BY <1>1, ReqSomeIdAssumption
    <2>4. A(1, 8) /\ A(2, 8) /\ A(3, 8) /\ A(4, 8) /\ A(5, 8) /\ A(6, 8) /\ A(7, 8)
      BY <1>1, ReqSomeIdAssumption
    <2>5. A(1, 9) /\ A(2, 9) /\ A(3, 9) /\ A(4, 9) /\ A(5, 9) /\ A(6, 9) /\ A(7, 9)
      BY <1>1, ReqSomeIdAssumption
    <2>6. A(8, 9) /\ A(1, 10) /\ A(2, 10) /\ A(3, 10) /\ A(4, 10) /\ A(5, 10) /\ A(6, 10)
      BY <1>1, ReqSomeIdAssumption
    <2>7. A(7, 10) /\ A(8, 10) /\ A(9, 10) /\ A(1, 11) /\ A(2, 11) /\ A(3, 11) /\ A(4, 11)
      BY <1>1, ReqSomeIdAssumption
    <2>8. A(5, 11) /\ A(6, 11) /\ A(7, 11) /\ A(8, 11) /\ A(9, 11) /\ A(10, 11) /\ A(1, 12)
      BY <1>1, ReqSomeIdAssumption
    <2>9. A(2, 12) /\ A(3, 12) /\ A(4, 12) /\ A(5, 12) /\ A(6, 12) /\ A(7, 12) /\ A(8, 12)
      BY <1>1, ReqSomeIdAssumption
    <2>10. A(9, 12) /\ A(10, 12) /\ A(11, 12) /\ A(1, 13) /\ A(2, 13) /\ A(3, 13) /\ A(4, 13)
      BY <1>1, ReqSomeIdAssumption
    <2>11. A(5, 13) /\ A(6, 13) /\ A(7, 13) /\ A(8, 13) /\ A(9, 13) /\ A(10, 13) /\ A(11, 13)
      BY <1>1, ReqSomeIdAssumption
    <2>12. A(12, 13)
      BY <1>1, ReqSomeIdAssumption
    <2> HIDE DEF A, Apart, Shape, Exact2, Exact3, Under2, Under2To, Override
    <2> QED BY <2>1, <2>2, <2>3, <2>4, <2>5, <2>6, <2>7, <2>8, <2>9, <2>10, <2>11, <2>12
  <1>6. Around(g, words)
    <2>1. /\ W(1) /\ W(2) /\ W(3) /\ W(4) /\ W(5) /\ W(6) /\ W(7) /\ W(8) /\ W(9) /\ W(10) /\ W(11)
          /\ W(12) /\ W(13)
      BY <1>1 DEF Second, Shape, Exact2, Exact3, Under2, Under2To, Override
    <2> HIDE DEF W
    <2>2. \A i \in 1 .. 13 : W(i)
      BY <2>1
    <2> QED BY <1>3, <2>2 DEF W, Around
  <1>7. InOrder(g)
    BY <1>3, <1>4, <1>5 DEF InOrder
  <1>8. Opened(g)
    <2> USE DEF Shape, Exact2, Exact3, Under2, Under2To, Override
    <2>1. /\ O(1) /\ O(2) /\ O(3) /\ O(4) /\ O(5) /\ O(6) /\ O(7) /\ O(8) /\ O(9)
          /\ O(10) /\ O(11) /\ O(12) /\ O(13)
      BY <1>1
    <2> HIDE DEF O, Shape, Exact2, Exact3, Under2, Under2To, Override
    <2>2. \A i \in 1 .. 13 : O(i)
      BY <2>1
    <2> QED BY <1>3, <2>2 DEF O, Opened
  <1> QED BY <1>6, <1>7, <1>8 DEF g, words

\* The routes of the groups and the inventory.
LEMMA GroupRoutesInOrder ==
  /\ InOrder(ReqGroupRoutes)
  /\ Around(ReqGroupRoutes, {"groups", "inventory"})
  /\ Opened(ReqGroupRoutes)
  <1> DEFINE g == ReqGroupRoutes
             A(i, j) == Apart(g[i], g[j].m, ReqPathOf(g[j]))
             words == {"groups", "inventory"}
             W(i) == Second(g[i].pre, words) /\ Second(ReqPathOf(g[i]), words)
             O(i) == g[i].level = "public" => ReqOpen(ReqPathOf(g[i]))
  <1>1. /\ Exact2(g[1], "GET", "user", "groups")
        /\ Exact2(g[2], "POST", "admin", "groups")
        /\ Under2(g[3], "GET", "user", "groups")
        /\ Under2(g[4], "PUT", "admin", "groups")
        /\ Under2(g[5], "DELETE", "admin", "groups")
        /\ Exact3(g[6], "GET", "user", "inventory", "commitments")
        /\ Exact3(g[7], "GET", "user", "inventory", "coverage")
    BY ExactShapes, UnderShapes DEF ReqGroupRoutes, ReqExact, ReqUnder
  <1>2. g = [i \in 1 .. 7 |-> g[i]] /\ Len(g) = 7
    BY DEF ReqGroupRoutes
  <1> HIDE DEF g
  <1>3. IsSteps(g) /\ Len(g) = 7
    BY <1>2, Rows
  <1>4. \A j \in 1 .. 7 : Formed(g[j])
    BY <1>1 DEF Shape, Exact2, Exact3, Under2
  <1>5. \A j \in 1 .. 7 : \A i \in 1 .. j - 1 : A(i, j)
    <2> USE DEF Apart, Shape, Exact2, Exact3, Under2
    <2>1. A(1, 2) /\ A(1, 3) /\ A(2, 3) /\ A(1, 4) /\ A(2, 4) /\ A(3, 4) /\ A(1, 5)
      BY <1>1, ReqSomeIdAssumption
    <2>2. A(2, 5) /\ A(3, 5) /\ A(4, 5) /\ A(1, 6) /\ A(2, 6) /\ A(3, 6) /\ A(4, 6)
      BY <1>1, ReqSomeIdAssumption
    <2>3. A(5, 6) /\ A(1, 7) /\ A(2, 7) /\ A(3, 7) /\ A(4, 7) /\ A(5, 7) /\ A(6, 7)
      BY <1>1, ReqSomeIdAssumption
    <2> HIDE DEF A, Apart, Shape, Exact2, Exact3, Under2
    <2> QED BY <2>1, <2>2, <2>3
  <1>6. Around(g, words)
    <2>1. W(1) /\ W(2) /\ W(3) /\ W(4) /\ W(5) /\ W(6) /\ W(7)
      BY <1>1 DEF Second, Shape, Exact2, Exact3, Under2
    <2> HIDE DEF W
    <2>2. \A i \in 1 .. 7 : W(i)
      BY <2>1
    <2> QED BY <1>3, <2>2 DEF W, Around
  <1>7. InOrder(g)
    BY <1>3, <1>4, <1>5 DEF InOrder
  <1>8. Opened(g)
    <2> USE DEF Shape, Exact2, Exact3, Under2
    <2>1. O(1) /\ O(2) /\ O(3) /\ O(4) /\ O(5) /\ O(6) /\ O(7)
      BY <1>1
    <2> HIDE DEF O, Shape, Exact2, Exact3, Under2
    <2>2. \A i \in 1 .. 7 : O(i)
      BY <2>1
    <2> QED BY <1>3, <2>2 DEF O, Opened
  <1> QED BY <1>6, <1>7, <1>8 DEF g, words

\* The routes of the RI exchange.
LEMMA ExchangeRoutesInOrder ==
  /\ InOrder(ReqExchangeRoutes)
  /\ Around(ReqExchangeRoutes, {"ri-exchange"})
  /\ Opened(ReqExchangeRoutes)
  <1> DEFINE g == ReqExchangeRoutes
             A(i, j) == Apart(g[i], g[j].m, ReqPathOf(g[j]))
             words == {"ri-exchange"}
             W(i) == Second(g[i].pre, words) /\ Second(ReqPathOf(g[i]), words)
             O(i) == g[i].level = "public" => ReqOpen(ReqPathOf(g[i]))
  <1>1. /\ Exact3(g[1], "GET", "user", "ri-exchange", "azure-instances")
        /\ Exact4(g[2], "POST", "user", "ri-exchange", "azure-instances", "compatible-offerings")
        /\ Exact4(g[3], "POST", "user", "ri-exchange", "azure-instances", "exchange")
        /\ Exact3(g[4], "GET", "user", "ri-exchange", "instances")
        /\ Exact3(g[5], "GET", "user", "ri-exchange", "target-offerings")
        /\ Exact3(g[6], "GET", "user", "ri-exchange", "utilization")
        /\ Exact3(g[7], "GET", "user", "ri-exchange", "reshape-recommendations")
        /\ Exact3(g[8], "POST", "user", "ri-exchange", "quote")
        /\ Exact3(g[9], "POST", "user", "ri-exchange", "execute")
        /\ Exact3(g[10], "GET", "user", "ri-exchange", "config")
        /\ Exact3(g[11], "PUT", "user", "ri-exchange", "config")
        /\ Exact3(g[12], "GET", "user", "ri-exchange", "history")
        /\ Under3(g[13], "POST", "public", "ri-exchange", "approve")
        /\ Under3(g[14], "POST", "public", "ri-exchange", "reject")
    BY ExactShapes, UnderShapes DEF ReqExchangeRoutes, ReqExact, ReqUnder
  <1>2. g = [i \in 1 .. 14 |-> g[i]] /\ Len(g) = 14
    BY DEF ReqExchangeRoutes
  <1> HIDE DEF g
  <1>3. IsSteps(g) /\ Len(g) = 14
    BY <1>2, Rows
  <1>4. \A j \in 1 .. 14 : Formed(g[j])
    BY <1>1 DEF Shape, Exact3, Exact4, Under3
  <1>5. \A j \in 1 .. 14 : \A i \in 1 .. j - 1 : A(i, j)
    <2> USE DEF Apart, Shape, Exact3, Exact4, Under3
    <2>1. A(1, 2) /\ A(1, 3) /\ A(2, 3) /\ A(1, 4) /\ A(2, 4) /\ A(3, 4) /\ A(1, 5)
      BY <1>1, ReqSomeIdAssumption
    <2>2. A(2, 5) /\ A(3, 5) /\ A(4, 5) /\ A(1, 6) /\ A(2, 6) /\ A(3, 6) /\ A(4, 6)
      BY <1>1, ReqSomeIdAssumption
    <2>3. A(5, 6) /\ A(1, 7) /\ A(2, 7) /\ A(3, 7) /\ A(4, 7) /\ A(5, 7) /\ A(6, 7)
      BY <1>1, ReqSomeIdAssumption
    <2>4. A(1, 8) /\ A(2, 8) /\ A(3, 8) /\ A(4, 8) /\ A(5, 8) /\ A(6, 8) /\ A(7, 8)
      BY <1>1, ReqSomeIdAssumption
    <2>5. A(1, 9) /\ A(2, 9) /\ A(3, 9) /\ A(4, 9) /\ A(5, 9) /\ A(6, 9) /\ A(7, 9)
      BY <1>1, ReqSomeIdAssumption
    <2>6. A(8, 9) /\ A(1, 10) /\ A(2, 10) /\ A(3, 10) /\ A(4, 10) /\ A(5, 10) /\ A(6, 10)
      BY <1>1, ReqSomeIdAssumption
    <2>7. A(7, 10) /\ A(8, 10) /\ A(9, 10) /\ A(1, 11) /\ A(2, 11) /\ A(3, 11) /\ A(4, 11)
      BY <1>1, ReqSomeIdAssumption
    <2>8. A(5, 11) /\ A(6, 11) /\ A(7, 11) /\ A(8, 11) /\ A(9, 11) /\ A(10, 11) /\ A(1, 12)
      BY <1>1, ReqSomeIdAssumption
    <2>9. A(2, 12) /\ A(3, 12) /\ A(4, 12) /\ A(5, 12) /\ A(6, 12) /\ A(7, 12) /\ A(8, 12)
      BY <1>1, ReqSomeIdAssumption
    <2>10. A(9, 12) /\ A(10, 12) /\ A(11, 12) /\ A(1, 13) /\ A(2, 13) /\ A(3, 13) /\ A(4, 13)
      BY <1>1, ReqSomeIdAssumption
    <2>11. A(5, 13) /\ A(6, 13) /\ A(7, 13) /\ A(8, 13) /\ A(9, 13) /\ A(10, 13) /\ A(11, 13)
      BY <1>1, ReqSomeIdAssumption
    <2>12. A(12, 13) /\ A(1, 14) /\ A(2, 14) /\ A(3, 14) /\ A(4, 14) /\ A(5, 14) /\ A(6, 14)
      BY <1>1, ReqSomeIdAssumption
    <2>13. A(7, 14) /\ A(8, 14) /\ A(9, 14) /\ A(10, 14) /\ A(11, 14) /\ A(12, 14) /\ A(13, 14)
      BY <1>1, ReqSomeIdAssumption
    <2> HIDE DEF A, Apart, Shape, Exact3, Exact4, Under3
    <2> QED BY <2>1, <2>2, <2>3, <2>4, <2>5, <2>6, <2>7, <2>8, <2>9, <2>10, <2>11, <2>12, <2>13
  <1>6. Around(g, words)
    <2>1. /\ W(1) /\ W(2) /\ W(3) /\ W(4) /\ W(5) /\ W(6) /\ W(7) /\ W(8) /\ W(9) /\ W(10) /\ W(11)
          /\ W(12) /\ W(13) /\ W(14)
      BY <1>1 DEF Second, Shape, Exact3, Exact4, Under3
    <2> HIDE DEF W
    <2>2. \A i \in 1 .. 14 : W(i)
      BY <2>1
    <2> QED BY <1>3, <2>2 DEF W, Around
  <1>7. InOrder(g)
    BY <1>3, <1>4, <1>5 DEF InOrder
  <1>8. Opened(g)
    <2> USE DEF Shape, Exact3, Exact4, Under3
    <2>1. O(1) /\ O(2) /\ O(3) /\ O(4)
      BY <1>1
    <2>2. O(5) /\ O(6) /\ O(7) /\ O(8)
      BY <1>1
    <2>3. O(9) /\ O(10) /\ O(11) /\ O(12)
      BY <1>1
    <2>4. O(13) /\ O(14)
      BY <1>1, OpenRows
    <2> HIDE DEF O, Shape, Exact3, Exact4, Under3
    <2>5. \A i \in 1 .. 14 : O(i)
      BY <2>1, <2>2, <2>3, <2>4
    <2> QED BY <1>3, <2>5 DEF O, Opened
  <1> QED BY <1>6, <1>7, <1>8 DEF g, words

\* The routes of all the rest.
LEMMA OtherRoutesInOrder ==
  /\ InOrder(ReqOtherRoutes)
  /\ Elsewhere(ReqOtherRoutes, EarlyWords \cup LaterWords)
  /\ Opened(ReqOtherRoutes)
  <1> DEFINE g == ReqOtherRoutes
             A(i, j) == Apart(g[i], g[j].m, ReqPathOf(g[j]))
             words == EarlyWords \cup LaterWords
             W(i) == ~Second(ReqPathOf(g[i]), words)
             O(i) == g[i].level = "public" => ReqOpen(ReqPathOf(g[i]))
  <1>1. /\ Exact3(g[1], "GET", "user", "ladder", "configs")
        /\ Exact3(g[2], "PUT", "user", "ladder", "configs")
        /\ Exact3(g[3], "GET", "public", "notifications", "unsubscribe")
        /\ Exact3(g[4], "POST", "public", "notifications", "unsubscribe")
        /\ Exact2(g[5], "POST", "public", "register")
        /\ Under2(g[6], "GET", "public", "register")
        /\ Exact2(g[7], "GET", "admin", "registrations")
        /\ Under2To(g[8], "POST", "admin", "registrations", "approve")
        /\ Under2To(g[9], "POST", "admin", "registrations", "reject")
        /\ Under2(g[10], "DELETE", "admin", "registrations")
        /\ Under2(g[11], "GET", "admin", "registrations")
        /\ Exact3(g[12], "GET", "user", "federation", "iac")
        /\ Exact1(g[13], "any", "public", "health")
        /\ Exact2(g[14], "any", "public", "health")
        /\ Exact2(g[15], "GET", "public", "info")
        /\ Exact3(g[16], "GET", "user", "info", "deployment")
        /\ Exact1(g[17], "GET", "public", "version")
        /\ Root2(g[18], "GET", "public", "docs")
        /\ Root2(g[19], "HEAD", "public", "docs")
        /\ Root1(g[20], "GET", "public", "docs")
        /\ Root1(g[21], "HEAD", "public", "docs")
    BY OtherShapes, ExactShapes, UnderShapes DEF ReqOtherRoutes, ReqExact, ReqUnder
  <1>2. g = [i \in 1 .. 21 |-> g[i]] /\ Len(g) = 21
    BY DEF ReqOtherRoutes
  <1> HIDE DEF g
  <1>3. IsSteps(g) /\ Len(g) = 21
    BY <1>2, Rows
  <1>4. \A j \in 1 .. 21 : Formed(g[j])
    BY <1>1 DEF Shape, Exact2, Exact3, Under2, Under2To, Exact1, Root1, Root2
  <1>5. \A j \in 1 .. 21 : \A i \in 1 .. j - 1 : A(i, j)
    <2> USE DEF Apart, Shape, Exact2, Exact3, Under2, Under2To, Exact1, Root1, Root2
    <2>1. A(1, 2) /\ A(1, 3) /\ A(2, 3) /\ A(1, 4) /\ A(2, 4) /\ A(3, 4) /\ A(1, 5)
      BY <1>1, ReqSomeIdAssumption
    <2>2. A(2, 5) /\ A(3, 5) /\ A(4, 5) /\ A(1, 6) /\ A(2, 6) /\ A(3, 6) /\ A(4, 6)
      BY <1>1, ReqSomeIdAssumption
    <2>3. A(5, 6) /\ A(1, 7) /\ A(2, 7) /\ A(3, 7) /\ A(4, 7) /\ A(5, 7) /\ A(6, 7)
      BY <1>1, ReqSomeIdAssumption
    <2>4. A(1, 8) /\ A(2, 8) /\ A(3, 8) /\ A(4, 8) /\ A(5, 8) /\ A(6, 8) /\ A(7, 8)
      BY <1>1, ReqSomeIdAssumption
    <2>5. A(1, 9) /\ A(2, 9) /\ A(3, 9) /\ A(4, 9) /\ A(5, 9) /\ A(6, 9) /\ A(7, 9)
      BY <1>1, ReqSomeIdAssumption
    <2>6. A(8, 9) /\ A(1, 10) /\ A(2, 10) /\ A(3, 10) /\ A(4, 10) /\ A(5, 10) /\ A(6, 10)
      BY <1>1, ReqSomeIdAssumption
    <2>7. A(7, 10) /\ A(8, 10) /\ A(9, 10) /\ A(1, 11) /\ A(2, 11) /\ A(3, 11) /\ A(4, 11)
      BY <1>1, ReqSomeIdAssumption
    <2>8. A(5, 11) /\ A(6, 11) /\ A(7, 11) /\ A(8, 11) /\ A(9, 11) /\ A(10, 11) /\ A(1, 12)
      BY <1>1, ReqSomeIdAssumption
    <2>9. A(2, 12) /\ A(3, 12) /\ A(4, 12) /\ A(5, 12) /\ A(6, 12) /\ A(7, 12) /\ A(8, 12)
      BY <1>1, ReqSomeIdAssumption
    <2>10. A(9, 12) /\ A(10, 12) /\ A(11, 12) /\ A(1, 13) /\ A(2, 13) /\ A(3, 13) /\ A(4, 13)
      BY <1>1, ReqSomeIdAssumption
    <2>11. A(5, 13) /\ A(6, 13) /\ A(7, 13) /\ A(8, 13) /\ A(9, 13) /\ A(10, 13) /\ A(11, 13)
      BY <1>1, ReqSomeIdAssumption
    <2>12. A(12, 13) /\ A(1, 14) /\ A(2, 14) /\ A(3, 14) /\ A(4, 14) /\ A(5, 14) /\ A(6, 14)
      BY <1>1, ReqSomeIdAssumption
    <2>13. A(7, 14) /\ A(8, 14) /\ A(9, 14) /\ A(10, 14) /\ A(11, 14) /\ A(12, 14) /\ A(13, 14)
      BY <1>1, ReqSomeIdAssumption
    <2>14. A(1, 15) /\ A(2, 15) /\ A(3, 15) /\ A(4, 15) /\ A(5, 15) /\ A(6, 15) /\ A(7, 15)
      BY <1>1, ReqSomeIdAssumption
    <2>15. A(8, 15) /\ A(9, 15) /\ A(10, 15) /\ A(11, 15) /\ A(12, 15) /\ A(13, 15) /\ A(14, 15)
      BY <1>1, ReqSomeIdAssumption
    <2>16. A(1, 16) /\ A(2, 16) /\ A(3, 16) /\ A(4, 16) /\ A(5, 16) /\ A(6, 16) /\ A(7, 16)
      BY <1>1, ReqSomeIdAssumption
    <2>17. A(8, 16) /\ A(9, 16) /\ A(10, 16) /\ A(11, 16) /\ A(12, 16) /\ A(13, 16) /\ A(14, 16)
      BY <1>1, ReqSomeIdAssumption
    <2>18. A(15, 16) /\ A(1, 17) /\ A(2, 17) /\ A(3, 17) /\ A(4, 17) /\ A(5, 17) /\ A(6, 17)
      BY <1>1, ReqSomeIdAssumption
    <2>19. A(7, 17) /\ A(8, 17) /\ A(9, 17) /\ A(10, 17) /\ A(11, 17) /\ A(12, 17) /\ A(13, 17)
      BY <1>1, ReqSomeIdAssumption
    <2>20. A(14, 17) /\ A(15, 17) /\ A(16, 17) /\ A(1, 18) /\ A(2, 18) /\ A(3, 18) /\ A(4, 18)
      BY <1>1, ReqSomeIdAssumption
    <2>21. A(5, 18) /\ A(6, 18) /\ A(7, 18) /\ A(8, 18) /\ A(9, 18) /\ A(10, 18) /\ A(11, 18)
      BY <1>1, ReqSomeIdAssumption
    <2>22. A(12, 18) /\ A(13, 18) /\ A(14, 18) /\ A(15, 18) /\ A(16, 18) /\ A(17, 18) /\ A(1, 19)
      BY <1>1, ReqSomeIdAssumption
    <2>23. A(2, 19) /\ A(3, 19) /\ A(4, 19) /\ A(5, 19) /\ A(6, 19) /\ A(7, 19) /\ A(8, 19)
      BY <1>1, ReqSomeIdAssumption
    <2>24. A(9, 19) /\ A(10, 19) /\ A(11, 19) /\ A(12, 19) /\ A(13, 19) /\ A(14, 19) /\ A(15, 19)
      BY <1>1, ReqSomeIdAssumption
    <2>25. A(16, 19) /\ A(17, 19) /\ A(18, 19) /\ A(1, 20) /\ A(2, 20) /\ A(3, 20) /\ A(4, 20)
      BY <1>1, ReqSomeIdAssumption
    <2>26. A(5, 20) /\ A(6, 20) /\ A(7, 20) /\ A(8, 20) /\ A(9, 20) /\ A(10, 20) /\ A(11, 20)
      BY <1>1, ReqSomeIdAssumption
    <2>27. A(12, 20) /\ A(13, 20) /\ A(14, 20) /\ A(15, 20) /\ A(16, 20) /\ A(17, 20) /\ A(18, 20)
      BY <1>1, ReqSomeIdAssumption
    <2>28. A(19, 20) /\ A(1, 21) /\ A(2, 21) /\ A(3, 21) /\ A(4, 21) /\ A(5, 21) /\ A(6, 21)
      BY <1>1, ReqSomeIdAssumption
    <2>29. A(7, 21) /\ A(8, 21) /\ A(9, 21) /\ A(10, 21) /\ A(11, 21) /\ A(12, 21) /\ A(13, 21)
      BY <1>1, ReqSomeIdAssumption
    <2>30. A(14, 21) /\ A(15, 21) /\ A(16, 21) /\ A(17, 21) /\ A(18, 21) /\ A(19, 21) /\ A(20, 21)
      BY <1>1, ReqSomeIdAssumption
    <2> HIDE DEF A, Apart, Shape, Exact2, Exact3, Under2, Under2To, Exact1, Root1, Root2
    <2> QED BY <2>1, <2>2, <2>3, <2>4, <2>5, <2>6, <2>7, <2>8, <2>9, <2>10, <2>11, <2>12, <2>13,
           <2>14, <2>15, <2>16, <2>17, <2>18, <2>19, <2>20, <2>21, <2>22, <2>23, <2>24,
           <2>25, <2>26, <2>27, <2>28, <2>29, <2>30
  <1>6. Elsewhere(g, words)
    <2>1. /\ W(1) /\ W(2) /\ W(3) /\ W(4) /\ W(5) /\ W(6) /\ W(7) /\ W(8) /\ W(9) /\ W(10) /\ W(11)
          /\ W(12) /\ W(13) /\ W(14) /\ W(15) /\ W(16) /\ W(17) /\ W(18) /\ W(19) /\ W(20) /\ W(21)
      BY <1>1 DEF Second, EarlyWords, LaterWords, Shape, Exact2, Exact3, Under2, Under2To, Exact1, Root1, Root2
    <2> HIDE DEF W
    <2>2. \A i \in 1 .. 21 : W(i)
      BY <2>1
    <2> QED BY <1>3, <2>2 DEF W, Elsewhere
  <1>7. InOrder(g)
    BY <1>3, <1>4, <1>5 DEF InOrder
  <1>8. Opened(g)
    <2> USE DEF Shape, Exact2, Exact3, Under2, Under2To, Exact1, Root1, Root2
    <2>1. O(1) /\ O(2) /\ O(7) /\ O(8)
      BY <1>1
    <2>2. O(9) /\ O(10) /\ O(11) /\ O(12) /\ O(16)
      BY <1>1
    <2>3. O(3) /\ O(4)
      BY <1>1, OpenRows
    <2>4. O(5)
      BY <1>1, OpenRows
    <2>5. O(6)
      BY <1>1, OpenRows
    <2>6. O(14) /\ O(15)
      BY <1>1, OpenRows
    <2>7. O(18) /\ O(19)
      BY <1>1, OpenRows
    <2>8. O(13) /\ O(17)
      BY <1>1, OpenWord
    <2>9. O(20) /\ O(21)
      BY <1>1, OpenWord
    <2> HIDE DEF O, Shape, Exact2, Exact3, Under2, Under2To, Exact1, Root1, Root2
    <2>10. \A i \in 1 .. 21 : O(i)
      BY <2>1, <2>2, <2>3, <2>4, <2>5, <2>6, <2>7, <2>8, <2>9
    <2> QED BY <1>3, <2>10 DEF O, Opened
  <1> QED BY <1>6, <1>7, <1>8 DEF g, words

\* The routes up to the sign-in, in order.
LEMMA EarlyInOrder ==
  InOrder(ReqEarlyRoutes) /\ Around(ReqEarlyRoutes, EarlyWords) /\ Opened(ReqEarlyRoutes)
  <1> DEFINE v1 == {"commitment-options", "config", "dashboard", "recommendations"}
             v2 == {"plans"}
             v3 == {"purchases"}
             v4 == {"analytics", "history"}
             v5 == {"auth"}
             g1 == ReqPageRoutes
             g2 == g1 \o ReqPlanRoutes
             g3 == g2 \o ReqPurchaseRoutes
             g4 == g3 \o ReqHistoryRoutes
             g5 == g4 \o ReqSignInRoutes
  <1>1. InOrder(g1) /\ Around(g1, v1) /\ Opened(g1)
    BY PageRoutesInOrder
  <1>2. InOrder(g2) /\ Around(g2, v1 \cup v2) /\ Opened(g2)
    <2>1. v1 \cap v2 = {}
      OBVIOUS
    <2>2. InOrder(ReqPlanRoutes) /\ Around(ReqPlanRoutes, v2) /\ Opened(ReqPlanRoutes)
      BY PlanRoutesInOrder
    <2> HIDE DEF v1, v2, g1
    <2> QED BY <1>1, <2>1, <2>2, GroupAfter
  <1>3. InOrder(g3) /\ Around(g3, (v1 \cup v2) \cup v3) /\ Opened(g3)
    <2>1. (v1 \cup v2) \cap v3 = {}
      OBVIOUS
    <2>2. InOrder(ReqPurchaseRoutes) /\ Around(ReqPurchaseRoutes, v3) /\ Opened(ReqPurchaseRoutes)
      BY PurchaseRoutesInOrder
    <2> HIDE DEF v1, v2, v3, g2
    <2> QED BY <1>2, <2>1, <2>2, GroupAfter
  <1>4. InOrder(g4) /\ Around(g4, ((v1 \cup v2) \cup v3) \cup v4) /\ Opened(g4)
    <2>1. ((v1 \cup v2) \cup v3) \cap v4 = {}
      OBVIOUS
    <2>2. InOrder(ReqHistoryRoutes) /\ Around(ReqHistoryRoutes, v4) /\ Opened(ReqHistoryRoutes)
      BY HistoryRoutesInOrder
    <2> HIDE DEF v1, v2, v3, v4, g3
    <2> QED BY <1>3, <2>1, <2>2, GroupAfter
  <1>5. InOrder(g5) /\ Around(g5, (((v1 \cup v2) \cup v3) \cup v4) \cup v5) /\ Opened(g5)
    <2>1. (((v1 \cup v2) \cup v3) \cup v4) \cap v5 = {}
      OBVIOUS
    <2>2. InOrder(ReqSignInRoutes) /\ Around(ReqSignInRoutes, v5) /\ Opened(ReqSignInRoutes)
      BY SignInRoutesInOrder
    <2> HIDE DEF v1, v2, v3, v4, v5, g4
    <2> QED BY <1>4, <2>1, <2>2, GroupAfter
  <1>6. (((v1 \cup v2) \cup v3) \cup v4) \cup v5 = EarlyWords
    BY DEF EarlyWords
  <1>7. g5 = ReqEarlyRoutes
    BY DEF ReqEarlyRoutes
  <1> HIDE DEF g5, v1, v2, v3, v4, v5
  <1> QED BY <1>5, <1>6, <1>7

\* registerRoutes: each route is the first for a path of its own, and a public one
\* is open.
LEMMA AllServed == \A i \in DOMAIN ReqRoutes : ReqServed(i)
  <1> DEFINE v1 == EarlyWords
             v2 == {"api-keys", "users"}
             v3 == {"accounts"}
             v4 == {"groups", "inventory"}
             v5 == {"ri-exchange"}
             g1 == ReqEarlyRoutes
             g2 == g1 \o ReqUserRoutes
             g3 == g2 \o ReqAccountRoutes
             g4 == g3 \o ReqGroupRoutes
             g5 == g4 \o ReqExchangeRoutes
  <1>1. InOrder(g1) /\ Around(g1, v1) /\ Opened(g1)
    BY EarlyInOrder
  <1>2. InOrder(g2) /\ Around(g2, v1 \cup v2) /\ Opened(g2)
    <2>1. v1 \cap v2 = {}
      BY DEF EarlyWords
    <2>2. InOrder(ReqUserRoutes) /\ Around(ReqUserRoutes, v2) /\ Opened(ReqUserRoutes)
      BY UserRoutesInOrder
    <2> HIDE DEF v1, v2, g1
    <2> QED BY <1>1, <2>1, <2>2, GroupAfter
  <1>3. InOrder(g3) /\ Around(g3, (v1 \cup v2) \cup v3) /\ Opened(g3)
    <2>1. (v1 \cup v2) \cap v3 = {}
      BY DEF EarlyWords
    <2>2. InOrder(ReqAccountRoutes) /\ Around(ReqAccountRoutes, v3) /\ Opened(ReqAccountRoutes)
      BY AccountRoutesInOrder
    <2> HIDE DEF v1, v2, v3, g2
    <2> QED BY <1>2, <2>1, <2>2, GroupAfter
  <1>4. InOrder(g4) /\ Around(g4, ((v1 \cup v2) \cup v3) \cup v4) /\ Opened(g4)
    <2>1. ((v1 \cup v2) \cup v3) \cap v4 = {}
      BY DEF EarlyWords
    <2>2. InOrder(ReqGroupRoutes) /\ Around(ReqGroupRoutes, v4) /\ Opened(ReqGroupRoutes)
      BY GroupRoutesInOrder
    <2> HIDE DEF v1, v2, v3, v4, g3
    <2> QED BY <1>3, <2>1, <2>2, GroupAfter
  <1>5. InOrder(g5) /\ Around(g5, (((v1 \cup v2) \cup v3) \cup v4) \cup v5) /\ Opened(g5)
    <2>1. (((v1 \cup v2) \cup v3) \cup v4) \cap v5 = {}
      BY DEF EarlyWords
    <2>2. InOrder(ReqExchangeRoutes) /\ Around(ReqExchangeRoutes, v5) /\ Opened(ReqExchangeRoutes)
      BY ExchangeRoutesInOrder
    <2> HIDE DEF v1, v2, v3, v4, v5, g4
    <2> QED BY <1>4, <2>1, <2>2, GroupAfter
  <1> DEFINE all == EarlyWords \cup LaterWords
  <1>6. (((v1 \cup v2) \cup v3) \cup v4) \cup v5 = all
    BY DEF EarlyWords, LaterWords
  <1>7. InOrder(ReqOtherRoutes) /\ Elsewhere(ReqOtherRoutes, all) /\ Opened(ReqOtherRoutes)
    BY OtherRoutesInOrder
  <1>8. ReqRoutes = g5 \o ReqOtherRoutes
    BY DEF ReqRoutes
  <1> HIDE DEF g5, v1, v2, v3, v4, v5, all
  <1>9. InOrder(g5) /\ Around(g5, all) /\ Opened(g5)
    BY <1>5, <1>6
  <1>10. InOrder(ReqRoutes)
    BY <1>7, <1>8, <1>9, InOrderJoin
  <1>11. Opened(ReqRoutes)
    <2>1. IsSteps(g5) /\ IsSteps(ReqOtherRoutes)
      BY <1>7, <1>9 DEF InOrder
    <2> QED BY <1>7, <1>8, <1>9, <2>1, AroundJoin
  <1>12. ASSUME NEW i \in DOMAIN ReqRoutes PROVE ReqServed(i)
    <2>1. i \in 1 .. Len(ReqRoutes)
      BY <1>10 DEF InOrder, IsSteps
    <2>2. ReqResolve(ReqRoutes[i].m, ReqPathOf(ReqRoutes[i])) = i
      BY <1>10, FirstForItsPath
    <2>3. ReqRoutes[i].level = "public" => ReqOpen(ReqPathOf(ReqRoutes[i]))
      BY <1>11, <2>1 DEF Opened
    <2> QED BY <2>2, <2>3 DEF ReqServed
  <1> QED BY <1>12

\* A request writes only behind what the level of its route asks for, and the route
\* is the one that is registered for its path (Route, requirePermission).
THEOREM RequestsPermitted == ReqSpec => []ReqPermitted
  <1>1. ReqInv => ReqPermitted
    <2>1. ReqInv => reqRoute \in DOMAIN ReqRoutes
      BY DEF ReqInv
    <2> QED BY <2>1, ReqInvSound, AllServed DEF ReqPermitted
  <1> QED BY <1>1, ReqInitSound, ReqStepSound, PTL DEF ReqSpec

=============================================================================
