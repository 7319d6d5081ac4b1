------------------------------- MODULE RequestSteps ------------------------------
(* What the handlers of the HTTP API are made of: the kinds of steps a handler  *)
(* takes, who is let through and how the others are turned away, the checks     *)
(* before a handler does anything; and the handlers of sessions and of the own  *)
(* account. What a refusal says and what an answer holds are left out.          *)
EXTENDS FiniteSets, Naturals, Sequences

ReqStep(do, rows, codes) == [do |-> do, rows |-> rows, codes |-> codes, who |-> "none", undo |-> {}]
\* May be refused with a code.
ReqNo(codes) == <<ReqStep("no", {}, codes)>>
\* Only for callers of a kind.
ReqWho(who) == <<[ReqStep("who", {}, {}) EXCEPT !.who = who]>>
\* Read, with the codes for a row that is not there; read if it can be.
ReqRead(rows, codes) == <<ReqStep("read", rows, codes)>>
ReqPeek(rows) == <<ReqStep("peek", rows, {})>>
\* Statements of their own columns, inserts and deletes.
ReqPut(rows) == <<ReqStep("put", rows, {})>>
\* One transaction that reads the rows under lock, or one statement.
ReqAtomic(rows, codes) == <<ReqStep("put", rows, codes)>>
\* All of a row as it was read.
ReqSave(rows) == <<ReqStep("save", rows, {})>>
\* A statement that repeats the condition it depends on.
ReqClaim(rows) == <<ReqStep("claim", rows, {409})>>
\* A failure is logged and forgotten.
ReqTry(rows) == <<ReqStep("try", rows, {})>>
\* What fails or refuses here takes rows back, as far as that works.
ReqUndoing(steps, rows) == [i \in DOMAIN steps |-> [steps[i] EXCEPT !.undo = rows]]
------------------------------------------------------------------------------
(* The way in. *)
\* Key: the administrators', one of a user, or none; whether a valid session
\* comes with it; what its owner may: nothing, the verb asked for, everything
\* but the verbs carved out.
ReqCanDo(c, carved) ==
    \/ c.key = "admin"
    \/ (c.key = "user" \/ c.session) /\ \/ "verb" \in c.may
                                        \/ "admin" \in c.may /\ ~carved
ReqPasses(who, c) ==
    CASE who = "any" -> c.key # "none" \/ c.session
      [] who = "session" -> c.session
      [] who = "admin" -> c.key = "admin" \/ (c.session /\ "admin" \in c.may)
      [] who = "verb" -> ReqCanDo(c, FALSE)
      [] who = "carved" -> ReqCanDo(c, TRUE)
ReqTurnedAway(who, c) ==
    CASE who \in {"any", "session"} -> {401}
      [] who = "admin" -> IF c.session THEN {403} ELSE {401}
      [] who \in {"verb", "carved"} -> IF c.session \/ c.key = "user" THEN {403} ELSE {401}
\* The look-up of a right may fail; there is none for the administrators' key.
ReqLookupFails(who, c) ==
    who \in {"admin", "verb", "carved"} /\ c.key # "admin" /\ (c.key = "user" \/ c.session)

ReqSize == ReqNo({413})
ReqMedia == ReqNo({415})
ReqPrincipal == ReqWho("any")
\* Keys are not sent by browsers of their own accord.
ReqForgery == ReqNo({403})
ReqSession == ReqWho("session")
ReqAdmin == ReqWho("admin")
ReqMay == ReqWho("verb")
ReqMayAny == ReqWho("verb")
\* Not part of what administrators may do.
ReqMayCarved == ReqWho("carved")
\* Without a limiter that works everyone goes through, or nobody.
ReqLimit == ReqNo({429})
ReqStrictLimit == ReqNo({429, 503})
ReqWithinGrant == ReqNo({403, 500})
ReqId == ReqNo({400})
ReqBody == ReqNo({400})
ReqScope == ReqNo({500})
ReqAccountInScope == ReqRead({"account"}, {404}) \o ReqScope
ReqPlanInScope == ReqScope \o ReqNo({404})
ReqPlanAccountsInScope == ReqPlanInScope \o ReqAccountInScope
ReqExecutionInScope == ReqScope \o ReqRead({"execution"}, {404}) \o ReqPlanInScope
ReqBatchInScope == ReqScope \o ReqNo({400, 403})
\* Any, or the own ones.
ReqOwnOrAny == ReqMay \o ReqNo({403})
------------------------------------------------------------------------------
(* Sessions and the own account. *)
ReqLoginErrors == {401}
ReqLogin == ReqStrictLimit \o ReqBody \o ReqNo(ReqLoginErrors) \o ReqPut({"session"})
ReqLogout == ReqNo({401}) \o ReqAtomic({"session"}, {401})
ReqMe == ReqSession \o ReqNo({500})
ReqOwnId == ReqNo({401})
ReqMyPermissions == ReqOwnId \o ReqNo({500})
ReqAdminExists == ReqNo({500})
ReqUserErrors == {400, 403, 409}
ReqSetupAdmin == ReqStrictLimit \o ReqBody \o ReqNo(ReqUserErrors) \o ReqPut({"user"})
\* Whoever asks learns nothing: every answer to a well-formed request is the same.
ReqForgotPassword == ReqBody \o ReqTry({"token", "mail"})
ReqResetStatus == ReqStrictLimit \o ReqNo({400}) \o ReqNo({500})
ReqResetErrors == {400}
ReqResetPassword ==
    ReqStrictLimit \o ReqBody \o ReqRead({"user"}, ReqResetErrors) \o ReqSave({"user"})
ReqProfileErrors == {401, 409}
ReqProfilePasswords == ReqNo({400})
ReqProfile ==
    ReqSession \o ReqBody \o ReqProfilePasswords \o ReqRead({"user"}, ReqProfileErrors)
    \o ReqSave({"user"})
ReqPasswordPair == ReqNo({400})
ReqChangePassword ==
    ReqStrictLimit \o ReqSession \o ReqBody \o ReqPasswordPair \o ReqRead({"user"}, {})
    \o ReqSave({"user"})
ReqMfaErrors == {400, 401}
ReqMfa == ReqSession \o ReqBody \o ReqRead({"user"}, ReqMfaErrors) \o ReqSave({"user"})
ReqMfaSetup == ReqMfa
ReqMfaEnable == ReqMfa
ReqMfaDisable == ReqMfa
ReqMfaCodes == ReqMfa
==================================================================================
