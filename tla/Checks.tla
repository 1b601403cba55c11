------------------------------- MODULE Checks -------------------------------
(***************************************************************************)
(* The checks of an inference request, in their order: its key, the        *)
(* service's status, its class and its scope (policy.py, service.py), then *)
(* its body (validation.py, routes.py).  A check is a condition that fails *)
(* and the code it refuses with; the first that fails answers.             *)
(***************************************************************************)
EXTENDS Configuration

CONSTANT Data     \* the configuration file the gateway has started with

ASSUME DataAccepted == Accepted(Data)

Settings == ConfigOf(Data)

Keys == Settings.keys
Vision == Settings.vision
ThinkingBudget == Settings.thinking_budget

(* vLLM drafts tokens, and refuses a min_p unless that is lifted.        *)
MinPRefused == Settings.speculative /\ ~Settings.min_p_while_drafting

Outside(k) == "external" \in k.classes

(* A request without a key, or with one the configuration does not hold. *)
NoKey == [digest |-> "none", label |-> "none", classes |-> {}, default |-> "absent", scopes |-> FALSE,
          control |-> FALSE, metrics |-> FALSE, vision |-> FALSE]

Statuses == {"starting", "ready", "draining", "drained", "failed"}

ReaderScopes == {"reader.a", "reader.b"}

(* The class header and the scope header.                                *)
ClassHeaders == Classes \cup {"absent"}
ScopeHeaders == ReaderScopes \cup {"agent", "internal", "absent", "other"}

ClassOf(k, c) == IF c = "absent" THEN k.default ELSE c

ScopeOf(k, c, s) == IF Outside(k) THEN "none" ELSE IF s = "absent" THEN ClassOf(k, c) ELSE s

Check(fails, code) == [fails |-> fails, code |-> code]

Verdict(checks) == LET failed == {i \in DOMAIN checks : checks[i].fails}
                   IN IF failed = {} THEN "ok" ELSE checks[CHOOSE i \in failed : \A j \in failed : i <= j].code

Serving(status) == Check(status # "ready", IF status = "failed" THEN "engine_unavailable" ELSE status)

(* authorize: authenticate, check_serving and resolve.                   *)
Authorize(k, status, c, s) == Verdict(<<
    Check(k = NoKey, "unauthorized"),
    Serving(status),
    Check(ClassOf(k, c) \notin k.classes, "class_not_allowed"),
    Check(s # "absent" /\ ~k.scopes, "scope_not_allowed"),
    Check(~Outside(k) /\ s = "other", "invalid_request"),
    Check(ClassOf(k, c) = "reader" /\ ScopeOf(k, c, s) \notin ReaderScopes, "invalid_request")>>)

CallerOf(k, c, s) == [key |-> k, cls |-> ClassOf(k, c), scope |-> ScopeOf(k, c, s)]

(* What the engine's cache salt is made of: scopes and outside keys have *)
(* namespaces of their own.                                              *)
SaltInput_OneSpace(w) == <<IF w.scope = "none" THEN w.key.label ELSE w.scope>>
SaltInput(w) == IF w.scope = "none" THEN <<"key", w.key.label>> ELSE <<"scope", w.scope>>

(* A body, by what parse_json, check_chat and the service tell apart: its   *)
(* form, the pictures in it, whether its max_tokens passes the class's      *)
(* limit, whether it has a min_p that vLLM refuses while it drafts, and its *)
(* thinking budget.                                                         *)
Forms == {"fine", "not_json", "unknown_field", "bad_value"}
Bodies == [form : Forms, pictures : 0..2, long : BOOLEAN, min_p : BOOLEAN, budget : {"none", "within", "over"}]

CheckChat(b) == <<
    Check(b.form = "not_json", "invalid_request"),
    Check(b.form = "unknown_field", "unsupported_field"),
    Check(b.form = "bad_value", "invalid_request"),
    Check(b.pictures > (IF Vision THEN 1 ELSE 0), "invalid_request")>>

(* What a generation's parameters must keep to; a count has no class limit. *)
CheckLimits(b) == <<
    Check(b.long, "limit_exceeded"),
    Check(MinPRefused /\ b.min_p, "min_p_unavailable"),
    Check(b.budget # "none" /\ ~ThinkingBudget, "thinking_budget_unavailable"),
    Check(b.budget = "over", "invalid_request")>>

(* _inference between the body and accept.                               *)
Admit(kind, w, b, status) == Verdict(
    CheckChat(b)
    \o <<Check(b.pictures > 0 /\ ~w.key.vision, "vision_not_allowed")>>
    \o (IF kind = "generation" THEN CheckLimits(b) ELSE <<>>)
    \o <<Serving(status)>>)
=============================================================================
