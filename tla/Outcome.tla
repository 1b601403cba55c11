------------------------------- MODULE Outcome -------------------------------
(***************************************************************************)
(* What the metrics say of a request when its row is written (metrics.py): *)
(* its outcome and code, read from the row alone.                          *)
(***************************************************************************)
EXTENDS TLC

(* inference.STOP_CODES: what a stopped request is told; a client that left *)
(* and a request cut by the shutdown are told nothing.                      *)
StopCode(stop) == CASE stop = "timeout" -> "timeout"
                    [] stop = "draining" -> "draining"
                    [] stop = "engine_changed" -> "engine_unavailable"
                    [] OTHER -> "none"

(* The codes each outcome may come with; a text lane has no picture's.   *)
OUTCOMES ==
    [success |-> {"none"},
     rejected |-> {"invalid_request", "unsupported_field", "limit_exceeded", "context_limit", "min_p_unavailable",
                   "thinking_budget_unavailable", "vision_not_allowed", "unauthorized", "class_not_allowed",
                   "scope_not_allowed", "body_too_large", "queue_full", "timeout", "forbidden", "not_found",
                   "stale_boot", "stale_generation", "sleep_pending"},
     unavailable |-> {"starting", "engine_unavailable", "none"},
     draining |-> {"draining", "drained"},
     timeout |-> {"timeout"},
     engine_error |-> {"engine_unavailable"},
     internal_error |-> {"internal_error"},
     client_disconnect |-> {"none"}]

(* The series of a route, which exist from the start at 0.               *)
Series == UNION {{<<outcome, code>> : code \in OUTCOMES[outcome]} : outcome \in DOMAIN OUTCOMES}

OutcomeOf_LateTimeout(code, accepted) ==
    CASE code = "timeout" -> "timeout"
      [] code = "engine_unavailable" -> IF accepted THEN "engine_error" ELSE "unavailable"
      [] code \in {"draining", "drained"} -> "draining"
      [] code = "starting" -> "unavailable"
      [] code = "internal_error" -> "internal_error"
      [] OTHER -> "rejected"
OutcomeOf(code, accepted) ==
    CASE code = "timeout" -> IF accepted THEN "timeout" ELSE "rejected"
      [] code = "engine_unavailable" -> IF accepted THEN "engine_error" ELSE "unavailable"
      [] code \in {"draining", "drained"} -> "draining"
      [] code = "starting" -> "unavailable"
      [] code = "internal_error" -> "internal_error"
      [] OTHER -> "rejected"

(* request_outcome.                                                      *)
RequestOutcome(r) ==
    LET code == IF r.code = "none" /\ r.cancelled THEN StopCode(r.stop) ELSE r.code
    IN IF code # "none" THEN <<OutcomeOf(code, r.accepted), code>>
       ELSE IF r.cancelled
       THEN <<IF r.stop = "shutdown" THEN "unavailable" ELSE "client_disconnect", "none">>
       ELSE <<"success", "none">>
=============================================================================
