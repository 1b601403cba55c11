------------------------------ MODULE Measures ------------------------------
(*************************************************************************)
(* What the metrics add up over the requests of a listener (metrics.py): *)
(* each request once by its status and, if it is inference, once by its  *)
(* outcome, with the tokens of a stream that ended well; and how long a  *)
(* stage took, in buckets that the exposition adds up.                   *)
(*************************************************************************)
EXTENDS Outcome, Integers, Sequences

CONSTANT BUCKETS    \* the upper bounds of the buckets

ASSUME BucketsRise == \A i, j \in DOMAIN BUCKETS : i < j => BUCKETS[i] < BUCKETS[j]

LOCAL INSTANCE SequencesExt

(* ------------------------------ counters ------------------------------ *)

METHODS == [generation |-> {"POST"}, count |-> {"POST"}]
ROUTES == {"generation", "count", "models", "state", "drain", "sleep", "open", "metrics", "engine_metrics"}

(* errors.STATUS.                                                        *)
STATUS(code) ==
    CASE code \in {"invalid_request", "unsupported_field", "limit_exceeded", "context_limit",
                   "min_p_unavailable", "thinking_budget_unavailable"} -> 400
      [] code = "unauthorized" -> 401
      [] code \in {"class_not_allowed", "scope_not_allowed", "vision_not_allowed", "forbidden"} -> 403
      [] code = "not_found" -> 404
      [] code \in {"stale_boot", "stale_generation", "sleep_pending"} -> 409
      [] code = "body_too_large" -> 413
      [] code = "queue_full" -> 429
      [] code = "internal_error" -> 500
      [] code \in {"starting", "draining", "drained", "engine_unavailable"} -> 503
      [] code = "timeout" -> 504

Codes == UNION {OUTCOMES[outcome] : outcome \in DOMAIN OUTCOMES} \ {"none"}

(* A status, and {} of a request that was not answered.                  *)
HTTP_STATUSES == {{}} \cup {{n} : n \in {200, 201, 202, 204} \cup {STATUS(code) : code \in Codes}}

CountedClass == {"reader", "agent", "internal", "external", "none"}
TokensNone == [input |-> 0, output |-> 0, cached |-> 0, mismatches |-> 0]

(* Every series of the listener is there from the start.                 *)
Started(listener, paths) ==
    [responses |-> [key \in {<<listener, route, status>> : route \in (paths \cap ROUTES) \cup {"other"},
                                                             status \in HTTP_STATUSES} |-> 0],
     requests |-> [key \in {<<route, cls, series>> : route \in DOMAIN METHODS, cls \in CountedClass,
                                                      series \in Series} |-> 0],
     tokens |-> [cls \in CountedClass \ {"none"} |-> TokensNone]]

OneMore(counts, key) == (key :> 1 + IF key \in DOMAIN counts THEN counts[key] ELSE 0) @@ counts

(* Numbers of tokens are {} where they are not known.                    *)
Sum(known) == IF known = {} THEN 0 ELSE CHOOSE n \in known : TRUE

WithTokens(tokens, row) ==
    [tokens EXCEPT ![row.cls] =
        [input |-> @.input + Sum(row.input), output |-> @.output + Sum(row.output),
         cached |-> @.cached + Sum(row.cached),
         mismatches |-> @.mismatches + IF row.matches = {FALSE} THEN 1 ELSE 0]]

(* request_ended.                                                        *)
Ended(metrics, row) ==
    LET route == IF row.route \in ROUTES THEN row.route ELSE "other"
        counted == route \in DOMAIN METHODS /\ row.method \in METHODS[route]
    IN [responses |-> OneMore(metrics.responses, <<row.listener, route, row.status>>),
        requests |-> IF counted THEN OneMore(metrics.requests, <<route, row.cls, RequestOutcome(row)>>)
                     ELSE metrics.requests,
        tokens |-> IF counted /\ route = "generation" /\ row.cls # "none" /\ row.output # {}
                   THEN WithTokens(metrics.tokens, row) ELSE metrics.tokens]

(* ----------------------------- histograms ----------------------------- *)

Empty == [buckets |-> [i \in 1..(Len(BUCKETS) + 1) |-> 0], sum |-> 0, count |-> 0]

(* The first bound at or above the value; a clock's step back counts as 0. *)
Bucket(value) == 1 + Cardinality({i \in DOMAIN BUCKETS : BUCKETS[i] < value})

Observed(histogram, seconds) ==
    LET value == IF seconds < 0 THEN 0 ELSE seconds
    IN [buckets |-> [histogram.buckets EXCEPT ![Bucket(value)] = @ + 1],
        sum |-> histogram.sum + value, count |-> histogram.count + 1]

(* Exposition.histogram: what is told of each bound, and of none at last. *)
Told(histogram) == [i \in DOMAIN histogram.buckets |-> FoldLeft(+, 0, SubSeq(histogram.buckets, 1, i))]
=============================================================================
