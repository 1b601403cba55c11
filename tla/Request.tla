------------------------------ MODULE Request ------------------------------
(****************************************************************************)
(* One request on a listener of the text lane, from its arrival to the row  *)
(* that is written of it (app.Guard, routes._inference, asgi.Exchange,      *)
(* inference.Work, engine.EngineStream).  Its actors: the handler, the task *)
(* that is counted and streams, the watcher of the client, the timers of    *)
(* the preparation and of the wall time, a drain, the engine, the client    *)
(* and the server that cancels the handler as it shuts down.                *)
(****************************************************************************)
EXTENDS Engine, Stream, Outcome, SequencesExt

VARIABLES
    kind,     \* the route, one of Kinds
    at,       \* the handler: "arrived", "turned", "reading", "scraping", "refusing", "serving",
              \* "cleanup", "terminal", "ended"
    caller,   \* who asks, once it is authorized
    late,     \* PREPARE_S have passed since it arrived
    rec,      \* its row: the code, accepted, cancelled, the stop, and whether the stream ended well
    task,     \* the task's step, "none" before it runs and "over" after it
    result,   \* how the task ended: "none", "ok", "cancelled" or a code
    tr,       \* its Translator
    started,  \* Exchange.started: the status and headers are sent
    out,      \* the messages of a send that waits for the client
    answer,   \* what the client has been sent
    gone,     \* the client has left
    cut       \* the server has cancelled the handler

vars == <<kind, at, caller, late, rec, task, result, tr, started, out, answer, gone, cut>>

sends == <<started, out, answer>>
work == <<task, result, tr>>

Kinds == {"generation", "count", "control", "models", "state", "metrics", "engine_metrics"}
Inference == {"generation", "count"}
NoCaller == [key |-> NoKey, cls |-> "none", scope |-> "none"]

(* ------------------------------ sending ------------------------------- *)

(* An Exchange's sends do not wait while the connection takes them.  Of the *)
(* messages it has to send the connection takes some and may wait with the  *)
(* next until its client reads; to a client that left none waits and none   *)
(* arrives.  n of the messages ms are taken now; a delta after a delta goes *)
(* on with its run.                                                         *)
GoesOn(seen, ms) == seen # <<>> /\ ms # <<>> /\ Last(seen) = "delta" /\ Head(ms) = "delta"

With(seen, ms) == IF GoesOn(seen, ms) THEN seen \o Tail(ms) ELSE seen \o ms

Sends(ms, n) ==
    /\ gone => n = Len(ms)
    /\ answer' = IF gone THEN answer ELSE With(answer, SubSeq(ms, 1, n))
    /\ out' = SubSeq(ms, n + 1, Len(ms))

(* send_error: an HTTP error, or the error event of a stream that started. *)
ErrorMessages == IF started THEN <<"failed">> ELSE <<"error", "json">>

(* The handler sends ms, and stays at "pc" while one of them waits.      *)
HandlerSends(ms, pc) ==
    \E n \in 0..Len(ms) :
        /\ Sends(ms, n)
        /\ at' = IF n = Len(ms) THEN "ended" ELSE pc
        /\ started' = (started \/ ms # <<>>)

(* ---------------------------- preparation ----------------------------- *)

Refuse(code) == /\ rec' = [rec EXCEPT !.code = code]
                /\ HandlerSends(ErrorMessages, "refusing")

(* The Guard's cap on open connections, and a path or a method that no   *)
(* route has.  No deadline is on that send.                              *)
Turned(code) == /\ at = "arrived" /\ rec' = [rec EXCEPT !.code = code]
                /\ HandlerSends(ErrorMessages, "turned")
                /\ UNCHANGED <<kind, caller, late, work, gone, cut>>

Unauthorized(k, status, c, s) ==
    /\ at = "arrived" /\ kind \in Inference
    /\ Authorize(k, status, c, s) # "ok"
    /\ Refuse(Authorize(k, status, c, s))
    /\ UNCHANGED <<kind, caller, late, work, gone, cut>>

Authorized(k, status, c, s) ==
    /\ at = "arrived" /\ kind \in Inference
    /\ Authorize(k, status, c, s) = "ok"
    /\ caller' = CallerOf(k, c, s)
    /\ at' = "reading"
    /\ UNCHANGED <<kind, late, rec, work, sends, gone, cut>>

(* The other routes: models, state and the metrics are answered from the    *)
(* service's own state, the engine's metrics by the engine, and the control *)
(* routes once their body is read.                                          *)
PlainCode(k, ready) == Verdict(<<
    Check(k = NoKey, "unauthorized"),
    Check(kind = "control" /\ ~k.control, "forbidden"),
    Check(kind \in {"metrics", "engine_metrics"} /\ ~(k.metrics \/ k.control), "forbidden"),
    Check(kind = "models" /\ ~ready, "starting")>>)

Replied(code) == IF code = "ok" THEN HandlerSends(<<"ok", "json">>, "refusing") /\ UNCHANGED rec ELSE Refuse(code)

Plain(k, ready) ==
    /\ at = "arrived" /\ kind \notin Inference
    /\ LET code == PlainCode(k, ready)
       IN CASE code = "ok" /\ kind = "control" -> at' = "reading" /\ UNCHANGED <<rec, sends>>
            [] code = "ok" /\ kind = "engine_metrics" -> at' = "scraping" /\ UNCHANGED <<rec, sends>>
            [] OTHER -> Replied(code)
    /\ UNCHANGED <<kind, caller, late, work, gone, cut>>

(* The engine's metrics come, or not in time or not as they should.      *)
Scraped(scrape) ==
    /\ at = "scraping"
    /\ Replied(ScrapeCode(scrape))
    /\ UNCHANGED <<kind, caller, late, work, gone, cut>>

(* read_body: its limit, by the length it names or by its bytes.         *)
TooLarge == /\ at = "reading" /\ ~gone /\ Refuse("body_too_large")
            /\ UNCHANGED <<kind, caller, late, work, gone, cut>>

(* The last part of a control route's body: the action, then its answer. *)
Controlled(code) ==
    /\ at = "reading" /\ kind = "control" /\ ~gone
    /\ Replied(code)
    /\ UNCHANGED <<kind, caller, late, work, gone, cut>>

(* The last part of the body: its checks and accept, in one step.        *)
BodyRead(b, status) ==
    /\ at = "reading" /\ kind \in Inference /\ ~gone
    /\ LET code == Admit(kind, caller, b, status)
       IN IF code # "ok" THEN Refuse(code) /\ UNCHANGED work
          ELSE /\ rec' = [rec EXCEPT !.accepted = TRUE]
               /\ at' = "serving" /\ task' = "count_wait"
               /\ UNCHANGED <<result, tr, sends>>
    /\ UNCHANGED <<kind, caller, late, gone, cut>>

(* ClientGone: the disconnect comes where the body should.               *)
LeftEarly == /\ at = "reading" /\ gone
             /\ rec' = [rec EXCEPT !.cancelled = TRUE] /\ at' = "ended"
             /\ UNCHANGED <<kind, caller, late, work, sends, gone, cut>>

(* _inference's deadline, PREPARE_S: a body that has not come, and a     *)
(* refusal of the route's own that waits for the client, are given up.   *)
PrepareS == /\ at \in {"reading", "refusing"} /\ kind \in Inference /\ ~late
            /\ late' = TRUE
            /\ UNCHANGED <<kind, at, caller, rec, work, sends, gone, cut>>

BodyLate == /\ at = "reading" /\ late /\ Refuse("timeout")
            /\ UNCHANGED <<kind, caller, late, work, gone, cut>>

RefusalLate_OnlyTimeout ==
    /\ at = "refusing" /\ late /\ rec.code = "timeout"
    /\ rec' = [rec EXCEPT !.cancelled = TRUE] /\ at' = "ended" /\ out' = <<>>
    /\ UNCHANGED <<kind, caller, late, work, started, answer, gone, cut>>
RefusalLate == /\ at = "refusing" /\ late
               /\ rec' = [rec EXCEPT !.cancelled = TRUE] /\ at' = "ended" /\ out' = <<>>
               /\ UNCHANGED <<kind, caller, late, work, started, answer, gone, cut>>

(* ------------------------------ the task ------------------------------ *)

TaskEnds(r) == task' = "over" /\ result' = r

Fails(code) == TaskEnds(code) /\ UNCHANGED <<rec, tr, sends>>

TaskOnly == UNCHANGED <<kind, at, caller, late, gone, cut>>

(* A place is granted, for the count or for the generation.              *)
Granted == /\ task \in {"count_wait", "place_wait"}
           /\ task' = IF task = "count_wait" THEN "counting" ELSE "asking"
           /\ UNCHANGED <<rec, result, tr, sends>> /\ TaskOnly

(* engine.count answers.  A generation, which asks for at most `max`     *)
(* tokens, is then checked and enters admission; a count has its answer. *)
Counted(a, max) ==
    /\ task = "counting"
    /\ LET code == IF CountCode(a) # "ok" THEN CountCode(a)
                   ELSE IF kind = "count" THEN "ok"
                   ELSE CheckInput(caller, CHOOSE n \in TokensIn(a) : TRUE, max)
       IN IF code # "ok" \/ kind = "count" THEN Fails(code)
          ELSE task' = "place_wait" /\ UNCHANGED <<rec, result, tr, sends>>
    /\ TaskOnly

(* engine.generate answers with its status and headers.                  *)
Answered(status) ==
    /\ task = "asking"
    /\ IF CallCode(status) # "ok" THEN Fails(CallCode(status))
       ELSE task' = "relay" /\ UNCHANGED <<rec, result, tr, sends>>
    /\ TaskOnly

(* The task sends ms, and waits with the rest.                           *)
TaskSends(ms) ==
    \E n \in 0..Len(ms) :
        /\ Sends(ms, n)
        /\ task' = IF n = Len(ms) THEN "relay" ELSE "sending"
        /\ started' = (started \/ n > 0)

(* _relay: an event of the engine.  The first begins the stream.         *)
Relay(e) ==
    /\ task = "relay"
    /\ \/ /\ e.kind = "done" /\ started /\ EndsWell(tr)
          /\ rec' = [rec EXCEPT !.total = TRUE]
          /\ TaskEnds("ok") /\ UNCHANGED <<tr, sends>>
       \/ /\ e.kind = "done" /\ ~(started /\ EndsWell(tr))
          /\ Fails("engine_unavailable")
       \/ /\ e.kind # "done" /\ Breaks(tr, e)
          /\ Fails(ErrorOf(e, ~started))
       \/ /\ e.kind # "done" /\ ~Breaks(tr, e)
          /\ tr' = Read(tr, e)
          /\ TaskSends((IF started THEN <<>> ELSE <<"stream">>) \o Chunks(tr, e))
          /\ UNCHANGED <<rec, result>>
    /\ TaskOnly

(* An exception of the gateway's own in the task.                        *)
Faults == /\ task \in {"counting", "asking", "relay"} /\ Fails("internal_error") /\ TaskOnly

(* ------------------------------- stops -------------------------------- *)

(* Work.stop: only the first counts.  A task that runs is cancelled; after *)
(* it, a terminal send that waits is given up.                             *)
Waiting == \/ task \in {"count_wait", "place_wait"}
           \/ (kind = "generation" /\ task = "counting")

Stop(reason) ==
    /\ task # "none" /\ rec.stop = "none"
    /\ at \in {"serving", "cleanup", "terminal"}
    /\ rec' = [rec EXCEPT !.stop = reason]
    /\ IF task # "over" THEN TaskEnds("cancelled") /\ out' = <<>> ELSE UNCHANGED <<task, result, out>>
    /\ UNCHANGED <<kind, at, caller, late, tr, started, answer, gone, cut>>

WallTime == Stop("timeout")
WatchClient == gone /\ Stop("disconnect")
Drain == (Waiting \/ Outside(caller.key)) /\ Stop("draining")
DrainDeadline == Stop("draining")
EngineChanges == Stop("engine_changed")

(* --------------------------- the handler ------------------------------ *)

(* The task has ended: cleanup, which closes the engine's stream.        *)
TaskOver == /\ at = "serving" /\ task = "over" /\ at' = "cleanup"
            /\ UNCHANGED <<kind, caller, late, rec, work, sends, gone, cut>>

(* _answer_outcome, once the engine's stream is closed.                  *)
Code == CASE result = "cancelled" -> StopCode(rec.stop)
          [] result = "ok" -> "none"
          [] OTHER -> result

TerminalMessages == CASE Code # "none" -> ErrorMessages
                      [] result = "ok" /\ kind = "generation" -> <<"usage", "done">>
                      [] result = "ok" /\ kind = "count" -> <<"ok", "json">>
                      [] OTHER -> <<>>

SendTerminal ==
    /\ at = "cleanup" /\ ~cut
    /\ rec' = [rec EXCEPT !.cancelled = @ \/ result = "cancelled", !.code = Code]
    /\ HandlerSends(TerminalMessages, "terminal")
    /\ UNCHANGED <<kind, caller, late, work, gone, cut>>

(* Work.stop gives the terminal send up.                                 *)
GivenUp == /\ at = "terminal" /\ rec.stop # "none"
           /\ rec' = [rec EXCEPT !.cancelled = TRUE] /\ at' = "ended" /\ out' = <<>>
           /\ UNCHANGED <<kind, caller, late, work, started, answer, gone, cut>>

(* The server's grace has run out and it cancels the handler, once.  A task *)
(* that runs is stopped and its row says so; then the handler cleans up and *)
(* ends without an answer.                                                  *)
Cancelled ==
    /\ ~cut /\ at \in {"turned", "reading", "scraping", "refusing", "serving", "cleanup", "terminal"}
    /\ cut' = TRUE
    /\ IF at = "serving"
       THEN /\ at' = "cleanup"
            /\ IF task = "over" THEN UNCHANGED <<rec, task, result, out>>
               ELSE /\ rec' = [rec EXCEPT !.cancelled = TRUE, !.stop = IF @ = "none" THEN "shutdown" ELSE @]
                    /\ TaskEnds("cancelled") /\ out' = <<>>
       ELSE at' = "ended" /\ out' = <<>> /\ UNCHANGED <<rec, task, result>>
    /\ UNCHANGED <<kind, caller, late, tr, started, answer, gone>>

Unwound == /\ at = "cleanup" /\ cut /\ at' = "ended"
           /\ UNCHANGED <<kind, caller, late, rec, work, sends, gone, cut>>

(* ----------------------------- the client ----------------------------- *)

(* It reads on, and a send that waited goes on; or it has left.          *)
ClientReads ==
    /\ out # <<>>
    /\ \E n \in 1..Len(out) :
          /\ Sends(out, n)
          /\ IF task = "sending"
             THEN /\ task' = IF n = Len(out) THEN "relay" ELSE "sending"
                  /\ started' = TRUE /\ UNCHANGED at
             ELSE /\ at' = IF n = Len(out) THEN "ended" ELSE at
                  /\ UNCHANGED <<task, started>>
    /\ UNCHANGED <<kind, caller, late, rec, result, tr, gone, cut>>

Leaves == /\ at # "ended" /\ ~gone /\ gone' = TRUE
          /\ UNCHANGED <<kind, at, caller, late, rec, work, sends, cut>>

(* --------------------------- specification ---------------------------- *)

Init ==
    /\ kind \in Kinds /\ at = "arrived" /\ caller = NoCaller /\ late = FALSE
    /\ rec = [code |-> "none", accepted |-> FALSE, cancelled |-> FALSE, stop |-> "none", total |-> FALSE]
    /\ task = "none" /\ result = "none" /\ tr = Fresh
    /\ started = FALSE /\ out = <<>> /\ answer = <<>> /\ gone = FALSE /\ cut = FALSE

(* Counts and lengths on either side of the limits that apply.           *)
Counts == {{}} \cup {{n} : n \in {0, 1, ContextTokens} \cup
                        UNION {{limit, limit + 1} : limit \in UNION {Settings.limits[c].input_tokens : c \in Classes}}}
Lengths == {1, Settings.limits["reader"].max_tokens}

Arrive == \/ \E code \in {"queue_full", "not_found"} : Turned(code)
          \/ \E k \in Keys \cup {NoKey}, status \in Statuses, c \in ClassHeaders, s \in ScopeHeaders :
                Unauthorized(k, status, c, s) \/ Authorized(k, status, c, s)
          \/ \E k \in Keys \cup {NoKey}, ready \in BOOLEAN : Plain(k, ready)

Prepare == \/ \E scrape \in Scrapes : Scraped(scrape)
           \/ TooLarge \/ LeftEarly \/ BodyLate \/ RefusalLate
           \/ \E b \in Bodies, status \in Statuses : BodyRead(b, status)
           \/ \E code \in {"ok", "invalid_request", "stale_boot", "stale_generation", "sleep_pending"} : Controlled(code)

Task == \/ Granted \/ Faults
        \/ \E a \in CountAnswers(Counts), max \in Lengths : Counted(a, max)
        \/ \E status \in HttpAnswers : Answered(status)
        \/ \E e \in Events : Relay(e)

Finish == TaskOver \/ SendTerminal \/ GivenUp \/ Unwound

Next == Arrive \/ Prepare \/ PrepareS \/ Task
        \/ WallTime \/ WatchClient \/ Drain \/ DrainDeadline \/ EngineChanges
        \/ Finish \/ Cancelled \/ ClientReads \/ Leaves

(* The event loop runs what is due: the handler, its timers and, for a     *)
(* client that left, the watcher and the sends that then do not wait.  The *)
(* engine may be silent for ever, and the client too.                      *)
Fairness == /\ WF_vars(Arrive)
            /\ WF_vars(LeftEarly \/ BodyLate \/ RefusalLate)
            /\ WF_vars(PrepareS) /\ WF_vars(WallTime) /\ WF_vars(Finish)
            /\ WF_vars(gone /\ ClientReads)

Spec == Init /\ [][Next]_vars /\ Fairness

(* ----------------------------- properties ----------------------------- *)

TypeOK ==
    /\ at \in {"arrived", "turned", "reading", "scraping", "refusing", "serving", "cleanup", "terminal", "ended"}
    /\ task \in {"none", "count_wait", "counting", "place_wait", "asking", "relay", "sending", "over"}
    /\ (out # <<>>) = (at \in {"turned", "refusing", "terminal"} \/ task = "sending")
    /\ (task = "none") = ~rec.accepted
    /\ kind \notin Inference => ~rec.accepted

A == INSTANCE Answer

(* Whatever the engine sends and whenever the request is stopped, what the *)
(* client gets is a prefix of an answer of the contract.                   *)
AnswersByTheContract == A!Spec

Row == RequestOutcome(rec)

(* What the metrics count for an inference is one of the series that there  *)
(* are from the start, and is what happened: a success's answer went out    *)
(* whole, an answer that went out whole is no disconnect, an error that the *)
(* client got is the code that is counted.  Not so, for a success, when the *)
(* server cancels the handler outside of its task: its row has no code.     *)
OutcomeIsTrue ==
    at = "ended" /\ kind \in Inference =>
        /\ Row \in Series
        /\ Row[1] = "success" /\ ~cut => (gone \/ A!Whole)
        /\ A!Whole => Row[1] # "client_disconnect"
        /\ A!Whole /\ Last(answer) = "done" => Row = <<"success", "none">>
        /\ A!Whole /\ (answer[1] = "error" \/ Last(answer) = "failed") => Row[2] # "none"
        /\ Row[1] = "client_disconnect" => gone
        /\ Row[1] \in {"timeout", "engine_error", "internal_error"} => rec.accepted

(* Before acceptance and after it, a request ends though its client neither *)
(* sends nor reads and its engine is silent.  Only a refusal of the Guard's *)
(* or the framework's waits for a client that stays and does not read.      *)
RequestEnds == kind \in Inference ~> at = "ended" \/ (at = "turned" /\ ~gone)

(* Callers share the engine's prefix cache only within one scope of ours or *)
(* one outside key, a reader's request within its reader, and nobody with   *)
(* the gateway's own warm-up.                                               *)
CachesApart ==
    at = "reading" /\ kind \in Inference =>
        /\ caller.cls = "reader" => caller.scope \in ReaderScopes
        /\ Payload(caller).cache_salt # WarmPayload.cache_salt
        /\ \A k \in Keys, c \in ClassHeaders, s \in ScopeHeaders :
              LET other == CallerOf(k, c, s)
              IN Authorize(k, "ready", c, s) = "ok" /\ Payload(other).cache_salt = Payload(caller).cache_salt =>
                    IF Outside(caller.key) THEN k = caller.key ELSE ~Outside(k) /\ other.scope = caller.scope
=============================================================================
