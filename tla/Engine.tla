------------------------------- MODULE Engine -------------------------------
(*************************************************************************)
(* The calls that a request makes to vLLM: what their answers come to    *)
(* (engine.py), what the count of its input is held against, and what of *)
(* its generation's payload depends on its caller (service.py).          *)
(*************************************************************************)
EXTENDS Checks

CONSTANT EngineLength    \* the context length that this boot verified

ASSUME EngineLengthAssumption == EngineLength \in Nat \ {0}

(* A check of the engine: the length of the first card under the alias in   *)
(* its list of models, and {} when it serves another model.  A card without *)
(* a proper length is a failed check.                                       *)
OfAlias(cards) == SelectSeq(cards, LAMBDA card : card.id = Settings.alias)

ContextLength(cards) == IF OfAlias(cards) = <<>> THEN {} ELSE Head(OfAlias(cards)).max_model_len

LengthCode(cards) == Verdict(<<
    Check(OfAlias(cards) # <<>> /\ \A n \in ContextLength(cards) : n < 1, "engine_unavailable")>>)

(* An answer of the engine by its HTTP status, and a connection that fails. *)
Lost == 0
HttpAnswers == {Lost, 200, 400, 401, 422, 500}

(* The code of a call.  With 400 or 422 the engine found the request itself *)
(* wrong; any other status is a failure of the engine or of its setup.      *)
CallCode(status) == Verdict(<<
    Check(status \in {400, 422}, "invalid_request"),
    Check(status # 200, "engine_unavailable")>>)

(* The answer to a scrape of the engine's own metrics, passed on as it came *)
(* if it is text, comes in time and is no longer than the limit.            *)
Scrapes == [status : HttpAnswers, text : BOOLEAN, in_time : BOOLEAN, fits : BOOLEAN]

ScrapeCode(scrape) == Verdict(<<
    Check(scrape.status # 200 \/ ~scrape.text \/ ~scrape.in_time \/ ~scrape.fits, "engine_unavailable")>>)

(* The answer to a count: its `count` and the number of its `tokens`, each *)
(* a set of at most one.                                                   *)
CountAnswers(numbers) == [status : HttpAnswers, count : numbers, tokens : numbers]

TokensIn(a) == IF a.count # {} THEN a.count ELSE a.tokens

CountCode(a) == Verdict(<<
    Check(CallCode(a.status) # "ok", CallCode(a.status)),
    Check(\A n \in TokensIn(a) : n < 1, "engine_unavailable")>>)

(* Service.context_tokens: the engine's length, or less if so configured. *)
ContextTokens ==
    IF \E limit \in Settings.context_tokens : limit < EngineLength
    THEN CHOOSE limit \in Settings.context_tokens : TRUE ELSE EngineLength

(* check_input, of a generation that asks for at most `max` tokens.      *)
CheckInput(w, tokens, max) == Verdict(<<
    Check(\E limit \in Settings.limits[w.cls].input_tokens : tokens > limit, "limit_exceeded"),
    Check(tokens + max > ContextTokens, "context_limit")>>)

(* What a generation's payload says of its caller.                       *)
GenerationPayload(priority, salt) == [model |-> Settings.alias, priority |-> priority, cache_salt |-> salt]

Payload(w) == GenerationPayload(Settings.engine_priority[w.cls], SaltInput(w))

(* The gateway's own first generation, which is no caller's.             *)
WarmPayload == GenerationPayload(Settings.engine_priority["internal"], <<"warm-up">>)
=============================================================================
