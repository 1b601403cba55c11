------------------------------- MODULE Stream -------------------------------
(***************************************************************************)
(* The stream the gateway sends, rebuilt from the engine's stream          *)
(* (stream.py): what each event of the engine becomes, and what the end of *)
(* the engine's stream must have had.  The engine may send anything; what  *)
(* of an event the Translator tells apart is kept, its text is not.        *)
(***************************************************************************)
EXTENDS Naturals, Sequences

(* The state of a Translator.                                            *)
Fresh == [finish |-> FALSE, usage |-> FALSE, generated |-> FALSE]

(* One choice of a chunk: its delta as single-field deltas, of which all *)
(* but the role are tokens, and its finish reason.                       *)
Choice == [parts : {<<>>, <<"role">>, <<"token">>, <<"role", "token">>},
           finish : {"none", "stop", "abort"}]

Event(k, usage, choices) == [kind |-> k, usage |-> usage, choices |-> choices]

(* What next_event may give (engine.py): a chunk that keeps the rules, with *)
(* at most one choice; one that breaks them in any field; an error event,   *)
(* whose code is a refusal or not; None at [DONE]; and a line, a body or a  *)
(* connection that breaks the stream.                                       *)
Events == {Event("chunk", u, {}) : u \in BOOLEAN} \cup {Event("chunk", u, {c}) : u \in BOOLEAN, c \in Choice}
          \cup {Event(k, FALSE, {}) : k \in {"foreign", "refused", "failed", "done", "broken"}}

Breaks(t, e) ==
    \/ e.kind # "chunk"
    \/ \E c \in e.choices :
          IF t.finish THEN c.parts # <<>> \/ c.finish # "none" ELSE c.finish = "abort"

(* The translator after an event that keeps the rules.                   *)
Read(t, e) ==
    LET live == IF t.finish THEN {} ELSE e.choices
    IN [finish    |-> t.finish \/ \E c \in live : c.finish # "none",
        usage     |-> t.usage \/ e.usage,
        generated |-> t.generated \/ \E c \in live : c.parts \notin {<<>>, <<"role">>}]

ChunksOf(c) == (IF Len(c.parts) > 1 \/ c.finish = "none" THEN <<"delta">> ELSE <<>>)
               \o (IF c.finish # "none" THEN <<"finish">> ELSE <<>>)

Chunks_AfterFinish(t, e) == IF e.choices = {} THEN <<>> ELSE ChunksOf(CHOOSE c \in e.choices : TRUE)

(* The chunks an event becomes: one for each part, an empty one for an    *)
(* empty delta, the finish on the last; none after the finish.  A run of  *)
(* deltas counts as one.                                                  *)
Chunks(t, e) == IF t.finish \/ e.choices = {} THEN <<>> ELSE ChunksOf(CHOOSE c \in e.choices : TRUE)

(* Whether a stream that the engine ends here has ended well.            *)
EndsWell(t) == t.finish /\ t.usage

(* first_error: the code of an error event before any chunk; one later, and *)
(* any other break of the rules, is the engine's failure.                   *)
ErrorOf(e, first) == IF first /\ e.kind = "refused" THEN "invalid_request" ELSE "engine_unavailable"
=============================================================================
