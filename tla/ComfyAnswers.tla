---------------------------- MODULE ComfyAnswers ----------------------------
(**************************************************************************)
(* What the service takes from ComfyUI's answers (src/simple_serving/     *)
(* pictures/comfy.py, Comfy).  An answer has how the connection went, its *)
(* status, and its JSON, {} where there is none or it is not of the kind  *)
(* asked for; a part of it is {} likewise where it is missing or of       *)
(* another kind.  What fails is a ComfyError, which does not tell whether *)
(* ComfyUI did what it was asked.                                         *)
(**************************************************************************)
EXTENDS Sequences

LOCAL INSTANCE SequencesExt

RequestCode(answer) ==
  CASE answer.link = "refused" -> "unreachable" [] answer.link = "lost" -> "failed" [] OTHER -> "ok"

JsonCode(answer) ==
  IF RequestCode(answer) # "ok" THEN RequestCode(answer)
  ELSE IF answer.status # 200 \/ answer.json = {} THEN "failed" ELSE "ok"

Json(answer) == CHOOSE value \in answer.json : TRUE

(* POST /prompt: the id is ours, and the answer names it.                *)
SubmitCode(answer, prompt_id) ==
  IF RequestCode(answer) # "ok" THEN RequestCode(answer)
  ELSE IF answer.status = 400 THEN "rejected"
  ELSE IF JsonCode(answer) # "ok" \/ Json(answer).prompt_id # {prompt_id} THEN "failed" ELSE "ok"

QueueCode(answer) ==
  IF JsonCode(answer) # "ok" THEN JsonCode(answer)
  ELSE IF Json(answer).running = {} \/ Json(answer).pending = {} THEN "failed" ELSE "ok"

(* The entries that can be read: those that wait have a number.          *)
Waiting(answer) ==
  UNION {{<<n, id>> : n \in entry.number, id \in entry.prompt_id} :
           entry \in UNION {ToSet(entries) : entries \in Json(answer).pending}}
Drawn(answer) ==
  UNION {entry.prompt_id : entry \in UNION {ToSet(entries) : entries \in Json(answer).running}}

Holds(answer, prompt_id) ==
  prompt_id \in Drawn(answer) \/ \E one \in Waiting(answer) : one[2] = prompt_id

(* /history/{id}: the record under the id, {} while it has none.         *)
RecordOf(answer, prompt_id) ==
  IF prompt_id \in DOMAIN Json(answer) THEN Json(answer)[prompt_id] ELSE {}

(* POST /upload/image: the file is where and what it was asked to be; no *)
(* subfolder is the empty one.                                           *)
UploadCode(answer, name, kind, subfolder) ==
  IF JsonCode(answer) # "ok" THEN JsonCode(answer)
  ELSE IF \/ Json(answer).name # {name} \/ Json(answer).type # {kind}
          \/ (IF Json(answer).subfolder = {} THEN {""} ELSE Json(answer).subfolder) # {subfolder}
       THEN "failed" ELSE "ok"

(* Whether the kitchen's attention is among the node's options, which are *)
(* the first of its input's two parts or a field of the second.           *)
AttentionOffered(answer, kitchen) ==
  \E attention \in Json(answer).attention :
    \E options \in (IF attention.options_first # {} THEN attention.options_first ELSE attention.options_second) :
      kitchen \in options

LogCode(answer) ==
  IF JsonCode(answer) # "ok" THEN JsonCode(answer)
  ELSE IF Json(answer).entries = {} THEN "failed" ELSE "ok"
=============================================================================
