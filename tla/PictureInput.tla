---------------------------- MODULE PictureInput ----------------------------
(**************************************************************************)
(* PUT /v1/pictures/inputs/{name} (src/simple_serving/pictures/routes.py, *)
(* put_input): an experiment's reference goes into ComfyUI's input        *)
(* directory, under the name that its stripped bytes give it.             *)
(*                                                                        *)
(* Of a request it matters who sends it, whether its name has the form of *)
(* an input's and says which content, its type, what became of its body,  *)
(* the service's status once that is read, and whether ComfyUI took it.   *)
(* The digest in a name stands for the content, and tells contents apart. *)
(**************************************************************************)
EXTENDS PictureResult

BodyCode(put) ==
  CASE put.body = "late"  -> "timeout"
    [] put.body = "gone"  -> "cancelled"
    [] put.body = "large" -> "body_too_large"
    [] put.body = "whole" -> "ok"

ContentCode(put) ==
  IF StripCode(put.file) # "ok" \/ Stripped(put.file) # put.names THEN "invalid_request" ELSE "ok"

EndCode(put) ==
  IF put.status # "ready" THEN (IF put.status = "failed" THEN "engine_unavailable" ELSE put.status)
  ELSE IF ~put.taken THEN "engine_unavailable" ELSE "ok"

InputCode(put) ==
  IF put.cls # "internal" THEN "class_not_allowed"
  ELSE IF ~put.formed \/ put.type # "image/png" THEN "invalid_request"
  ELSE IF BodyCode(put) # "ok" THEN BodyCode(put)
  ELSE IF ContentCode(put) # "ok" THEN ContentCode(put)
  ELSE EndCode(put)

(* What may have been written, as <<name, content>>: also when ComfyUI   *)
(* took it and its answer was lost.                                      *)
InputWritten(put) ==
  IF InputCode([put EXCEPT !.taken = TRUE]) = "ok" THEN {<<put.names, Stripped(put.file)>>} ELSE {}
=============================================================================
