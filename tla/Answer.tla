------------------------------- MODULE Answer -------------------------------
(**************************************************************************)
(* What a client may see of its answer, whatever happens to the request:  *)
(* one JSON answer or one stream, begun once, each of its parts in order, *)
(* cut short anywhere, and nothing after its terminal message (contract   *)
(* sections 4 and 9).  Runs of deltas without a finish count as one.      *)
(**************************************************************************)
EXTENDS Sequences, SequencesExt

VARIABLES answer    \* the messages the client has been sent

(* A stream that has begun, and one whose finish has been sent.          *)
Begun == {<<"stream">>, <<"stream", "delta">>}
Finished == {s \o <<"finish">> : s \in Begun}

(* The whole answers: JSON of a success or an error; a stream that ends  *)
(* well; and one that fails, before or after its finish.                 *)
Answers == {<<"ok", "json">>, <<"error", "json">>}
           \cup {s \o <<"usage", "done">> : s \in Finished}
           \cup {s \o <<"failed">> : s \in Begun \cup Finished}

Whole == answer \in Answers

Init == answer = <<>>

Next == \E a \in Answers : IsPrefix(answer, answer') /\ IsPrefix(answer', a)

Spec == Init /\ [][Next]_answer
=============================================================================
