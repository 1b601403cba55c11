---------------------------- MODULE MCLifecycle ----------------------------
(***************************************************************************)
(* A request of ours and an outside request, each again and again; a drain *)
(* deadline that ends before the forced stop, as configured; an idle       *)
(* interval of two ticks, so that requests end within one; two boots, and  *)
(* opens that outlive the first.                                           *)
(***************************************************************************)
EXTENDS Health

CONSTANTS o1, x1

MCRequest == {o1, x1}
MCOurs == {o1}
MCOwnReason == {"timeout"}

(* What ComfyUI may say of itself: the expected versions, started           *)
(* with the flag for Triton, without it, or with the one that overrides it. *)
MCExpect == [comfyui |-> "0.9", pytorch |-> "2.10", triton |-> TRUE]
MCStats == [comfyui_version : {{"0.9"}}, pytorch_version : {{"2.10"}}, name : {{"card"}},
            argv : {{TritonOn}, {TritonOn, TritonOff}, {}}]
MCEngine == {FingerprintOf(stats) : stats \in MCStats}
MCVerifiable == {found \in MCEngine : AsExpected(found, MCExpect)}
=============================================================================
