------------------------------ MODULE MCOwner ------------------------------
(* Two launchers and the owner's up, on one card.                        *)
EXTENDS Owner

CONSTANTS l1, l2

MCLauncher == {l1, l2}
=============================================================================
