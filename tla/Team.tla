-------------------------------- MODULE Team --------------------------------
(* What the modules about the callers of one team share: who calls. *)
EXTENDS NoValue
CONSTANT Callers
=============================================================================
