-------------------------------- MODULE Pool --------------------------------
(* What the modules about background jobs share: the workers' slots. *)
EXTENDS NoValue
CONSTANT Workers
=============================================================================
