------------------------------- MODULE Shared -------------------------------
(* What the modules of the back office have in common, so that they can be *)
(* composed: the value of a field that is not set.                         *)
CONSTANT None
=============================================================================
