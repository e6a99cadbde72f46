------------------------------ MODULE MCSpeed -------------------------------
(* Three branches, interchangeable. *)
EXTENDS Speed
=============================================================================
