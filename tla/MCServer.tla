------------------------------ MODULE MCServer ------------------------------
(* Two listeners, three connections, two threads: a question has to wait. *)
EXTENDS Server
=============================================================================
