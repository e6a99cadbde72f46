------------------------------ MODULE MCTunnel ------------------------------
(* Tunnel with the bounds of the .cfg files. *)
EXTENDS TunnelInv
=============================================================================
