---------------------------- MODULE MCHttpServer ----------------------------
(* HttpServer for the .cfg files. *)
EXTENDS HttpServer
=============================================================================
