---------------------------- MODULE MCAppServer ----------------------------
(* Small instances of AppServer. *)
EXTENDS AppServer
=============================================================================
