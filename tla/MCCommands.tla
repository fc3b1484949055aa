----------------------------- MODULE MCCommands -----------------------------
(* Small instances of Commands, which brings Wait and RoundTrip along. *)
EXTENDS Commands
=============================================================================
