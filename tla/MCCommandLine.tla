---------------------------- MODULE MCCommandLine ----------------------------
(* CommandLine with two slow_downs and a job of at most one line. *)
EXTENDS CommandLine
=============================================================================
