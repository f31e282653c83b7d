------------------------------ MODULE MCDaemon ------------------------------
(* Two sub-processes over a process table of three entries. *)
EXTENDS Daemon, TLC

MCParams == <<"app", "ota">>
=============================================================================
