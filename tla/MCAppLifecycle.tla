---------------------------- MODULE MCAppLifecycle ----------------------------
(* Two workers: one can wait for what the other holds. *)
EXTENDS AppLifecycle
===============================================================================
