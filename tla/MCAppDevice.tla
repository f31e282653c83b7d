---------------------------- MODULE MCAppDevice ----------------------------
(* Up to three workers, a queue of two tasks and messages of two lengths. *)
EXTENDS AppDevice

CONSTANTS w1, w2, w3

MCLength == <<1, 2, 2, 1>>
=============================================================================
