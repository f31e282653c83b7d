------------------------------ MODULE MCBtBringUp ------------------------------
(* Two deaths: a start that finds what a start left that found what one left. *)
EXTENDS BtBringUp
================================================================================
