----------------------------- MODULE MCAppMqtt -----------------------------
(* Two threads in connlost at the same time, two commands and one frame. *)
EXTENDS AppMqtt

CONSTANTS h1, h2
=============================================================================
