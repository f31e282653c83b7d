----------------------------- MODULE MCAppBuffer -----------------------------
(* Model values and sizes for the double buffer. *)
EXTENDS AppBuffer, TLC

CONSTANTS w1, r1, r2, a, b, c

(* a and b differ only in length; c does not fit the length byte. *)
MCDataSize == a :> 1 @@ b :> 2 @@ c :> 4
==============================================================================
