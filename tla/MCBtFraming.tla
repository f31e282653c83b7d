----------------------------- MODULE MCBtFraming -----------------------------
(* Short frames, with messages that look like a header, after noise of       *)
(* every kind: none, the end of a frame that was cut off, and bytes that may *)
(* be the beginning of a header.                                             *)
EXTENDS BtFraming

Frame(noise, message) ==
  [noise |-> noise, id |-> <<0, 136>>, own |-> <<255, 255>>, message |-> message]

MCFrames ==
  { Frame(<<>>, <<65>>),
    Frame(<<>>, <<241, 221>>),
    Frame(<<241>>, <<66, 241, 221>>),
    Frame(<<35, 255, 255, 67, 68, 0, 1, 0, 241, 0>>, <<69>>) }
==============================================================================
