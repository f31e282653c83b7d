----------------------------- MODULE MCOtaDaemon -----------------------------
(* The second release runs: one is older, two are newer. *)
EXTENDS OtaDaemon

MCReleases == << <<2, 9, 9>>, <<3, 0, 0>>, <<3, 0, 1>>, <<4, 0, 0>> >>
==============================================================================
