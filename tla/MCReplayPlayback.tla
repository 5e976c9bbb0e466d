-------------------------- MODULE MCReplayPlayback ---------------------------
(* A recording of three columns, played at two speeds, with up to two controls *)
(* under way to the server and four messages to the page.                      *)
EXTENDS ReplayPlayback

MCSpeed == {1, 5}
==============================================================================
