-------------------------- MODULE MCPlaybackHealth --------------------------
(* Constants of the run of PlaybackHealth. *)
EXTENDS PlaybackHealth, TLC

CONSTANTS p1, p2
=============================================================================
