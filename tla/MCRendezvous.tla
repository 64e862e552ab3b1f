---------------------------- MODULE MCRendezvous ----------------------------
(* Constants of the run of Rendezvous. *)
EXTENDS Rendezvous

CONSTANTS p1, p2, n1
=============================================================================
