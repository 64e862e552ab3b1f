----------------------------- MODULE MCPeerLinks -----------------------------
(* Constants of the runs of PeerLinks. *)
EXTENDS PeerLinks, TLC

CONSTANTS a, b, r1, d1, d2, x, y

DirectLinks == Permutations(DirectLink)
=============================================================================
