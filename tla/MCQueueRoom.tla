---------------------------- MODULE MCQueueRoom -----------------------------
(* Constants and symmetry of the runs of QueueRoom. *)
EXTENDS QueueRoom, TLC

CONSTANTS p1, p2, p3

FullRoom == [p \in Peer |-> Peer \ {p}]
OneItem == <<p1>>
TwoItems == <<p1, p2>>
NoItems == <<>>
\* Peers that own no initial item are interchangeable.
Guests == Permutations({p2, p3})
=============================================================================
