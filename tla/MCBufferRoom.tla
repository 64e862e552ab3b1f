---------------------------- MODULE MCBufferRoom ----------------------------
(* Constants of the runs of BufferRoom. *)
EXTENDS BufferRoom

CONSTANTS p1, p2, p3

FullRoom == [p \in Peer |-> Peer \ {p}]
OneItem == <<[requested_by |-> p1, added_at |-> 1]>>
TwoItems == <<[requested_by |-> p1, added_at |-> 1],
              [requested_by |-> p2, added_at |-> 2]>>
\* p1 asks for one track twice.
Repeated == TwoItems \o <<[requested_by |-> p1, added_at |-> 3]>>

\* Whatever a peer asks for, it is one track.
Favourite(item) == item.requested_by
=============================================================================
