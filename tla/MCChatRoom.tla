----------------------------- MODULE MCChatRoom -----------------------------
(* Constants of the run of ChatRoom. *)
EXTENDS ChatRoom

\* The clocks agree, or the first peer's is far ahead of the others'.
SomeSkews == {[p \in Peer |-> 0], [p \in Peer |-> IF p = 1 THEN 2 ELSE 0]}
=============================================================================
