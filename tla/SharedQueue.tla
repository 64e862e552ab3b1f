----------------------------- MODULE SharedQueue -----------------------------
(***************************************************************************)
(* What the replicated queue promises to the people in a room as long as   *)
(* nobody votes: everybody has a copy, a copy changes by its own user's    *)
(* hand or is replaced by a newer one that was somebody's, and no change   *)
(* is ever overtaken by an older one.  Concurrent changes do not merge:    *)
(* the later one wins.                                                     *)
(*                                                                         *)
(* How copies travel is left open: those under way may be repeated, lost   *)
(* and delivered in any order.                                             *)
(***************************************************************************)
EXTENDS Naturals

CONSTANTS
  Peer,
  First      \* the copy everybody has at first

VARIABLES
  copy,      \* copy[p]: p's queue with its version and the time of its last change
  underWay   \* the copies on their way to some peer

Newer(c, d) ==
  \/ c.updated_at > d.updated_at
  \/ c.updated_at = d.updated_at /\ c.version > d.version

Held == {copy[p] : p \in Peer}

Init ==
  /\ copy = [p \in Peer |-> First]
  /\ underWay = {}

\* p's user changes p's copy, which becomes newer than every other there is.
Change(p) ==
  /\ \A c \in Held \cup underWay : Newer(copy'[p], c)
  /\ copy'[p].version = copy[p].version + 1
  /\ \A q \in Peer \ {p} : copy'[q] = copy[q]
  /\ underWay' \subseteq underWay \cup {copy'[p]}

\* p takes over a copy that is newer than its own.
Adopt(p) ==
  /\ \E c \in underWay :
       /\ Newer(c, copy[p])
       /\ copy' = [copy EXCEPT ![p] = c]
  /\ underWay' \subseteq underWay

\* Peers send their copies; copies get lost.
Exchange ==
  /\ copy' = copy
  /\ underWay' \subseteq underWay \cup Held

Next == Exchange \/ \E p \in Peer : Change(p) \/ Adopt(p)

Spec == Init /\ [][Next]_<<copy, underWay>>

\* No two copies there are have the same version and time and differ.
StampsTellCopies ==
  \A c, d \in Held \cup underWay : Newer(c, d) \/ Newer(d, c) \/ c = d
=============================================================================
