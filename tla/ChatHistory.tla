---------------------------- MODULE ChatHistory -----------------------------
(***************************************************************************)
(* The chat messages a peer keeps, and the order in which it shows them.   *)
(*                                                                         *)
(* insert_record sorts after every insertion and the sort does not depend  *)
(* on the order it finds, so a history is the set of its records and what  *)
(* is shown is a function of that set.  An author is its peer id with the  *)
(* time it joined: a restarted peer is another author.                     *)
(***************************************************************************)
EXTENDS Integers, FiniteSetsExt, SequencesExt

CONSTANTS
  Peer,         \* authors, as numbers: message ids are compared as their authors are
  MaxMessages   \* MAX_MESSAGES

ASSUME PeerAssumption == Peer \subseteq Nat /\ IsFiniteSet(Peer)
ASSUME MaxMessagesAssumption == MaxMessages \in Nat \ {0}

\* frontier[a] is the last message of a that the author knew of, 0 for none.
Record == [by : Peer, seq : Nat, frontier : [Peer -> Nat], sent_at : Int]

Id(r) == <<r.by, r.seq>>

\* Mutant of DependsOn: the frontier is not looked at.
DependsOnOwn(r, other) == r.by = other.by /\ other.seq < r.seq

\* chat_depends_on: what r's author said before, and what it knew of the others.
DependsOn(r, other) ==
  /\ Id(r) # Id(other)
  /\ \/ r.by = other.by /\ other.seq < r.seq
     \/ other.seq <= r.frontier[other.by]

\* chat_fallback_order
Earlier(r, other) ==
  \/ r.sent_at < other.sent_at
  \/ r.sent_at = other.sent_at /\ r.by < other.by

\* Those that depend on nothing left, or the earliest when there is no such record.
Ready(records) ==
  LET free == {r \in records : \A other \in records : ~DependsOn(r, other)}
  IN  IF free # {} THEN free
      ELSE {r \in records : \A other \in records \ {r} : Earlier(r, other)}

InOrderOfTime(records) ==
  CHOOSE s \in [1..Cardinality(records) -> records] :
    \A i, j \in DOMAIN s : i < j => Earlier(s[i], s[j])

\* Records that the order of time tells apart: an author writes one message at a time.
Histories ==
  {records \in SUBSET Record :
     /\ IsFiniteSet(records)
     /\ \A r, other \in records : r = other \/ Earlier(r, other) \/ Earlier(other, r)}

\* sort_history_causally: layer after layer, each in the order of time.
Sorted[records \in Histories] ==
  IF records = {} THEN <<>>
  ELSE LET ready == Ready(records)
       IN  InOrderOfTime(ready) \o Sorted[records \ ready]

\* history_frontier
Frontier(records) ==
  [a \in Peer |-> Max({0} \cup {r.seq : r \in {s \in records : s.by = a}})]

\* Mutant of Overflow: the messages shown last go.
OverflowOfLast(records) ==
  {Sorted[records][i] : i \in (MaxMessages + 1)..Cardinality(records)}

\* Mutant of Overflow: one record more than MaxMessages stays.
OverflowLate(records) ==
  {Sorted[records][i] : i \in 1..(Cardinality(records) - MaxMessages - 1)}

\* The records that go first when there are more than MaxMessages.
Overflow(records) ==
  {Sorted[records][i] : i \in 1..(Cardinality(records) - MaxMessages)}

\* history_newest_at, which has no value for an empty history
NewestAt(records) == Max({r.sent_at : r \in records})

\* What publish_history_summary says of a history: the time of the record shown last.
LastShownAt(records) == Last(Sorted[records]).sent_at

\* Mutant of IsNewer: only the newest message counts.
IsNewerByTime(summary, records) ==
  summary.count > 0 /\ (records = {} \/ summary.newest_at > NewestAt(records))

\* history_summary_is_newer
IsNewer(summary, records) ==
  \/ summary.count > Cardinality(records)
  \/ /\ summary.count > 0
     /\ records = {} \/ summary.newest_at > NewestAt(records)
=============================================================================
