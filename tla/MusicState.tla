----------------------------- MODULE MusicState -----------------------------
(***************************************************************************)
(* One peer's shared queue and active queue vote: the queue half of        *)
(* MusicState (music_state.rs) and ActiveVote (core.rs), as pure operators *)
(* on a record [queue, queue_version, queue_updated_at, active_vote].      *)
(* Rooms of peers are built from it (QueueRoom).  Titles, durations and    *)
(* deadlines are abstracted: an item is who asked for it and when, a       *)
(* timeout is a step of the room.                                          *)
(***************************************************************************)
EXTENDS Naturals, FiniteSets, Sequences

CONSTANTS Peer,    \* the room's peers, the rendezvous nodes left out
          NoVote   \* active_vote of a peer with no vote open

Item == [requested_by : Peer, added_at : Nat]

VoteAction == [kind : {"Remove"}, item : Item]
                \cup [kind : {"Move"}, item : Item, to_index : Nat]

VoteProposal == [proposer : Peer, action : VoteAction,
                 queue_version : Nat, created_at : Nat]

\* new_vote_id: the proposer, its clock and a process-wide sequence number.
VoteId(proposal) == <<proposal.proposer, proposal.created_at>>

ActiveVote == [proposal : VoteProposal,
               approvals : SUBSET Peer, rejections : SUBSET Peer]

QueueState == [version : Nat, updated_at : Nat, items : Seq(Item)]

Music == [queue : Seq(Item), queue_version : Nat, queue_updated_at : Nat,
          active_vote : ActiveVote \cup {NoVote}]

ASSUME NoVoteAssumption == NoVote \notin ActiveVote
ASSUME PeerAssumption == Peer # {} /\ IsFiniteSet(Peer)
-----------------------------------------------------------------------------
(* Ballots *)

\* Half of the peers, which two rival halves can be.
HalfThreshold(total) == (total + 1) \div 2

MajorityThreshold(total) == total \div 2 + 1

\* Both constructors count the proposer as having approved.
NewVote(proposal) ==
  [proposal |-> proposal, approvals |-> {proposal.proposer}, rejections |-> {}]

\* HasVoted that only looks on the side of the approvals.
HasApproved(vote, peer) == peer \in vote.approvals

HasVoted(vote, peer) == peer \in vote.approvals \cup vote.rejections

\* ActiveVote::vote: one ballot per peer, the first one counts.
CastBallot(vote, peer, approve) ==
  IF HasVoted(vote, peer) THEN vote
  ELSE IF approve THEN [vote EXCEPT !.approvals = @ \cup {peer}]
  ELSE [vote EXCEPT !.rejections = @ \cup {peer}]

\* saturating_sub: ballots of peers that are not counted can exceed `eligible'.
PendingCount(vote, eligible) ==
  LET cast == Cardinality(vote.approvals) + Cardinality(vote.rejections)
  IN  IF cast > eligible THEN 0 ELSE eligible - cast

HasMajority(vote, eligible) ==
  Cardinality(vote.approvals) >= MajorityThreshold(eligible)

\* TerminalOutcome that closes a vote while the missing ballots could pass it.
EagerOutcome(vote, eligible) ==
  IF HasMajority(vote, eligible) THEN "Passed"
  ELSE IF Cardinality(vote.approvals) + PendingCount(vote, eligible)
            <= MajorityThreshold(eligible)
  THEN "Rejected" ELSE "Pending"

TerminalOutcome(vote, eligible) ==
  IF HasMajority(vote, eligible) THEN "Passed"
  ELSE IF Cardinality(vote.approvals) + PendingCount(vote, eligible)
            < MajorityThreshold(eligible)
  THEN "Rejected" ELSE "Pending"
-----------------------------------------------------------------------------
(* Queue *)

InQueue(queue, item) == \E i \in DOMAIN queue : queue[i] = item

\* position(|item| item.item_id == item_id): item ids are unique in a queue
\* (QueueRoom's NoDuplicateItems), so the first index is the only one.
Position(queue, item) == CHOOSE i \in DOMAIN queue : queue[i] = item

WithoutIndex(queue, i) ==
  SubSeq(queue, 1, i - 1) \o SubSeq(queue, i + 1, Len(queue))

\* An insertion that takes an index behind the end for an impossible one.
InsertedInside(queue, to_index, item) ==
  IF to_index > Len(queue) THEN queue
  ELSE SubSeq(queue, 1, to_index) \o <<item>>
         \o SubSeq(queue, to_index + 1, Len(queue))

\* insert(to_index.min(len), item), to_index counting from zero
Inserted(queue, to_index, item) ==
  LET at == IF to_index > Len(queue) THEN Len(queue) ELSE to_index
  IN  SubSeq(queue, 1, at) \o <<item>> \o SubSeq(queue, at + 1, Len(queue))

\* A change that only counts the version up.
MarkVersionOnly(m, now) == [m EXCEPT !.queue_version = @ + 1]

MarkQueueChanged(m, now) ==
  [m EXCEPT !.queue_version = @ + 1, !.queue_updated_at = now]

BuildQueueState(m) ==
  [version |-> m.queue_version, updated_at |-> m.queue_updated_at,
   items |-> m.queue]

\* Newer by version only: the order the timestamp was added to replace.
IsVersionNewer(version, updated_at, local_version, local_updated_at) ==
  version > local_version

IsQueueStateNewer(version, updated_at, local_version, local_updated_at) ==
  \/ updated_at > local_updated_at
  \/ updated_at = local_updated_at /\ version > local_version

\* stale_vote_reason for Remove and Move: a proposal from a later version
\* waits for the queue; one from this version needs its item.
IsStale(m, proposal) ==
  \/ proposal.queue_version < m.queue_version
  \/ /\ proposal.queue_version = m.queue_version
     /\ ~InQueue(m.queue, proposal.action.item)

InvalidateStaleQueueVote(m) ==
  IF m.active_vote # NoVote /\ IsStale(m, m.active_vote.proposal)
  THEN [m EXCEPT !.active_vote = NoVote] ELSE m

\* A snapshot applied because it differs.
AppliesEveryState(m, s) == s # BuildQueueState(m)

AppliesQueueState(m, s) ==
  IsQueueStateNewer(s.version, s.updated_at, m.queue_version, m.queue_updated_at)

\* apply_remote_queue_state, once the snapshot is known to be newer
ApplyRemoteQueueState(m, s) ==
  InvalidateStaleQueueVote(
    [m EXCEPT !.queue = s.items, !.queue_version = s.version,
              !.queue_updated_at = s.updated_at])
-----------------------------------------------------------------------------
(* Resolving and executing the active vote *)

ReadyVoteWaitingForQueue(m, eligible) ==
  /\ m.active_vote # NoVote
  /\ HasMajority(m.active_vote, eligible)
  /\ m.active_vote.proposal.queue_version > m.queue_version

\* resolve_vote: "None" keeps the vote open.
Resolution(m, eligible) ==
  IF m.active_vote = NoVote \/ ReadyVoteWaitingForQueue(m, eligible)
  THEN "None"
  ELSE TerminalOutcome(m.active_vote, eligible)

\* A Move that puts the item back without taking it out.
MoveWithoutTaking(m, proposal) ==
  LET item == proposal.action.item
      rest == WithoutIndex(m.queue, Position(m.queue, item))
      moved == IF proposal.action.kind = "Remove" THEN rest
               ELSE Inserted(m.queue, proposal.action.to_index, item)
  IN  MarkQueueChanged([m EXCEPT !.queue = moved], proposal.created_at)

\* The vote's effect on the queue; it stamps the proposal's time.
ExecuteVoteAction(m, proposal) ==
  LET item == proposal.action.item
      rest == WithoutIndex(m.queue, Position(m.queue, item))
      moved == IF proposal.action.kind = "Remove" THEN rest
               ELSE Inserted(rest, proposal.action.to_index, item)
  IN  MarkQueueChanged([m EXCEPT !.queue = moved], proposal.created_at)

\* A second look that finds the item and forgets the version.
ExecutesStaleVote(m, eligible) ==
  /\ Resolution(m, eligible) = "Passed"
  /\ InQueue(m.queue, m.active_vote.proposal.action.item)

\* resolve_active_vote runs execute_vote_action: a vote passed and is not stale.
ExecutesVote(m, eligible) ==
  /\ Resolution(m, eligible) = "Passed"
  /\ ~IsStale(m, m.active_vote.proposal)

\* The music state resolve_active_vote leaves behind.
ResolveActiveVote(m, eligible) ==
  LET closed == [m EXCEPT !.active_vote = NoVote]
  IN  IF Resolution(m, eligible) \notin {"Passed", "Rejected"} THEN m
      ELSE IF ExecutesVote(m, eligible)
           THEN ExecuteVoteAction(closed, m.active_vote.proposal)
           ELSE closed
=============================================================================
