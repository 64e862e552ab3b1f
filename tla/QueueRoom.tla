----------------------------- MODULE QueueRoom ------------------------------
(***************************************************************************)
(* The room's replicated queue and the votes on it: every peer's queue,    *)
(* version, timestamp and active vote, the gossip between the peers and    *)
(* the connections that decide whose ballots a majority is counted over.   *)
(* The peers' backends run one handler at a time to its end, so an action  *)
(* is a handler of run_network or apply_wire_message.                      *)
(*                                                                         *)
(* A track is playing throughout, so the start_next_if_idle that ends an   *)
(* enqueue returns at once; playback is the subject of BufferRoom.         *)
(***************************************************************************)
EXTENDS MusicState

CONSTANTS
  InitOwners,    \* who asked for the items all the queues hold at first
  Links,         \* Links[p]: the peers p is connected to at first
  AntiEntropy,   \* the peers whose summaries and snapshots are published
  MoveTargets,   \* the places a Move may ask for, from zero
  Impatient,     \* the peers whose VOTE_TIMEOUT may pass
  MaxChanges,    \* bound on the enqueues and direct removals
  MaxProposals,  \* bound on the votes opened
  MaxChurn       \* bound on the connections opened and closed

ASSUME InitOwnersAssumption == InitOwners \in Seq(Peer)
ASSUME LinksAssumption == \A p \in Peer : Links[p] \subseteq Peer \ {p}
ASSUME BoundsAssumption ==
  /\ AntiEntropy \cup Impatient \subseteq Peer
  /\ MoveTargets \cup {MaxChanges, MaxProposals, MaxChurn} \subseteq Nat

VARIABLES
  music,      \* music[p]: p's MusicState
  inbox,      \* inbox[p]: what gossip has yet to deliver to p, or has lost
  cooling,    \* cooling[p]: whom p asked for a queue within the cooldown
  connected,  \* connected[p]: the room peers p holds a connection to
  clock,      \* the next timestamp; clocks agree and no two readings are equal
  churn,      \* connections opened and closed so far
  ballots,    \* history: the ballots cast
  decided     \* history: the votes a peer resolved, and how

vars == <<music, inbox, cooling, connected, clock, churn, ballots, decided>>

Ballot == [type : {"VoteBallot"}, vote_id : Peer \X Nat, peer : Peer,
           approve : BOOLEAN]

Message ==
  [type : {"QueueState"}, state : QueueState]
    \cup [type : {"QueueSummary"}, peer : Peer, version : Nat, updated_at : Nat]
    \cup [type : {"QueueRequest"}, requester : Peer, target : Peer,
          known_version : Nat, known_updated_at : Nat]
    \cup [type : {"QueueResponse"}, target : Peer, state : QueueState]
    \cup [type : {"VoteProposal"}, proposal : VoteProposal]
    \cup Ballot

Decision == [peer : Peer, vote_id : Peer \X Nat, outcome : {"Passed", "Rejected"}]

TypeOK ==
  /\ music \in [Peer -> Music]
  /\ inbox \in [Peer -> SUBSET Message]
  /\ cooling \in [Peer -> SUBSET Peer]
  /\ connected \in [Peer -> SUBSET Peer]
  /\ clock \in Nat /\ churn \in Nat
  /\ ballots \subseteq Ballot
  /\ decided \subseteq Decision
-----------------------------------------------------------------------------
\* room_peer_count: the local peer and the room peers it is connected to.
RoomPeerCount(p) == Cardinality(connected[p] \cup {p})

\* Requests and responses are broadcast too, and ignored by all but their target.
Concerns(m, q) == m.type \in {"QueueRequest", "QueueResponse"} => m.target = q

\* p has handled `received' and published `sent'.  Gossip delivers a message to
\* a peer at most once, after any delay and in any order; publishing to nobody
\* or into full queues is an Ok that sends nothing, as is a delivery that
\* never comes.
Gossip(p, received, sent) ==
  inbox' = [q \in Peer |->
              IF q = p THEN inbox[p] \ received
              ELSE inbox[q] \cup {m \in sent : Concerns(m, q)}]

QueueStateMessage(m) == [type |-> "QueueState", state |-> BuildQueueState(m)]

QueueRequest(p, m, target) ==
  [type |-> "QueueRequest", requester |-> p, target |-> target,
   known_version |-> m.queue_version, known_updated_at |-> m.queue_updated_at]

\* Whose queue p asks for, given who it would like to ask: should_request_queue
\* allows one request per target and QUEUE_REQUEST_COOLDOWN.
Asked(p, wanted) == wanted \ cooling[p]

\* request_queue_for_vote_context: a vote on a later queue than p's.
ContextNeeded(m, proposal) ==
  IF proposal.queue_version > m.queue_version THEN {proposal.proposer} ELSE {}

\* A handler of p brought its music to m, published `sent', and p asks the
\* peers in `asked' for their queues.
Publish(p, m, received, sent, asked) ==
  /\ music' = [music EXCEPT ![p] = m]
  /\ Gossip(p, received, sent \cup {QueueRequest(p, m, q) : q \in asked})
  /\ cooling' = [cooling EXCEPT ![p] = @ \cup asked]

\* A handler of p brought its music to m and ends in resolve_active_vote.
ResolveVote(p, m, received, sent) ==
  LET n == RoomPeerCount(p)
      after == ResolveActiveVote(m, n)
      executed == IF ExecutesVote(m, n) THEN {QueueStateMessage(after)} ELSE {}
      waiting == IF ReadyVoteWaitingForQueue(m, n)
                 THEN Asked(p, {m.active_vote.proposal.proposer}) ELSE {}
  IN  /\ Publish(p, after, received, sent \cup executed, waiting)
      /\ decided' = decided \cup
           {[peer |-> p, vote_id |-> VoteId(m.active_vote.proposal), outcome |-> o] :
              o \in {Resolution(m, n)} \cap {"Passed", "Rejected"}}
-----------------------------------------------------------------------------
(* Commands of the local user *)

\* Every timestamp after the initial ones opened a vote or changed a queue.
Proposals == Cardinality({b.vote_id : b \in ballots})
Changes == clock - (Len(InitOwners) + 1) - Proposals

\* NetworkCommand::EnqueueBilibili, once the track is resolved
EnqueueBilibili(p) ==
  LET item == [requested_by |-> p, added_at |-> clock]
      m == MarkQueueChanged([music[p] EXCEPT !.queue = Append(@, item)], clock)
  IN  /\ Changes < MaxChanges
      /\ clock' = clock + 1
      /\ Publish(p, m, {}, {QueueStateMessage(m)}, {})
      /\ UNCHANGED <<connected, churn, ballots, decided>>

\* NetworkCommand::RemoveQueueItem on an item p asked for itself
RemoveQueueItem(p, i) ==
  LET m == MarkQueueChanged(
             [music[p] EXCEPT !.queue = WithoutIndex(@, i)], clock)
  IN  /\ Changes < MaxChanges
      /\ music[p].queue[i].requested_by = p
      /\ clock' = clock + 1
      /\ Publish(p, m, {}, {QueueStateMessage(m)}, {})
      /\ UNCHANGED <<connected, churn, ballots, decided>>

Approval(p, id) == [type |-> "VoteBallot", vote_id |-> id, peer |-> p, approve |-> TRUE]

\* propose_or_execute_vote: the vote opens with the proposer's approval, which
\* is published behind the proposal, and may pass at once in a room of one.
ProposeVote(p, action) ==
  LET proposal == [proposer |-> p, action |-> action,
                   queue_version |-> music[p].queue_version, created_at |-> clock]
      ballot == Approval(p, VoteId(proposal))
  IN  /\ Proposals < MaxProposals
      /\ music[p].active_vote = NoVote
      /\ ~IsStale(music[p], proposal)
      /\ clock' = clock + 1
      /\ ballots' = ballots \cup {ballot}
      /\ ResolveVote(p, [music[p] EXCEPT !.active_vote = NewVote(proposal)], {},
                     {[type |-> "VoteProposal", proposal |-> proposal], ballot})
      /\ UNCHANGED <<connected, churn>>

\* NetworkCommand::RemoveQueueItem on another peer's item
ProposeRemove(p, i) ==
  /\ music[p].queue[i].requested_by # p
  /\ ProposeVote(p, [kind |-> "Remove", item |-> music[p].queue[i]])

\* NetworkCommand::MoveQueueItem
ProposeMove(p, i, to_index) ==
  ProposeVote(p, [kind |-> "Move", item |-> music[p].queue[i],
                  to_index |-> to_index])

\* NetworkCommand::Vote, from cast_vote; a second ballot changes nothing.
Vote(p, approve) ==
  LET m == music[p]
      ballot == [type |-> "VoteBallot", vote_id |-> VoteId(m.active_vote.proposal),
                 peer |-> p, approve |-> approve]
  IN  /\ m.active_vote # NoVote
      /\ ~HasVoted(m.active_vote, p)
      /\ ballots' = ballots \cup {ballot}
      /\ ResolveVote(p, [m EXCEPT !.active_vote = CastBallot(@, p, approve)], {},
                     {ballot})
      /\ UNCHANGED <<connected, clock, churn>>
-----------------------------------------------------------------------------
(* Messages *)

\* WireMessage::VoteProposal: one vote at a time, and no stale one.
ReceiveVoteProposal(p, msg) ==
  LET m == music[p]
      proposal == msg.proposal
      opened == [m EXCEPT !.active_vote = NewVote(proposal)]
  IN  /\ msg.type = "VoteProposal"
      /\ IF m.active_vote = NoVote /\ ~IsStale(m, proposal)
         THEN Publish(p, opened, {msg}, {}, Asked(p, ContextNeeded(m, proposal)))
         ELSE Publish(p, m, {msg}, {}, {})
      /\ UNCHANGED <<connected, clock, churn, ballots, decided>>

\* CastVoteFor without the look at the ballot's vote.
CastVoteForAny(m, msg) ==
  IF m.active_vote # NoVote
  THEN [m EXCEPT !.active_vote = CastBallot(@, msg.peer, msg.approve)]
  ELSE m

\* The active vote of m with the ballot counted, when the ballot is for it.
CastVoteFor(m, msg) ==
  IF m.active_vote # NoVote /\ VoteId(m.active_vote.proposal) = msg.vote_id
  THEN [m EXCEPT !.active_vote = CastBallot(@, msg.peer, msg.approve)]
  ELSE m

\* WireMessage::VoteBallot
ReceiveVoteBallot(p, msg) ==
  /\ msg.type = "VoteBallot"
  /\ ResolveVote(p, CastVoteFor(music[p], msg), {msg}, {})
  /\ UNCHANGED <<connected, clock, churn, ballots>>

\* WireMessage::QueueState and WireMessage::QueueResponse
ReceiveQueueState(p, msg) ==
  /\ msg.type \in {"QueueState", "QueueResponse"}
  /\ IF AppliesQueueState(music[p], msg.state)
     THEN ResolveVote(p, ApplyRemoteQueueState(music[p], msg.state), {msg}, {})
     ELSE Publish(p, music[p], {msg}, {}, {}) /\ UNCHANGED decided
  /\ UNCHANGED <<connected, clock, churn, ballots>>

\* WireMessage::QueueSummary
ReceiveQueueSummary(p, msg) ==
  LET m == music[p]
      wanted == IF IsQueueStateNewer(msg.version, msg.updated_at,
                                     m.queue_version, m.queue_updated_at)
                THEN {msg.peer} ELSE {}
  IN  /\ msg.type = "QueueSummary"
      /\ Publish(p, m, {msg}, {}, Asked(p, wanted))
      /\ UNCHANGED <<connected, clock, churn, ballots, decided>>

\* WireMessage::QueueRequest, answered from a newer queue only
ReceiveQueueRequest(p, msg) ==
  LET m == music[p]
      response == [type |-> "QueueResponse", target |-> msg.requester,
                   state |-> BuildQueueState(m)]
      newer == IsQueueStateNewer(m.queue_version, m.queue_updated_at,
                                 msg.known_version, msg.known_updated_at)
  IN  /\ msg.type = "QueueRequest"
      /\ msg.requester # p
      /\ Publish(p, m, {msg}, IF newer THEN {response} ELSE {}, {})
      /\ UNCHANGED <<connected, clock, churn, ballots, decided>>
-----------------------------------------------------------------------------
(* Timers and connections *)

HasQueueState(m) == m.queue_version # 0 \/ m.queue # <<>>

\* history_sync and the bursts after a connection: publish_queue_summary
PublishQueueSummary(p) ==
  LET m == music[p]
  IN  /\ p \in AntiEntropy /\ HasQueueState(m)
      /\ Publish(p, m, {}, {[type |-> "QueueSummary", peer |-> p,
                             version |-> m.queue_version,
                             updated_at |-> m.queue_updated_at]}, {})
      /\ UNCHANGED <<connected, clock, churn, ballots, decided>>

\* publish_music_snapshot on a new connection: publish_queue_snapshot
PublishQueueSnapshot(p) ==
  /\ p \in AntiEntropy /\ HasQueueState(music[p])
  /\ Publish(p, music[p], {}, {QueueStateMessage(music[p])}, {})
  /\ UNCHANGED <<connected, clock, churn, ballots, decided>>

\* QUEUE_REQUEST_COOLDOWN has elapsed since p asked q.
RequestCooldownElapsed(p, q) ==
  /\ q \in cooling[p]
  /\ cooling' = [cooling EXCEPT ![p] = @ \ {q}]
  /\ UNCHANGED <<music, inbox, connected, clock, churn, ballots, decided>>

\* music_local: take_timed_out_vote once VOTE_TIMEOUT has passed
VoteTimeout(p) ==
  /\ p \in Impatient /\ music[p].active_vote # NoVote
  /\ Publish(p, [music[p] EXCEPT !.active_vote = NoVote], {}, {}, {})
  /\ UNCHANGED <<connected, clock, churn, ballots, decided>>

\* music_local: resolve_active_vote, with the connections of the moment
MusicLocalTick(p) ==
  /\ ResolveVote(p, music[p], {}, {})
  /\ UNCHANGED <<connected, clock, churn, ballots>>

ConnectionEstablished(p, q) ==
  /\ churn < MaxChurn /\ q \notin connected[p] \cup {p}
  /\ connected' = [connected EXCEPT ![p] = @ \cup {q}]
  /\ churn' = churn + 1
  /\ UNCHANGED <<music, inbox, cooling, clock, ballots, decided>>

ConnectionClosed(p, q) ==
  /\ churn < MaxChurn /\ q \in connected[p]
  /\ connected' = [connected EXCEPT ![p] = @ \ {q}]
  /\ churn' = churn + 1
  /\ UNCHANGED <<music, inbox, cooling, clock, ballots, decided>>
-----------------------------------------------------------------------------
\* The queue that InitOwners enqueued one after the other and that has reached
\* every peer.
InitMusic ==
  [queue |-> [i \in 1..Len(InitOwners) |->
                [requested_by |-> InitOwners[i], added_at |-> i]],
   queue_version |-> Len(InitOwners), queue_updated_at |-> Len(InitOwners),
   active_vote |-> NoVote]

Init ==
  /\ music = [p \in Peer |-> InitMusic]
  /\ inbox = [p \in Peer |-> {}]
  /\ cooling = [p \in Peer |-> {}]
  /\ connected = [p \in Peer |-> Links[p]]
  /\ clock = Len(InitOwners) + 1
  /\ churn = 0
  /\ ballots = {}
  /\ decided = {}

Command(p) ==
  \/ EnqueueBilibili(p)
  \/ \E i \in DOMAIN music[p].queue : RemoveQueueItem(p, i) \/ ProposeRemove(p, i)
  \/ \E i \in DOMAIN music[p].queue, to_index \in MoveTargets :
       ProposeMove(p, i, to_index)
  \/ \E approve \in BOOLEAN : Vote(p, approve)

Receive(p) ==
  \E msg \in inbox[p] :
    \/ ReceiveVoteProposal(p, msg)
    \/ ReceiveVoteBallot(p, msg)
    \/ ReceiveQueueState(p, msg)
    \/ ReceiveQueueSummary(p, msg)
    \/ ReceiveQueueRequest(p, msg)

Timer(p) ==
  \/ PublishQueueSummary(p)
  \/ PublishQueueSnapshot(p)
  \/ VoteTimeout(p)
  \/ MusicLocalTick(p)
  \/ \E q \in Peer : RequestCooldownElapsed(p, q)

Connection(p) ==
  \E q \in Peer : ConnectionEstablished(p, q) \/ ConnectionClosed(p, q)

Next == \E p \in Peer : Command(p) \/ Receive(p) \/ Timer(p) \/ Connection(p)

Spec == Init /\ [][Next]_vars
-----------------------------------------------------------------------------
(* Fairness: the 100ms and summary timers of a running peer keep firing and   *)
(* what is published again and again is delivered again and again.  A queue   *)
(* broadcast, by contrast, is sent once and may be lost: nothing is assumed   *)
(* of ReceiveQueueState on a QueueState.                                      *)
AntiEntropyFairness(p, q) ==
  /\ WF_vars(RequestCooldownElapsed(p, q))
  /\ SF_vars(\E msg \in inbox[p] : ReceiveQueueSummary(p, msg) /\ msg.peer = q)
  /\ SF_vars(\E msg \in inbox[p] : ReceiveQueueRequest(p, msg) /\ msg.requester = q)

FairSpec ==
  /\ Spec
  /\ \A p \in Peer :
       /\ WF_vars(PublishQueueSummary(p))
       /\ SF_vars(\E msg \in inbox[p] :
                    msg.type = "QueueResponse" /\ ReceiveQueueState(p, msg))
       /\ \A q \in Peer \ {p} : AntiEntropyFairness(p, q)
-----------------------------------------------------------------------------
(* Properties *)

Yes(id) == {b.peer : b \in {c \in ballots : c.vote_id = id /\ c.approve}}
No(id) == {b.peer : b \in {c \in ballots : c.vote_id = id /\ ~c.approve}}

\* Every ballot a peer counts for its active vote was cast by the peer it is
\* counted for, as it was cast: proposals, ballots and timeouts in any order
\* never attribute a ballot to the wrong vote, side or peer
\* (ActiveVote::vote, cast_vote_for, receive_vote_proposal).
CountedBallotsWereCast ==
  \A p \in Peer : music[p].active_vote # NoVote =>
    LET vote == music[p].active_vote
    IN  /\ vote.approvals \subseteq Yes(VoteId(vote.proposal))
        /\ vote.rejections \subseteq No(VoteId(vote.proposal))

\* A peer's ballots on one vote never contradict each other, also when its own
\* vote closed, timed out or reopened in between: two peers may count
\* different ballots of it, but not opposite ones.
OneBallotPerVote ==
  \A b, c \in ballots :
    b.peer = c.peer /\ b.vote_id = c.vote_id => b.approve = c.approve

\* No vote passes at one peer and is rejected at another.
VoteOutcomeIsShared ==
  \A d, e \in decided : d.vote_id = e.vote_id => d.outcome = e.outcome

\* In a fully connected room whose connections do not change, lost and
\* reordered ballots may leave a vote open at some peers, but the peers that
\* resolve it by counting agree on the outcome (terminal_outcome, resolve_vote).
VoteAgreement == churn = 0 => VoteOutcomeIsShared

\* No item is twice in a queue or in a snapshot under way, whatever mix of
\* appends, removals, moves by vote and adopted snapshots produced it.
NoDuplicateItems ==
  LET IsDistinct(queue) ==
        \A i, j \in DOMAIN queue : queue[i] = queue[j] => i = j
  IN  \A p \in Peer :
        /\ IsDistinct(music[p].queue)
        /\ \A msg \in inbox[p] :
             msg.type \in {"QueueState", "QueueResponse"} => IsDistinct(msg.state.items)

\* A vote that changes a peer's queue changes the queue version it was opened
\* on, however late it passes and whatever the peer queued meanwhile
\* (stale_vote_reason, ready_vote_waiting_for_queue).
VotesRunOnTheirVersion ==
  [][\A p \in Peer :
       LET vote == music[p].active_vote
       IN  (/\ vote # NoVote
            /\ music'[p].queue_updated_at = vote.proposal.created_at
            /\ music'[p].queue # music[p].queue)
           => music'[p].queue_version = vote.proposal.queue_version + 1]_vars

QueueMessagesAt(p) ==
  {msg \in inbox[p] : msg.type \in {"QueueState", "QueueResponse"}}

Listed(queue) == {queue[i] : i \in DOMAIN queue}

Precedes(queue, a, b) ==
  \E i, j \in DOMAIN queue : i < j /\ queue[i] = a /\ queue[j] = b

\* Both queues hold the same items in the same order, apart from `item'.
AgreeBut(before, after, item) ==
  /\ Listed(before) \ {item} = Listed(after) \ {item}
  /\ \A a, b \in Listed(before) \ {item} :
       Precedes(before, a, b) <=> Precedes(after, a, b)

\* What lets p's queue lose the item in this step: p's own hand, or a vote to remove
\* it, which in a room of one runs as it is opened.
MayLose(p, item) ==
  \/ clock' # clock /\ (item.requested_by = p \/ RoomPeerCount(p) = 1)
  \/ /\ music[p].active_vote # NoVote
     /\ music[p].active_vote.proposal.action = [kind |-> "Remove", item |-> item]

ChangesOneItem(p, before, after) ==
  \/ before = after
  \/ \E item \in Listed(before) \cup Listed(after) :
       /\ AgreeBut(before, after, item)
       /\ item \notin Listed(after) => MayLose(p, item)

\* The queues a step of p may go on from: p's own, or a newer one it takes over.
Starts(p) ==
  LET adopted == {msg \in QueueMessagesAt(p) \ inbox'[p] :
                    AppliesQueueState(music[p], msg.state)}
  IN  {music[p].queue} \cup {msg.state.items : msg \in adopted}

KeepsTheRest(p) == \E before \in Starts(p) : ChangesOneItem(p, before, music'[p].queue)

\* A step changes the place of one item at most and loses none but by its owner's
\* hand or a vote to remove it: appends, removals, moves and votes that run on what
\* has just arrived leave the other items where they are among each other
\* (execute_vote_action, remove_queue_item, apply_remote_queue_state).
QueuesKeepTheRest == [][\A p \in Peer : KeepsTheRest(p)]_vars

VoteTimes == {b.vote_id[2] : b \in ballots}

\* Two queues with the same version and timestamp are the same queue, as neither
\* would ever replace the other (is_queue_state_newer), unless the timestamp is a
\* vote's: a vote stamps what it leaves at each peer with its own time, and two peers
\* may have run it on different queues of one version (mark_queue_changed).
SameStampSameQueue ==
  \A p, q \in Peer :
    /\ music[p].queue_version = music[q].queue_version
    /\ music[p].queue_updated_at = music[q].queue_updated_at
    /\ music[p].queue_updated_at \notin VoteTimes
    => music[p].queue = music[q].queue

Shared ==
  INSTANCE SharedQueue WITH
    First <- BuildQueueState(InitMusic),
    copy <- [p \in Peer |-> BuildQueueState(music[p])],
    underWay <- {msg.state : msg \in UNION {QueueMessagesAt(p) : p \in Peer}}

\* Without votes the queues are what SharedQueue promises, whatever summaries,
\* requests, snapshots and responses do: a queue changes by a change of its own peer's
\* that is later than all there is, or becomes a newer one that a peer has sent, and
\* never an older one (enqueue and remove, mark_queue_changed, should_apply_queue_state).
ImplementsSharedQueue == Shared!Spec

\* Without votes the queues end up equal when every broadcast of a change may
\* be lost: summaries, requests and responses alone bring every peer to the
\* newest queue.
QueuesConverge ==
  <>[](\A p, q \in Peer : music[p].queue = music[q].queue)
=============================================================================
