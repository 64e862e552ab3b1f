-------------------------- MODULE QueueRoomProofs ---------------------------
(***************************************************************************)
(* Theorems about QueueRoom, for any number of peers, any links and any    *)
(* bounds: its type invariant, what its votes are worth, and what the      *)
(* copies of the queue are.                                                *)
(*                                                                         *)
(* Votes: every action either sends and receives no vote message and at    *)
(* most closes a vote, or is one of four vote handlers; VoteStep says what *)
(* those have in common.                                                   *)
(*                                                                         *)
(* Queues: in a room in which no vote is opened QueueRoom implements       *)
(* SharedQueue.  A change is newer than every copy there is because those  *)
(* have all been stamped before: AllArePast.  In any room, with votes, no  *)
(* queue holds an item twice, and a vote that changes a queue runs on the  *)
(* version it was opened on.                                               *)
(***************************************************************************)
EXTENDS QueueRoom, MusicStateProofs

\* What the handlers of p do to the votes: p's active vote becomes v or is
\* closed, p's inbox loses `received', the others' gain the vote messages `sent'.
VoteStep(p, v, received, sent) ==
  /\ music'[p].active_vote \in {v, NoVote}
  /\ \A q \in Peer \ {p} : music'[q].active_vote = music[q].active_vote
  /\ inbox'[p] = inbox[p] \ received
  /\ \A q \in Peer \ {p} : \A msg \in inbox'[q] :
       msg.type \in {"VoteProposal", "VoteBallot"} => msg \in inbox[q] \cup sent

\* The types of the variables a handler of p publishes through.
PublishedOK ==
  /\ music \in [Peer -> Music]
  /\ inbox \in [Peer -> SUBSET Message]
  /\ cooling \in [Peer -> SUBSET Peer]

(* The messages that carry a queue are messages, and no vote messages. *)
LEMMA QueueMessages ==
  ASSUME NEW m \in Music, NEW p \in Peer, NEW q \in Peer
  PROVE  /\ QueueStateMessage(m) \in Message
         /\ QueueStateMessage(m).type = "QueueState"
         /\ QueueRequest(p, m, q) \in Message
         /\ QueueRequest(p, m, q).type = "QueueRequest"
<1>1. BuildQueueState(m) \in QueueState
  BY DEF BuildQueueState, QueueState, Music
<1>2. QueueStateMessage(m) \in Message /\ QueueStateMessage(m).type = "QueueState"
  BY <1>1 DEF QueueStateMessage, Message
<1>3. m.queue_version \in Nat /\ m.queue_updated_at \in Nat
  BY DEF Music
<1>4. /\ QueueRequest(p, m, q) \in
           [type : {"QueueRequest"}, requester : Peer, target : Peer,
            known_version : Nat, known_updated_at : Nat]
      /\ QueueRequest(p, m, q).type = "QueueRequest"
  BY <1>3 DEF QueueRequest
<1>5. QED
  BY <1>2, <1>4 DEF Message

(* A proposal's id is a peer and a time, and an approval of it is a ballot. *)
LEMMA ApprovalType ==
  ASSUME NEW proposal \in VoteProposal, NEW p \in Peer
  PROVE  /\ VoteId(proposal) \in Peer \X Nat
         /\ VoteId(proposal)[1] = proposal.proposer
         /\ VoteId(proposal)[2] = proposal.created_at
         /\ Approval(p, VoteId(proposal)) \in Ballot
  BY DEF VoteProposal, VoteId, Approval, Ballot

(* A handler that publishes keeps the types and is a VoteStep. *)
LEMMA PublishStep ==
  ASSUME PublishedOK, NEW p \in Peer, NEW m \in Music,
         NEW received, NEW sent \in SUBSET Message, NEW asked \in SUBSET Peer,
         Publish(p, m, received, sent, asked)
  PROVE  /\ PublishedOK'
         /\ music' = [music EXCEPT ![p] = m]
         /\ VoteStep(p, m.active_vote, received, sent)
<1> DEFINE requests == {QueueRequest(p, m, q) : q \in asked}
<1>1. \A msg \in requests : msg \in Message /\ msg.type = "QueueRequest"
  BY QueueMessages
<1>2. sent \cup requests \in SUBSET Message
  BY <1>1
<1>3. music' = [music EXCEPT ![p] = m] /\ music' \in [Peer -> Music]
  BY DEF Publish, PublishedOK
<1>4. cooling' \in [Peer -> SUBSET Peer]
  BY DEF Publish, PublishedOK
<1>5. Gossip(p, received, sent \cup requests)
  BY DEF Publish
<1> HIDE DEF requests
<1>6. inbox' \in [Peer -> SUBSET Message]
  BY <1>2, <1>5 DEF Gossip, PublishedOK
<1>7. inbox'[p] = inbox[p] \ received
  BY <1>5 DEF Gossip
<1>8. ASSUME NEW q \in Peer \ {p}, NEW msg \in inbox'[q],
             msg.type \in {"VoteProposal", "VoteBallot"}
      PROVE  msg \in inbox[q] \cup sent
  <2>1. inbox'[q] = inbox[q] \cup {n \in sent \cup requests : Concerns(n, q)}
    BY <1>5 DEF Gossip
  <2>2. QED
    BY <1>1, <1>8, <2>1
<1>9. /\ music'[p].active_vote = m.active_vote
      /\ \A q \in Peer \ {p} : music'[q].active_vote = music[q].active_vote
  BY <1>3 DEF PublishedOK
<1>10. QED
  BY <1>3, <1>4, <1>6, <1>7, <1>8, <1>9 DEF VoteStep, PublishedOK

(* A handler that ends in resolve_active_vote keeps the types, is a VoteStep,
   and records a decision only of the vote it held, as the count of the
   connected peers says. *)
LEMMA ResolveStep ==
  ASSUME PublishedOK, decided \subseteq Decision,
         NEW p \in Peer, NEW m \in Music,
         NEW received, NEW sent \in SUBSET Message,
         ResolveVote(p, m, received, sent)
  PROVE  /\ PublishedOK' /\ decided' \subseteq Decision
         /\ VoteStep(p, m.active_vote, received, sent)
         /\ \A d \in decided' \ decided :
              /\ m.active_vote \in ActiveVote
              /\ d.vote_id = VoteId(m.active_vote.proposal)
              /\ d.outcome = TerminalOutcome(m.active_vote, RoomPeerCount(p))
<1> DEFINE n == RoomPeerCount(p)
           after == ResolveActiveVote(m, n)
           executed == IF ExecutesVote(m, n) THEN {QueueStateMessage(after)} ELSE {}
           waiting == IF ReadyVoteWaitingForQueue(m, n)
                      THEN Asked(p, {m.active_vote.proposal.proposer}) ELSE {}
           made == {[peer |-> p, vote_id |-> VoteId(m.active_vote.proposal), outcome |-> o] :
                      o \in {Resolution(m, n)} \cap {"Passed", "Rejected"}}
<1>1. Publish(p, after, received, sent \cup executed, waiting)
      /\ decided' = decided \cup made
  BY DEF ResolveVote
<1>2. after \in Music /\ after.active_vote \in {m.active_vote, NoVote}
  BY ResolveType
<1>3. m.active_vote # NoVote => /\ m.active_vote \in ActiveVote
                                /\ m.active_vote.proposal \in VoteProposal
                                /\ m.active_vote.proposal.proposer \in Peer
  BY DEF Music, ActiveVote, VoteProposal
<1>4. waiting \in SUBSET Peer
  BY <1>3 DEF ReadyVoteWaitingForQueue, Asked
<1>5. \A msg \in executed : msg \in Message /\ msg.type = "QueueState"
  BY <1>2, QueueMessages
<1>6. \A d \in made : /\ m.active_vote # NoVote
                      /\ d \in [peer : Peer, vote_id : {VoteId(m.active_vote.proposal)},
                                outcome : {"Passed", "Rejected"}]
                      /\ d.outcome = TerminalOutcome(m.active_vote, n)
  BY DEF Resolution
<1>7. \A d \in made : d \in Decision
  BY <1>3, <1>6, ApprovalType DEF Decision
<1> HIDE DEF after, executed, waiting, made
<1>8. /\ PublishedOK'
      /\ VoteStep(p, after.active_vote, received, sent \cup executed)
  BY <1>1, <1>2, <1>4, <1>5, PublishStep
<1>9. VoteStep(p, m.active_vote, received, sent)
  BY <1>2, <1>5, <1>8 DEF VoteStep
<1>10. QED
  BY <1>1, <1>3, <1>6, <1>7, <1>8, <1>9
-----------------------------------------------------------------------------
(* What every step is to the votes *)

\* A handler of p in which p holds the vote v when it resolves it, if it does.
Step(p, v, received, sent) ==
  /\ VoteStep(p, v, received, sent)
  /\ clock' >= clock
  /\ churn' = 0 => churn = 0 /\ connected' = connected
  /\ \A d \in decided' \ decided :
       /\ v \in ActiveVote
       /\ d.vote_id = VoteId(v.proposal)
       /\ d.outcome = TerminalOutcome(v, RoomPeerCount(p))

ProposalMessage(proposal) == [type |-> "VoteProposal", proposal |-> proposal]

Quiet(p) ==
  /\ \E received \in SUBSET Message : Step(p, music[p].active_vote, received, {})
  /\ ballots' = ballots

Opens(p, proposal) ==
  LET ballot == Approval(p, VoteId(proposal))
  IN  /\ proposal.proposer = p /\ proposal.created_at = clock
      /\ Step(p, NewVote(proposal), {}, {ProposalMessage(proposal), ballot})
      /\ ballots' = ballots \cup {ballot}
      /\ clock' > clock

Votes(p, ballot) ==
  LET vote == music[p].active_vote
  IN  /\ vote # NoVote /\ ~HasVoted(vote, p)
      /\ ballot.type = "VoteBallot" /\ ballot.peer = p
      /\ ballot.vote_id = VoteId(vote.proposal)
      /\ Step(p, CastBallot(vote, p, ballot.approve), {}, {ballot})
      /\ ballots' = ballots \cup {ballot}

LearnsOf(p, msg) ==
  /\ msg \in inbox[p] /\ msg.type = "VoteProposal"
  /\ Step(p, NewVote(msg.proposal), {msg}, {})
  /\ ballots' = ballots

Counts(p, ballot) ==
  LET vote == music[p].active_vote
  IN  /\ ballot \in inbox[p] /\ ballot.type = "VoteBallot"
      /\ vote # NoVote /\ ballot.vote_id = VoteId(vote.proposal)
      /\ Step(p, CastBallot(vote, ballot.peer, ballot.approve), {ballot}, {})
      /\ ballots' = ballots

VotesMove(p) ==
  \/ Quiet(p)
  \/ \E proposal \in VoteProposal : Opens(p, proposal)
  \/ \E ballot \in Ballot : Votes(p, ballot) \/ Counts(p, ballot)
  \/ \E msg \in Message : LearnsOf(p, msg)

(* A handler that publishes no vote message and at most closes the vote is quiet. *)
LEMMA QuietPublish ==
  ASSUME TypeOK, NEW p \in Peer, NEW m \in Music,
         m.active_vote \in {music[p].active_vote, NoVote},
         NEW received \in SUBSET Message, NEW sent \in SUBSET Message,
         NEW asked \in SUBSET Peer,
         \A msg \in sent : msg.type \notin {"VoteProposal", "VoteBallot"},
         Publish(p, m, received, sent, asked),
         clock' \in Nat, clock' >= clock,
         UNCHANGED <<connected, churn, ballots, decided>>
  PROVE  TypeOK' /\ Quiet(p)
<1>1. PublishedOK' /\ VoteStep(p, m.active_vote, received, sent)
  BY PublishStep DEF TypeOK, PublishedOK
<1>2. VoteStep(p, music[p].active_vote, received, {})
  BY <1>1 DEF VoteStep
<1>3. TypeOK'
  BY <1>1 DEF TypeOK, PublishedOK
<1>4. QED
  BY <1>2, <1>3 DEF Quiet, Step

(* A handler that resolves the vote as it found it, or none, is quiet. *)
LEMMA QuietResolve ==
  ASSUME TypeOK, NEW p \in Peer, NEW m \in Music,
         m.active_vote \in {music[p].active_vote, NoVote},
         NEW received \in SUBSET Message,
         ResolveVote(p, m, received, {}),
         UNCHANGED <<connected, clock, churn, ballots>>
  PROVE  TypeOK' /\ Quiet(p)
<1>1. PublishedOK /\ decided \subseteq Decision
  BY DEF TypeOK, PublishedOK
<1>2. /\ PublishedOK' /\ decided' \subseteq Decision
      /\ VoteStep(p, m.active_vote, received, {})
      /\ \A d \in decided' \ decided :
           /\ m.active_vote \in ActiveVote
           /\ d.vote_id = VoteId(m.active_vote.proposal)
           /\ d.outcome = TerminalOutcome(m.active_vote, RoomPeerCount(p))
  BY <1>1, ResolveStep
<1>3. m.active_vote \in ActiveVote => m.active_vote = music[p].active_vote
  BY NoVoteAssumption
<1>4. VoteStep(p, music[p].active_vote, received, {})
  BY <1>2 DEF VoteStep
<1>5. TypeOK'
  BY <1>2 DEF TypeOK, PublishedOK
<1>6. clock \in Nat
  BY DEF TypeOK
<1>7. Step(p, music[p].active_vote, received, {})
  BY <1>2, <1>3, <1>4, <1>6 DEF Step
<1>8. QED
  BY <1>5, <1>7 DEF Quiet

(* The commands of the local user that change the queue keep the types and
   leave the votes alone. *)
LEMMA QueueChangesAreQuiet ==
  ASSUME TypeOK, NEW p \in Peer,
         EnqueueBilibili(p) \/ \E i \in DOMAIN music[p].queue : RemoveQueueItem(p, i)
  PROVE  TypeOK' /\ Quiet(p)
<1>0. music[p] \in Music /\ music[p].queue \in Seq(Item) /\ clock \in Nat
  BY DEF TypeOK, Music
<1>1. \A queue \in Seq(Item) :
         LET m == [music[p] EXCEPT !.queue = queue]
         IN  m \in Music /\ m.active_vote = music[p].active_vote
  BY <1>0 DEF Music
<1>2. PICK queue \in Seq(Item) :
         LET m == MarkQueueChanged([music[p] EXCEPT !.queue = queue], clock)
         IN  /\ Publish(p, m, {}, {QueueStateMessage(m)}, {})
             /\ clock' = clock + 1
             /\ UNCHANGED <<connected, churn, ballots, decided>>
  <2>1. CASE EnqueueBilibili(p)
    <3>1. [requested_by |-> p, added_at |-> clock] \in Item
      BY <1>0 DEF Item
    <3>2. Append(music[p].queue, [requested_by |-> p, added_at |-> clock]) \in Seq(Item)
      BY <1>0, <3>1, AppendProperties
    <3>3. QED
      BY <2>1, <3>2 DEF EnqueueBilibili
  <2>2. CASE \E i \in DOMAIN music[p].queue : RemoveQueueItem(p, i)
    <3>1. PICK i \in DOMAIN music[p].queue : RemoveQueueItem(p, i)
      BY <2>2
    <3>2. WithoutIndex(music[p].queue, i) \in Seq(Item)
      BY <1>0, WithoutIndexType
    <3>3. QED
      BY <3>1, <3>2 DEF RemoveQueueItem
  <2>3. QED
    BY <2>1, <2>2
<1> DEFINE edited == [music[p] EXCEPT !.queue = queue]
           m == MarkQueueChanged(edited, clock)
<1>3. edited \in Music /\ edited.active_vote = music[p].active_vote
  BY <1>1
<1> HIDE DEF edited
<1>4. m \in Music /\ m.active_vote = music[p].active_vote
  BY <1>0, <1>3, MarkQueueChangedType
<1>5. /\ Publish(p, m, {}, {QueueStateMessage(m)}, {})
      /\ clock' = clock + 1
      /\ UNCHANGED <<connected, churn, ballots, decided>>
  BY <1>2 DEF edited
<1> HIDE DEF m
<1>6. QueueStateMessage(m) \in Message /\ QueueStateMessage(m).type = "QueueState"
  BY <1>4, QueueMessages
<1>7. QED
  BY <1>0, <1>4, <1>5, <1>6, QuietPublish

(* The timers of p and its connections keep the types and leave the votes
   alone, but for those they close. *)
LEMMA TimersAreQuiet ==
  ASSUME TypeOK, NEW p \in Peer, Timer(p) \/ Connection(p)
  PROVE  TypeOK' /\ Quiet(p)
<1>0. music[p] \in Music /\ clock \in Nat /\ connected \in [Peer -> SUBSET Peer]
      /\ cooling \in [Peer -> SUBSET Peer] /\ churn \in Nat
  BY DEF TypeOK
<1>1. CASE PublishQueueSummary(p)
  <2> DEFINE msg == [type |-> "QueueSummary", peer |-> p,
                     version |-> music[p].queue_version,
                     updated_at |-> music[p].queue_updated_at]
  <2>1. msg \in Message /\ msg.type = "QueueSummary"
    <3>1. music[p].queue_version \in Nat /\ music[p].queue_updated_at \in Nat
      BY <1>0 DEF Music
    <3>2. msg \in [type : {"QueueSummary"}, peer : Peer, version : Nat, updated_at : Nat]
      BY <3>1
    <3>3. QED
      BY <3>2 DEF Message
  <2>2. Publish(p, music[p], {}, {msg}, {})
        /\ UNCHANGED <<connected, clock, churn, ballots, decided>>
    BY <1>1 DEF PublishQueueSummary
  <2> HIDE DEF msg
  <2>3. QED
    BY <1>0, <2>1, <2>2, QuietPublish
<1>2. CASE PublishQueueSnapshot(p)
  BY <1>0, <1>2, QueueMessages, QuietPublish DEF PublishQueueSnapshot
<1>3. CASE VoteTimeout(p)
  <2> DEFINE closed == [music[p] EXCEPT !.active_vote = NoVote]
  <2>1. closed \in Music /\ closed.active_vote = NoVote
    BY <1>0 DEF Music
  <2>2. Publish(p, closed, {}, {}, {})
        /\ UNCHANGED <<connected, clock, churn, ballots, decided>>
    BY <1>3 DEF VoteTimeout
  <2> HIDE DEF closed
  <2>3. QED
    BY <1>0, <2>1, <2>2, QuietPublish
<1>4. CASE MusicLocalTick(p)
  BY <1>0, <1>4, QuietResolve DEF MusicLocalTick
<1>5. ASSUME UNCHANGED <<music, inbox, clock, ballots, decided>>,
             cooling' \in [Peer -> SUBSET Peer], connected' \in [Peer -> SUBSET Peer],
             churn' \in Nat, churn' = 0 => churn = 0 /\ connected' = connected
      PROVE  TypeOK' /\ Quiet(p)
  <2>1. VoteStep(p, music[p].active_vote, {}, {})
    BY <1>5 DEF VoteStep
  <2>2. Step(p, music[p].active_vote, {}, {})
    BY <1>0, <1>5, <2>1 DEF Step
  <2>3. TypeOK'
    BY <1>5 DEF TypeOK
  <2>4. QED
    BY <1>5, <2>2, <2>3 DEF Quiet
<1>6. CASE \E q \in Peer : RequestCooldownElapsed(p, q)
  BY <1>0, <1>5, <1>6 DEF RequestCooldownElapsed
<1>7. CASE Connection(p)
  BY <1>0, <1>5, <1>7 DEF Connection, ConnectionEstablished, ConnectionClosed
<1>8. QED
  BY <1>1, <1>2, <1>3, <1>4, <1>6, <1>7 DEF Timer

(* Receiving a summary, a request or a queue keeps the types and leaves the
   votes alone, but for a vote that the queue makes stale or ripe. *)
LEMMA QueueMessagesAreQuiet ==
  ASSUME TypeOK, NEW p \in Peer, NEW msg \in inbox[p],
         \/ ReceiveQueueState(p, msg)
         \/ ReceiveQueueSummary(p, msg)
         \/ ReceiveQueueRequest(p, msg)
  PROVE  TypeOK' /\ Quiet(p)
<1>0. music[p] \in Music /\ clock \in Nat /\ msg \in Message
  BY DEF TypeOK
<1>1. CASE ReceiveQueueState(p, msg)
  <2>1. msg.state \in QueueState
    BY <1>0, <1>1 DEF ReceiveQueueState, Message, Ballot
  <2>2. ApplyRemoteQueueState(music[p], msg.state) \in Music
        /\ ApplyRemoteQueueState(music[p], msg.state).active_vote
              \in {music[p].active_vote, NoVote}
    BY <1>0, <2>1, ApplyType
  <2>3. QED
    BY <1>0, <1>1, <2>2, QuietPublish, QuietResolve DEF ReceiveQueueState
<1>2. CASE ReceiveQueueSummary(p, msg)
  <2>1. msg.peer \in Peer
    BY <1>0, <1>2 DEF ReceiveQueueSummary, Message, Ballot
  <2>2. PICK asked \in SUBSET Peer :
          /\ Publish(p, music[p], {msg}, {}, asked)
          /\ UNCHANGED <<connected, clock, churn, ballots, decided>>
    BY <1>2, <2>1 DEF ReceiveQueueSummary, Asked
  <2>3. QED
    BY <1>0, <2>2, QuietPublish
<1>3. CASE ReceiveQueueRequest(p, msg)
  <2>1. msg.requester \in Peer
    BY <1>0, <1>3 DEF ReceiveQueueRequest, Message, Ballot
  <2> DEFINE response == [type |-> "QueueResponse", target |-> msg.requester,
                          state |-> BuildQueueState(music[p])]
  <2>2. response \in Message /\ response.type = "QueueResponse"
    <3>1. BuildQueueState(music[p]) \in QueueState
      BY <1>0 DEF BuildQueueState, QueueState, Music
    <3>2. response \in [type : {"QueueResponse"}, target : Peer, state : QueueState]
      BY <2>1, <3>1
    <3>3. QED
      BY <3>2 DEF Message
  <2>3. PICK sent \in SUBSET {response} :
          /\ Publish(p, music[p], {msg}, sent, {})
          /\ UNCHANGED <<connected, clock, churn, ballots, decided>>
    BY <1>3 DEF ReceiveQueueRequest
  <2> HIDE DEF response
  <2>4. QED
    BY <1>0, <2>2, <2>3, QuietPublish
<1>4. QED
  BY <1>1, <1>2, <1>3

(* Opening a vote keeps the types and is what Opens says. *)
LEMMA ProposeOpens ==
  ASSUME TypeOK, NEW p \in Peer, NEW action \in VoteAction, ProposeVote(p, action)
  PROVE  TypeOK' /\ \E proposal \in VoteProposal : Opens(p, proposal)
<1> DEFINE proposal == [proposer |-> p, action |-> action,
                        queue_version |-> music[p].queue_version, created_at |-> clock]
           ballot == Approval(p, VoteId(proposal))
           opened == [music[p] EXCEPT !.active_vote = NewVote(proposal)]
           sent == {ProposalMessage(proposal), ballot}
<1>1. music[p] \in Music /\ clock \in Nat /\ PublishedOK /\ decided \subseteq Decision
  BY DEF TypeOK, PublishedOK
<1>2. proposal \in VoteProposal
  <2>1. music[p].queue_version \in Nat
    BY <1>1 DEF Music
  <2>2. QED
    BY <1>1, <2>1 DEF VoteProposal
<1>3. proposal.proposer = p /\ proposal.created_at = clock
  OBVIOUS
<1>4. /\ clock' = clock + 1 /\ ballots' = ballots \cup {ballot}
      /\ ResolveVote(p, opened, {}, sent)
      /\ UNCHANGED <<connected, churn>>
  BY DEF ProposeVote, ProposalMessage
<1> HIDE DEF proposal
<1>5. NewVote(proposal) \in ActiveVote /\ ballot \in Ballot
  BY <1>2, NewVoteType, ApprovalType
<1>6. opened \in Music /\ opened.active_vote = NewVote(proposal)
  BY <1>1, <1>5 DEF Music
<1>7. sent \in SUBSET Message
  BY <1>2, <1>5 DEF ProposalMessage, Message
<1> HIDE DEF opened, sent
<1>8. /\ PublishedOK' /\ decided' \subseteq Decision
      /\ VoteStep(p, opened.active_vote, {}, sent)
      /\ \A d \in decided' \ decided :
           /\ opened.active_vote \in ActiveVote
           /\ d.vote_id = VoteId(opened.active_vote.proposal)
           /\ d.outcome = TerminalOutcome(opened.active_vote, RoomPeerCount(p))
  BY <1>1, <1>4, <1>6, <1>7, ResolveStep
<1>9. TypeOK'
  BY <1>1, <1>4, <1>5, <1>8 DEF TypeOK, PublishedOK
<1>10. Step(p, NewVote(proposal), {}, sent)
  BY <1>1, <1>4, <1>6, <1>8 DEF Step
<1>11. Opens(p, proposal)
  BY <1>1, <1>3, <1>4, <1>10 DEF Opens, sent
<1>12. QED
  BY <1>2, <1>9, <1>11

(* The local user's vote keeps the types and is what Votes says. *)
LEMMA VoteVotes ==
  ASSUME TypeOK, NEW p \in Peer, NEW approve \in BOOLEAN, Vote(p, approve)
  PROVE  TypeOK' /\ \E ballot \in Ballot : Votes(p, ballot)
<1> DEFINE vote == music[p].active_vote
           ballot == [type |-> "VoteBallot", vote_id |-> VoteId(vote.proposal),
                      peer |-> p, approve |-> approve]
           m == [music[p] EXCEPT !.active_vote = CastBallot(vote, p, approve)]
<1>1. music[p] \in Music /\ clock \in Nat /\ PublishedOK /\ decided \subseteq Decision
  BY DEF TypeOK, PublishedOK
<1>2. /\ vote # NoVote /\ ~HasVoted(vote, p)
      /\ ballots' = ballots \cup {ballot}
      /\ ResolveVote(p, m, {}, {ballot})
      /\ UNCHANGED <<connected, clock, churn>>
  BY DEF Vote
<1>3. vote \in ActiveVote /\ vote.proposal \in VoteProposal
  BY <1>1, <1>2 DEF Music, ActiveVote
<1>4. ballot \in Ballot /\ ballot \in Message
  <2>1. VoteId(vote.proposal) \in Peer \X Nat
    BY <1>3, ApprovalType
  <2>2. ballot \in Ballot
    BY <2>1 DEF Ballot
  <2>3. QED
    BY <2>2 DEF Message
<1>5. /\ ballot.type = "VoteBallot" /\ ballot.peer = p /\ ballot.approve = approve
      /\ ballot.vote_id = VoteId(vote.proposal)
  OBVIOUS
<1>6. /\ CastBallot(vote, p, approve) \in ActiveVote
      /\ CastBallot(vote, p, approve).proposal = vote.proposal
  BY <1>3, CastBallotType
<1>7. m \in Music /\ m.active_vote = CastBallot(vote, p, approve)
  BY <1>1, <1>6 DEF Music
<1> HIDE DEF ballot, m
<1>8. /\ PublishedOK' /\ decided' \subseteq Decision
      /\ VoteStep(p, m.active_vote, {}, {ballot})
      /\ \A d \in decided' \ decided :
           /\ m.active_vote \in ActiveVote
           /\ d.vote_id = VoteId(m.active_vote.proposal)
           /\ d.outcome = TerminalOutcome(m.active_vote, RoomPeerCount(p))
  BY <1>1, <1>2, <1>4, <1>7, ResolveStep
<1>9. TypeOK'
  BY <1>1, <1>2, <1>4, <1>8 DEF TypeOK, PublishedOK
<1>10. Step(p, CastBallot(vote, p, ballot.approve), {}, {ballot})
  BY <1>1, <1>2, <1>5, <1>7, <1>8 DEF Step
<1>11. Votes(p, ballot)
  BY <1>2, <1>5, <1>10 DEF Votes
<1>12. QED
  BY <1>4, <1>9, <1>11

(* Receiving a proposal keeps the types and opens its vote or is quiet. *)
LEMMA ProposalIsLearned ==
  ASSUME TypeOK, NEW p \in Peer, NEW msg \in inbox[p], ReceiveVoteProposal(p, msg)
  PROVE  TypeOK' /\ (Quiet(p) \/ LearnsOf(p, msg))
<1> DEFINE m == music[p]
           proposal == msg.proposal
           opened == [m EXCEPT !.active_vote = NewVote(proposal)]
<1>1. music[p] \in Music /\ clock \in Nat /\ PublishedOK /\ msg \in Message
      /\ msg.type = "VoteProposal" /\ UNCHANGED <<connected, clock, churn, ballots, decided>>
  BY DEF TypeOK, PublishedOK, ReceiveVoteProposal
<1>2. proposal \in VoteProposal /\ proposal.proposer \in Peer
  BY <1>1 DEF Message, Ballot, VoteProposal
<1>3. CASE m.active_vote = NoVote /\ ~IsStale(m, proposal)
  <2>1. PICK asked \in SUBSET Peer : Publish(p, opened, {msg}, {}, asked)
    BY <1>2, <1>3 DEF ReceiveVoteProposal, Asked, ContextNeeded
  <2>2. NewVote(proposal) \in ActiveVote
    BY <1>2, NewVoteType
  <2>3. opened \in Music /\ opened.active_vote = NewVote(proposal)
    BY <1>1, <2>2 DEF Music
  <2> HIDE DEF opened
  <2>4. PublishedOK' /\ VoteStep(p, NewVote(proposal), {msg}, {})
    BY <1>1, <2>1, <2>3, PublishStep
  <2>5. TypeOK'
    BY <1>1, <2>4 DEF TypeOK, PublishedOK
  <2>6. LearnsOf(p, msg)
    BY <1>1, <2>4 DEF LearnsOf, Step
  <2>7. QED
    BY <2>5, <2>6
<1>4. CASE ~(m.active_vote = NoVote /\ ~IsStale(m, proposal))
  <2>1. Publish(p, m, {msg}, {}, {})
    BY <1>4 DEF ReceiveVoteProposal
  <2>2. QED
    BY <1>1, <2>1, QuietPublish
<1>5. QED
  BY <1>3, <1>4

(* Receiving a ballot keeps the types and counts it or is quiet. *)
LEMMA BallotIsCounted ==
  ASSUME TypeOK, NEW p \in Peer, NEW msg \in inbox[p], ReceiveVoteBallot(p, msg)
  PROVE  TypeOK' /\ (Quiet(p) \/ (msg \in Ballot /\ Counts(p, msg)))
<1> DEFINE vote == music[p].active_vote
           cast == CastBallot(vote, msg.peer, msg.approve)
           m == [music[p] EXCEPT !.active_vote = cast]
<1>1. music[p] \in Music /\ clock \in Nat /\ PublishedOK /\ msg \in Message
      /\ decided \subseteq Decision
      /\ msg.type = "VoteBallot" /\ UNCHANGED <<connected, clock, churn, ballots>>
  BY DEF TypeOK, PublishedOK, ReceiveVoteBallot
<1>2. msg \in Ballot
  BY <1>1 DEF Message
<1>3. CASE vote # NoVote /\ VoteId(vote.proposal) = msg.vote_id
  <2>1. ResolveVote(p, m, {msg}, {})
    BY <1>3 DEF ReceiveVoteBallot, CastVoteFor
  <2>2. vote \in ActiveVote
    BY <1>1, <1>3 DEF Music
  <2>3. cast \in ActiveVote
    BY <1>2, <2>2, CastBallotType DEF Ballot
  <2>4. m \in Music /\ m.active_vote = cast
    BY <1>1, <2>3 DEF Music
  <2> HIDE DEF m
  <2>5. /\ PublishedOK' /\ decided' \subseteq Decision
        /\ VoteStep(p, m.active_vote, {msg}, {})
        /\ \A d \in decided' \ decided :
             /\ m.active_vote \in ActiveVote
             /\ d.vote_id = VoteId(m.active_vote.proposal)
             /\ d.outcome = TerminalOutcome(m.active_vote, RoomPeerCount(p))
    BY <1>1, <2>1, <2>4, ResolveStep
  <2>6. TypeOK'
    BY <1>1, <2>5 DEF TypeOK, PublishedOK
  <2>7. Step(p, cast, {msg}, {})
    BY <1>1, <2>4, <2>5 DEF Step
  <2>8. Counts(p, msg)
    BY <1>1, <1>3, <2>7 DEF Counts
  <2>9. QED
    BY <1>2, <2>6, <2>8
<1>4. CASE ~(vote # NoVote /\ VoteId(vote.proposal) = msg.vote_id)
  <2>1. ResolveVote(p, music[p], {msg}, {})
    BY <1>4 DEF ReceiveVoteBallot, CastVoteFor
  <2>2. QED
    BY <1>1, <2>1, QuietResolve
<1>5. QED
  BY <1>3, <1>4

(* Every step of the room keeps the types and is one of the cases of VotesMove. *)
LEMMA NextMovesVotes ==
  ASSUME TypeOK, Next
  PROVE  TypeOK' /\ \E p \in Peer : VotesMove(p)
<1>1. PICK p \in Peer : Command(p) \/ Receive(p) \/ Timer(p) \/ Connection(p)
  BY DEF Next
<1>2. music[p].queue \in Seq(Item)
  BY DEF TypeOK, Music
<1>3. CASE Command(p)
  <2>1. CASE EnqueueBilibili(p) \/ \E i \in DOMAIN music[p].queue : RemoveQueueItem(p, i)
    BY <2>1, QueueChangesAreQuiet DEF VotesMove
  <2>2. ASSUME NEW i \in DOMAIN music[p].queue, ProposeRemove(p, i)
        PROVE  TypeOK' /\ VotesMove(p)
    <3>1. music[p].queue[i] \in Item
      BY <1>2, <2>2, ElementOfSeq, LenProperties
    <3>2. [kind |-> "Remove", item |-> music[p].queue[i]] \in VoteAction
      BY <3>1 DEF VoteAction
    <3>3. QED
      BY <2>2, <3>2, ProposeOpens DEF ProposeRemove, VotesMove
  <2>3. ASSUME NEW i \in DOMAIN music[p].queue, NEW to_index \in MoveTargets,
               ProposeMove(p, i, to_index)
        PROVE  TypeOK' /\ VotesMove(p)
    <3>1. music[p].queue[i] \in Item /\ to_index \in Nat
      BY <1>2, <2>3, ElementOfSeq, LenProperties, BoundsAssumption
    <3>2. [kind |-> "Move", item |-> music[p].queue[i], to_index |-> to_index]
            \in VoteAction
      BY <3>1 DEF VoteAction
    <3>3. QED
      BY <2>3, <3>2, ProposeOpens DEF ProposeMove, VotesMove
  <2>4. ASSUME NEW approve \in BOOLEAN, Vote(p, approve)
        PROVE  TypeOK' /\ VotesMove(p)
    BY <2>4, VoteVotes DEF VotesMove
  <2>5. QED
    BY <1>3, <2>1, <2>2, <2>3, <2>4 DEF Command
<1>4. CASE Receive(p)
  <2>1. PICK msg \in inbox[p] :
          \/ ReceiveVoteProposal(p, msg)
          \/ ReceiveVoteBallot(p, msg)
          \/ ReceiveQueueState(p, msg)
          \/ ReceiveQueueSummary(p, msg)
          \/ ReceiveQueueRequest(p, msg)
    BY <1>4 DEF Receive
  <2>2. msg \in Message
    BY DEF TypeOK
  <2>3. QED
    BY <2>1, <2>2, ProposalIsLearned, BallotIsCounted, QueueMessagesAreQuiet DEF VotesMove
<1>5. CASE Timer(p) \/ Connection(p)
  BY <1>5, TimersAreQuiet DEF VotesMove
<1>6. QED
  BY <1>1, <1>3, <1>4, <1>5

(* The room starts with typed variables. *)
LEMMA InitType == Init => TypeOK
<1> SUFFICES ASSUME Init PROVE TypeOK
  OBVIOUS
<1>1. Len(InitOwners) \in Nat /\ \A i \in 1..Len(InitOwners) : InitOwners[i] \in Peer
  BY InitOwnersAssumption, LenProperties, ElementOfSeq
<1> DEFINE n == Len(InitOwners)
           queue == [i \in 1..n |-> [requested_by |-> InitOwners[i], added_at |-> i]]
<1>2. \A i \in 1..n : [requested_by |-> InitOwners[i], added_at |-> i] \in Item
  BY <1>1 DEF Item
<1>3. queue \in Seq(Item)
  <2>1. queue \in [1..n -> Item]
    BY <1>2
  <2>2. QED
    BY <1>1, <2>1, SeqDef
<1>4. InitMusic \in Music
  BY <1>1, <1>3 DEF InitMusic, Music
<1>5. QED
  BY <1>1, <1>4, LinksAssumption DEF Init, TypeOK

(* Every peer's queue, version, active vote and every message under way stay
   what their types in the code say, through every handler. *)
THEOREM TypeCorrect == Spec => []TypeOK
<1>1. Init => TypeOK
  BY InitType
<1>2. TypeOK /\ [Next]_vars => TypeOK'
  <2>1. ASSUME TypeOK, Next PROVE TypeOK'
    BY <2>1, NextMovesVotes
  <2>2. ASSUME TypeOK, UNCHANGED vars PROVE TypeOK'
    BY <2>2 DEF vars, TypeOK
  <2>3. QED
    BY <2>1, <2>2
<1>3. QED
  BY <1>1, <1>2, PTL DEF Spec

-----------------------------------------------------------------------------
(* What the votes are worth: the inductive invariant behind                *)
(* CountedBallotsWereCast, OneBallotPerVote and VoteAgreement.  The lemmas *)
(* above reduce every step to the five cases of VotesMove; here each of    *)
(* them is shown to keep each conjunct.                                    *)

\* The vote ids in use are older than the clock: a new proposal's id is new.
VoteIdsArePast ==
  /\ \A b \in ballots : b.vote_id[2] < clock
  /\ \A p \in Peer : music[p].active_vote # NoVote =>
       music[p].active_vote.proposal.created_at < clock
  /\ \A p \in Peer : \A msg \in inbox[p] :
       msg.type = "VoteProposal" => msg.proposal.created_at < clock

\* The vote messages under way say what was cast.
MessagesWereCast ==
  \A p \in Peer : \A msg \in inbox[p] :
    /\ msg.type = "VoteBallot" => msg \in ballots
    /\ msg.type = "VoteProposal" =>
         Approval(msg.proposal.proposer, VoteId(msg.proposal)) \in ballots

\* A peer that holds a vote it has cast a ballot on counts its own ballot.
OwnBallotIsCounted ==
  \A p \in Peer : \A b \in ballots :
    /\ music[p].active_vote # NoVote
    /\ b.peer = p /\ b.vote_id = VoteId(music[p].active_vote.proposal)
    => HasVoted(music[p].active_vote, p)

\* A proposal that is still on its way to a peer is of a vote the peer has
\* neither opened nor cast a ballot on, and no other proposal has its id.
ProposalsComeFirst ==
  \A p \in Peer : \A msg \in inbox[p] : msg.type = "VoteProposal" =>
    /\ \A b \in ballots : b.peer = p => b.vote_id # VoteId(msg.proposal)
    /\ music[p].active_vote # NoVote =>
         VoteId(music[p].active_vote.proposal) # VoteId(msg.proposal)
    /\ \A other \in inbox[p] :
         other.type = "VoteProposal" /\ VoteId(other.proposal) = VoteId(msg.proposal)
         => other = msg

\* Every ballot a vote counts is one of `cast', on the side it was cast for.
CountsOnly(vote, cast) ==
  LET Has(q, approve) ==
        \E b \in cast : /\ b.peer = q /\ b.vote_id = VoteId(vote.proposal)
                        /\ b.approve = approve
  IN  /\ \A q \in vote.approvals : Has(q, TRUE)
      /\ \A q \in vote.rejections : Has(q, FALSE)

BallotsInv ==
  /\ TypeOK
  /\ VoteIdsArePast
  /\ MessagesWereCast
  /\ OwnBallotIsCounted
  /\ ProposalsComeFirst
  /\ CountedBallotsWereCast
  /\ OneBallotPerVote

FullyConnected == \A p \in Peer : Links[p] = Peer \ {p}

-----------------------------------------------------------------------------
(* A peer's vote, when it has one, is typed, with the id of its proposal. *)
LEMMA HeldVote ==
  ASSUME TypeOK, NEW p \in Peer, music[p].active_vote # NoVote
  PROVE  /\ music[p].active_vote \in ActiveVote
         /\ music[p].active_vote.proposal \in VoteProposal
         /\ VoteId(music[p].active_vote.proposal)
              = <<music[p].active_vote.proposal.proposer,
                  music[p].active_vote.proposal.created_at>>
  BY DEF TypeOK, Music, ActiveVote, VoteId

(* One more ballot keeps those counted and counts the new one unless its
   peer's was counted before (ActiveVote::vote). *)
LEMMA CastBallotCounts ==
  ASSUME NEW vote \in ActiveVote, NEW peer \in Peer, NEW approve \in BOOLEAN
  PROVE  LET cast == CastBallot(vote, peer, approve)
         IN  /\ cast \in ActiveVote /\ cast.proposal = vote.proposal
             /\ \A q \in Peer : HasVoted(vote, q) => HasVoted(cast, q)
             /\ HasVoted(cast, peer)
             /\ cast.approvals \subseteq vote.approvals \cup
                  (IF approve THEN {peer} ELSE {})
             /\ cast.rejections \subseteq vote.rejections \cup
                  (IF approve THEN {} ELSE {peer})
  BY DEF CastBallot, ActiveVote, HasVoted

(* A vote with one more ballot still counts only ballots of a set that holds
   the new one (ActiveVote::vote). *)
LEMMA CastCountsOnly ==
  ASSUME NEW vote \in ActiveVote, NEW ballot \in Ballot, NEW cast, ballot \in cast,
         ballot.vote_id = VoteId(vote.proposal), CountsOnly(vote, cast)
  PROVE  CountsOnly(CastBallot(vote, ballot.peer, ballot.approve), cast)
<1>1. ballot.peer \in Peer /\ ballot.approve \in BOOLEAN
  BY DEF Ballot
<1> DEFINE after == CastBallot(vote, ballot.peer, ballot.approve)
<1>2. /\ after.proposal = vote.proposal
      /\ after.approvals \subseteq vote.approvals \cup
           (IF ballot.approve THEN {ballot.peer} ELSE {})
      /\ after.rejections \subseteq vote.rejections \cup
           (IF ballot.approve THEN {} ELSE {ballot.peer})
  BY <1>1, CastBallotCounts
<1> HIDE DEF after
<1>3. CountsOnly(after, cast)
  BY <1>1, <1>2 DEF CountsOnly
<1>4. QED
  BY <1>3 DEF after

(* CountedBallotsWereCast, vote by vote. *)
LEMMA CountedIsCountsOnly ==
  CountedBallotsWereCast <=>
    \A p \in Peer : music[p].active_vote # NoVote =>
      CountsOnly(music[p].active_vote, ballots)
  BY DEF CountedBallotsWereCast, CountsOnly, Yes, No

(* Whatever the step, the vote a peer holds when it resolves it counts only
   ballots that were cast. *)
LEMMA HeldCountsCast ==
  ASSUME BallotsInv, NEW p \in Peer, VotesMove(p)
  PROVE  \E v, received, sent :
           /\ Step(p, v, received, sent)
           /\ ballots \subseteq ballots'
           /\ v # NoVote => CountsOnly(v, ballots')
<1> DEFINE vote == music[p].active_vote
<1>1. vote # NoVote => vote \in ActiveVote /\ CountsOnly(vote, ballots)
  BY HeldVote, CountedIsCountsOnly DEF BallotsInv
<1>2. \A bs : ballots \subseteq bs /\ vote # NoVote => CountsOnly(vote, bs)
  BY <1>1 DEF CountsOnly
<1>3. CASE Quiet(p)
  BY <1>1, <1>3 DEF Quiet
<1>4. ASSUME NEW proposal \in VoteProposal, Opens(p, proposal)
      PROVE  CountsOnly(NewVote(proposal), ballots')
  <2>1. Approval(p, VoteId(proposal)) \in ballots' /\ proposal.proposer = p
    BY <1>4 DEF Opens
  <2>2. QED
    BY <2>1 DEF CountsOnly, NewVote, Approval
<1>5. ASSUME NEW ballot \in Ballot, Votes(p, ballot)
      PROVE  CountsOnly(CastBallot(vote, p, ballot.approve), ballots')
  <2>1. /\ vote # NoVote /\ ballot.peer = p /\ ballot.vote_id = VoteId(vote.proposal)
        /\ ballots' = ballots \cup {ballot}
    BY <1>5 DEF Votes
  <2>2. CountsOnly(vote, ballots')
    BY <1>2, <2>1
  <2>3. CountsOnly(CastBallot(vote, ballot.peer, ballot.approve), ballots')
    BY <1>1, <2>1, <2>2, CastCountsOnly
  <2>4. QED
    BY <2>1, <2>3
<1>6. ASSUME NEW ballot \in Ballot, Counts(p, ballot)
      PROVE  CountsOnly(CastBallot(vote, ballot.peer, ballot.approve), ballots')
  <2>1. /\ vote # NoVote /\ ballot.vote_id = VoteId(vote.proposal)
        /\ ballots' = ballots /\ ballot \in ballots
    BY <1>6 DEF Counts, BallotsInv, MessagesWereCast
  <2>2. QED
    BY <1>1, <2>1, CastCountsOnly
<1>7. ASSUME NEW msg \in Message, LearnsOf(p, msg)
      PROVE  CountsOnly(NewVote(msg.proposal), ballots')
  <2>1. /\ ballots' = ballots
        /\ Approval(msg.proposal.proposer, VoteId(msg.proposal)) \in ballots
    BY <1>7 DEF LearnsOf, BallotsInv, MessagesWereCast
  <2>2. QED
    BY <2>1 DEF CountsOnly, NewVote, Approval
<1>8. QED
  BY <1>3, <1>4, <1>5, <1>6, <1>7 DEF VotesMove, Opens, Votes, Counts, LearnsOf

(* Every step keeps the counted ballots cast. *)
LEMMA CountedKept ==
  ASSUME BallotsInv, NEW p \in Peer, VotesMove(p)
  PROVE  CountedBallotsWereCast'
<1>1. PICK v, received, sent :
           /\ Step(p, v, received, sent)
           /\ ballots \subseteq ballots'
           /\ v # NoVote => CountsOnly(v, ballots')
  BY HeldCountsCast
<1>2. /\ music'[p].active_vote \in {v, NoVote}
      /\ \A q \in Peer \ {p} : music'[q].active_vote = music[q].active_vote
  BY <1>1 DEF Step, VoteStep
<1>3. \A q \in Peer : music[q].active_vote # NoVote =>
        CountsOnly(music[q].active_vote, ballots)
  BY CountedIsCountsOnly DEF BallotsInv
<1>4. \A q \in Peer : music'[q].active_vote # NoVote =>
        CountsOnly(music'[q].active_vote, ballots')
  BY <1>1, <1>2, <1>3 DEF CountsOnly
<1>5. QED
  BY <1>4 DEF CountedBallotsWereCast, CountsOnly, Yes, No

(* A quiet step keeps the invariant. *)
LEMMA QuietKeeps ==
  ASSUME BallotsInv, TypeOK', CountedBallotsWereCast', NEW p \in Peer, Quiet(p)
  PROVE  BallotsInv'
<1>1. PICK received \in SUBSET Message :
        VoteStep(p, music[p].active_vote, received, {}) /\ clock' >= clock
  BY DEF Quiet, Step
<1>2. ballots' = ballots /\ clock \in Nat /\ clock' \in Nat
  BY DEF Quiet, BallotsInv, TypeOK
<1>3. \A q \in Peer : music'[q].active_vote \in {music[q].active_vote, NoVote}
  BY <1>1 DEF VoteStep
<1>4. \A q \in Peer : \A msg \in inbox'[q] :
         msg.type \in {"VoteProposal", "VoteBallot"} => msg \in inbox[q]
  BY <1>1 DEF VoteStep
<1>5. VoteIdsArePast'
  <2>1. \A b \in ballots : b.vote_id[2] \in Nat
    BY DEF BallotsInv, TypeOK, Ballot
  <2>2. \A q \in Peer : \A msg \in inbox[q] :
          msg.type = "VoteProposal" => msg.proposal.created_at \in Nat
    BY DEF BallotsInv, TypeOK, Message, Ballot, VoteProposal
  <2>3. \A q \in Peer : music[q].active_vote # NoVote =>
          music[q].active_vote.proposal.created_at \in Nat
    BY HeldVote DEF BallotsInv, VoteProposal
  <2>4. QED
    BY <1>1, <1>2, <1>3, <1>4, <2>1, <2>2, <2>3 DEF BallotsInv, VoteIdsArePast
<1>6. MessagesWereCast'
  BY <1>2, <1>4 DEF BallotsInv, MessagesWereCast
<1>7. OwnBallotIsCounted'
  BY <1>2, <1>3 DEF BallotsInv, OwnBallotIsCounted
<1>8. ProposalsComeFirst'
  BY <1>2, <1>3, <1>4 DEF BallotsInv, ProposalsComeFirst
<1>9. OneBallotPerVote'
  BY <1>2 DEF BallotsInv, OneBallotPerVote
<1>10. QED
  BY <1>5, <1>6, <1>7, <1>8, <1>9 DEF BallotsInv

(* Opening a vote keeps the invariant: its id is new, its first ballot is its
   proposer's. *)
LEMMA OpensKeeps ==
  ASSUME BallotsInv, TypeOK', CountedBallotsWereCast',
         NEW p \in Peer, NEW proposal \in VoteProposal,
         Opens(p, proposal)
  PROVE  BallotsInv'
<1> DEFINE id == VoteId(proposal)
           ballot == Approval(p, id)
           sent == {ProposalMessage(proposal), ballot}
<1>1. /\ proposal.proposer = p /\ proposal.created_at = clock
      /\ VoteStep(p, NewVote(proposal), {}, sent)
      /\ ballots' = ballots \cup {ballot}
      /\ clock' > clock /\ clock \in Nat /\ clock' \in Nat
  BY DEF Opens, Step, BallotsInv, TypeOK
<1>2. id = <<p, clock>>
  BY <1>1 DEF VoteId
<1>3. /\ NewVote(proposal).proposal = proposal
      /\ NewVote(proposal).approvals = {p} /\ NewVote(proposal).rejections = {}
  BY <1>1 DEF NewVote
<1>4. /\ ballot.type = "VoteBallot" /\ ballot.vote_id = id
      /\ ballot.peer = p /\ ballot.approve = TRUE
  BY DEF Approval
<1>5. ProposalMessage(proposal).type = "VoteProposal"
      /\ ProposalMessage(proposal).proposal = proposal
  BY DEF ProposalMessage
<1>6. /\ music'[p].active_vote \in {NewVote(proposal), NoVote}
      /\ \A q \in Peer \ {p} : music'[q].active_vote = music[q].active_vote
      /\ inbox'[p] = inbox[p]
      /\ \A q \in Peer \ {p} : \A msg \in inbox'[q] :
           msg.type \in {"VoteProposal", "VoteBallot"} =>
             msg \in inbox[q] \/ msg = ProposalMessage(proposal) \/ msg = ballot
  BY <1>1 DEF VoteStep
\* Nothing of before has the new id.
<1>7. \A b \in ballots : b.vote_id[2] \in Nat /\ b.vote_id[2] < clock /\ b.vote_id # id
  BY <1>2 DEF BallotsInv, TypeOK, Ballot, VoteIdsArePast
<1>8. \A q \in Peer : \A msg \in inbox[q] : msg.type = "VoteProposal" =>
        /\ msg.proposal.created_at \in Nat /\ msg.proposal.created_at < clock
        /\ VoteId(msg.proposal) # id
  <2>1. \A q \in Peer : \A msg \in inbox[q] :
          msg.type = "VoteProposal" => msg.proposal.created_at \in Nat
    BY DEF BallotsInv, TypeOK, Message, Ballot, VoteProposal
  <2>2. QED
    BY <1>2, <2>1 DEF BallotsInv, VoteIdsArePast, VoteId
<1>9. \A q \in Peer : music[q].active_vote # NoVote =>
        /\ music[q].active_vote.proposal.created_at \in Nat
        /\ music[q].active_vote.proposal.created_at < clock
        /\ VoteId(music[q].active_vote.proposal) # id
  <2>1. \A q \in Peer : music[q].active_vote # NoVote =>
          music[q].active_vote.proposal.created_at \in Nat
    BY HeldVote DEF BallotsInv, VoteProposal
  <2>2. QED
    BY <1>2, <2>1 DEF BallotsInv, VoteIdsArePast, VoteId
<1> HIDE DEF ballot, id, sent
<1>10. VoteIdsArePast'
  <2>1. \A b \in ballots' : b.vote_id[2] < clock'
    BY <1>1, <1>2, <1>4, <1>7
  <2>2. \A q \in Peer : music'[q].active_vote # NoVote =>
          music'[q].active_vote.proposal.created_at < clock'
    BY <1>1, <1>3, <1>6, <1>9
  <2>3. \A q \in Peer : \A msg \in inbox'[q] :
          msg.type = "VoteProposal" => msg.proposal.created_at < clock'
    BY <1>1, <1>4, <1>5, <1>6, <1>8
  <2>4. QED
    BY <2>1, <2>2, <2>3 DEF VoteIdsArePast
<1>11. MessagesWereCast'
  <2>1. Approval(proposal.proposer, VoteId(proposal)) = ballot
    BY <1>1 DEF ballot, id
  <2>2. QED
    BY <1>1, <1>4, <1>5, <1>6, <2>1 DEF BallotsInv, MessagesWereCast
<1>12. OwnBallotIsCounted'
  BY <1>1, <1>3, <1>4, <1>6, <1>9 DEF BallotsInv, OwnBallotIsCounted, HasVoted
<1>13. ProposalsComeFirst'
  <2>1. \A q \in Peer : \A msg \in inbox'[q] : msg.type = "VoteProposal" =>
          \/ msg \in inbox[q]
          \/ q # p /\ msg = ProposalMessage(proposal)
    BY <1>4, <1>6
  <2>2. VoteId(ProposalMessage(proposal).proposal) = id
    BY <1>5 DEF id
  <2>3. \A q \in Peer : \A msg \in inbox'[q] : msg.type = "VoteProposal" =>
          \A b \in ballots' : b.peer = q => b.vote_id # VoteId(msg.proposal)
    BY <1>1, <1>4, <1>7, <1>8, <2>1, <2>2 DEF BallotsInv, ProposalsComeFirst
  <2>4. \A q \in Peer : \A msg \in inbox'[q] : msg.type = "VoteProposal" =>
          (music'[q].active_vote # NoVote =>
            VoteId(music'[q].active_vote.proposal) # VoteId(msg.proposal))
    <3>1. VoteId(NewVote(proposal).proposal) = id
      BY <1>3 DEF id
    <3>2. QED
      BY <1>6, <1>8, <1>9, <2>1, <2>2, <3>1 DEF BallotsInv, ProposalsComeFirst
  <2>5. \A q \in Peer : \A msg, other \in inbox'[q] :
          /\ msg.type = "VoteProposal" /\ other.type = "VoteProposal"
          /\ VoteId(other.proposal) = VoteId(msg.proposal)
          => other = msg
    BY <1>8, <2>1, <2>2 DEF BallotsInv, ProposalsComeFirst
  <2>6. QED
    BY <2>3, <2>4, <2>5 DEF ProposalsComeFirst
<1>14. OneBallotPerVote'
  BY <1>1, <1>4, <1>7 DEF BallotsInv, OneBallotPerVote
<1>15. QED
  BY <1>10, <1>11, <1>12, <1>13, <1>14 DEF BallotsInv

(* The times of the vote ids in use are numbers. *)
LEMMA TimesAreNumbers ==
  ASSUME TypeOK
  PROVE  /\ clock \in Nat
         /\ \A b \in ballots : b.vote_id[2] \in Nat
         /\ \A p \in Peer : music[p].active_vote # NoVote =>
              /\ music[p].active_vote.proposal.created_at \in Nat
              /\ VoteId(music[p].active_vote.proposal)[2]
                   = music[p].active_vote.proposal.created_at
         /\ \A p \in Peer : \A msg \in inbox[p] : msg.type = "VoteProposal" =>
              msg.proposal \in VoteProposal /\ msg.proposal.created_at \in Nat
<1>1. clock \in Nat /\ \A b \in ballots : b.vote_id[2] \in Nat
  BY DEF TypeOK, Ballot
<1>2. \A p \in Peer : music[p].active_vote # NoVote =>
        /\ music[p].active_vote.proposal.created_at \in Nat
        /\ VoteId(music[p].active_vote.proposal)[2]
             = music[p].active_vote.proposal.created_at
  BY HeldVote DEF VoteProposal
<1>3. \A p \in Peer : \A msg \in inbox[p] : msg.type = "VoteProposal" =>
        msg.proposal \in VoteProposal /\ msg.proposal.created_at \in Nat
  BY DEF TypeOK, Message, Ballot, VoteProposal
<1>4. QED
  BY <1>1, <1>2, <1>3

(* The local user's vote keeps the invariant: it is the first ballot of the peer
   on the vote it holds, and no proposal of that vote is under way to it. *)
LEMMA VotesKeeps ==
  ASSUME BallotsInv, TypeOK', CountedBallotsWereCast',
         NEW p \in Peer, NEW ballot \in Ballot,
         Votes(p, ballot)
  PROVE  BallotsInv'
<1> DEFINE vote == music[p].active_vote
           cast == CastBallot(vote, p, ballot.approve)
<1> PICK id : id = VoteId(vote.proposal)
  OBVIOUS
<1>1. /\ vote # NoVote /\ ~HasVoted(vote, p)
      /\ ballot.type = "VoteBallot" /\ ballot.peer = p /\ ballot.vote_id = id
      /\ VoteStep(p, cast, {}, {ballot}) /\ clock' >= clock
      /\ ballots' = ballots \cup {ballot}
  BY DEF Votes, Step
<1>2. vote \in ActiveVote /\ clock \in Nat /\ clock' \in Nat
  BY <1>1, HeldVote DEF BallotsInv, TypeOK
<1>3. /\ cast.proposal = vote.proposal
      /\ HasVoted(cast, p)
  BY <1>2, CastBallotCounts DEF Ballot
<1>4. /\ music'[p].active_vote \in {cast, NoVote}
      /\ \A q \in Peer \ {p} : music'[q].active_vote = music[q].active_vote
      /\ inbox'[p] = inbox[p]
      /\ \A q \in Peer : \A msg \in inbox'[q] :
           msg.type \in {"VoteProposal", "VoteBallot"} =>
             msg \in inbox[q] \/ (q # p /\ msg = ballot)
  BY <1>1 DEF VoteStep
<1>5. \A q \in Peer : \A msg \in inbox'[q] :
        msg.type = "VoteProposal" => msg \in inbox[q]
  BY <1>1, <1>4
<1> HIDE DEF cast
<1>6. VoteIdsArePast'
  <2>1. id[2] < clock
    BY <1>1, TimesAreNumbers DEF BallotsInv, VoteIdsArePast
  <2>2. QED
    BY <1>1, <1>2, <1>3, <1>4, <1>5, <2>1, TimesAreNumbers DEF BallotsInv, VoteIdsArePast
<1>7. MessagesWereCast'
  BY <1>1, <1>4, <1>5 DEF BallotsInv, MessagesWereCast
<1>8. OwnBallotIsCounted'
  BY <1>1, <1>3, <1>4 DEF BallotsInv, OwnBallotIsCounted
<1>9. ProposalsComeFirst'
  BY <1>1, <1>3, <1>4, <1>5 DEF BallotsInv, ProposalsComeFirst
<1>10. OneBallotPerVote'
  <2>1. \A b \in ballots : b.peer = p => b.vote_id # id
    BY <1>1 DEF BallotsInv, OwnBallotIsCounted
  <2>2. QED
    BY <1>1, <2>1 DEF BallotsInv, OneBallotPerVote
<1>11. QED
  BY <1>6, <1>7, <1>8, <1>9, <1>10 DEF BallotsInv

(* Opening the vote of a received proposal keeps the invariant: the receiver has
   no ballot on it yet, and what it counts, the proposer's approval, was cast. *)
LEMMA LearnsKeeps ==
  ASSUME BallotsInv, TypeOK', CountedBallotsWereCast',
         NEW p \in Peer, NEW msg \in Message,
         LearnsOf(p, msg)
  PROVE  BallotsInv'
<1>1. /\ msg \in inbox[p] /\ msg.type = "VoteProposal"
      /\ VoteStep(p, NewVote(msg.proposal), {msg}, {}) /\ clock' >= clock
      /\ ballots' = ballots
  BY DEF LearnsOf, Step
<1>2. clock \in Nat /\ clock' \in Nat
  BY DEF BallotsInv, TypeOK
<1>3. /\ NewVote(msg.proposal).proposal = msg.proposal
      /\ NewVote(msg.proposal).approvals = {msg.proposal.proposer}
      /\ NewVote(msg.proposal).rejections = {}
  BY DEF NewVote
<1>4. /\ music'[p].active_vote \in {NewVote(msg.proposal), NoVote}
      /\ \A q \in Peer \ {p} : music'[q].active_vote = music[q].active_vote
      /\ inbox'[p] = inbox[p] \ {msg}
      /\ \A q \in Peer : \A other \in inbox'[q] :
           other.type \in {"VoteProposal", "VoteBallot"} => other \in inbox[q]
  BY <1>1 DEF VoteStep
<1>5. VoteIdsArePast'
  BY <1>1, <1>2, <1>3, <1>4, TimesAreNumbers DEF BallotsInv, VoteIdsArePast
<1>6. MessagesWereCast'
  BY <1>1, <1>4 DEF BallotsInv, MessagesWereCast
<1>7. OwnBallotIsCounted'
  BY <1>1, <1>3, <1>4 DEF BallotsInv, OwnBallotIsCounted, ProposalsComeFirst
<1>8. ProposalsComeFirst'
  BY <1>1, <1>3, <1>4 DEF BallotsInv, ProposalsComeFirst
<1>9. OneBallotPerVote'
  BY <1>1 DEF BallotsInv, OneBallotPerVote
<1>10. QED
  BY <1>5, <1>6, <1>7, <1>8, <1>9 DEF BallotsInv

(* Counting a received ballot keeps the invariant: it was cast. *)
LEMMA CountsKeeps ==
  ASSUME BallotsInv, TypeOK', CountedBallotsWereCast',
         NEW p \in Peer, NEW ballot \in Ballot,
         Counts(p, ballot)
  PROVE  BallotsInv'
<1> DEFINE vote == music[p].active_vote
           cast == CastBallot(vote, ballot.peer, ballot.approve)
<1>1. /\ ballot \in inbox[p] /\ ballot.type = "VoteBallot"
      /\ vote # NoVote /\ ballot.vote_id = VoteId(vote.proposal)
      /\ VoteStep(p, cast, {ballot}, {}) /\ clock' >= clock
      /\ ballots' = ballots
  BY DEF Counts, Step
<1>2. vote \in ActiveVote /\ clock \in Nat /\ clock' \in Nat
  BY <1>1, HeldVote DEF BallotsInv, TypeOK
<1>3. /\ cast.proposal = vote.proposal
      /\ HasVoted(vote, p) => HasVoted(cast, p)
  BY <1>2, CastBallotCounts DEF Ballot
<1>4. /\ music'[p].active_vote \in {cast, NoVote}
      /\ \A q \in Peer \ {p} : music'[q].active_vote = music[q].active_vote
      /\ \A q \in Peer : \A msg \in inbox'[q] :
           msg.type \in {"VoteProposal", "VoteBallot"} => msg \in inbox[q]
  BY <1>1 DEF VoteStep
<1> HIDE DEF cast
<1>5. VoteIdsArePast'
  BY <1>1, <1>2, <1>3, <1>4, TimesAreNumbers DEF BallotsInv, VoteIdsArePast
<1>6. MessagesWereCast'
  BY <1>1, <1>4 DEF BallotsInv, MessagesWereCast
<1>7. OwnBallotIsCounted'
  BY <1>1, <1>3, <1>4 DEF BallotsInv, OwnBallotIsCounted
<1>8. ProposalsComeFirst'
  BY <1>1, <1>3, <1>4 DEF BallotsInv, ProposalsComeFirst
<1>9. OneBallotPerVote'
  BY <1>1 DEF BallotsInv, OneBallotPerVote
<1>10. QED
  BY <1>5, <1>6, <1>7, <1>8, <1>9 DEF BallotsInv
-----------------------------------------------------------------------------
(* Every step keeps the invariant. *)
LEMMA BallotsStep == BallotsInv /\ [Next]_vars => BallotsInv'
<1>1. ASSUME BallotsInv, Next PROVE BallotsInv'
  <2>1. TypeOK' /\ \E p \in Peer : VotesMove(p)
    BY <1>1, NextMovesVotes DEF BallotsInv
  <2>2. PICK p \in Peer : VotesMove(p)
    BY <2>1
  <2>3. CountedBallotsWereCast'
    BY <1>1, <2>2, CountedKept
  <2>4. QED
    BY <1>1, <2>1, <2>2, <2>3, QuietKeeps, OpensKeeps, VotesKeeps, CountsKeeps,
       LearnsKeeps DEF VotesMove
<1>2. ASSUME BallotsInv, UNCHANGED vars PROVE BallotsInv'
  BY <1>2 DEF vars, BallotsInv, TypeOK, VoteIdsArePast, MessagesWereCast,
     OwnBallotIsCounted, ProposalsComeFirst, CountedBallotsWereCast,
     OneBallotPerVote, Yes, No
<1>3. QED
  BY <1>1, <1>2

(* The room starts in the invariant. *)
LEMMA BallotsInit == Init => BallotsInv
<1>1. Init => TypeOK
  BY InitType
<1>2. Init => \A p \in Peer : music[p].active_vote = NoVote
  BY DEF Init, InitMusic
<1>3. QED
  BY <1>1, <1>2 DEF Init, BallotsInv, VoteIdsArePast, MessagesWereCast,
     OwnBallotIsCounted, ProposalsComeFirst, CountedBallotsWereCast, OneBallotPerVote

(* Whatever gossip delays, reorders or loses, whichever votes time out and
   whoever is connected, a peer counts a ballot only for the vote, side and
   peer it was cast on, for and by (receive_vote_proposal, cast_vote_for). *)
THEOREM BallotsAreCounted == Spec => []CountedBallotsWereCast
<1>1. BallotsInv => CountedBallotsWereCast
  BY DEF BallotsInv
<1>2. QED
  BY <1>1, BallotsInit, BallotsStep, PTL DEF Spec

(* No peer ever casts two opposite ballots on a vote, also when its vote was
   closed or timed out in between: the vote cannot reopen (cast_vote,
   receive_vote_proposal, gossip's duplicate filter). *)
THEOREM BallotsAreUnique == Spec => []OneBallotPerVote
<1>1. BallotsInv => OneBallotPerVote
  BY DEF BallotsInv
<1>2. QED
  BY <1>1, BallotsInit, BallotsStep, PTL DEF Spec
-----------------------------------------------------------------------------
(* The approvals and rejections cast on a vote are sets of peers without a
   common member. *)
LEMMA CastSides ==
  ASSUME TypeOK, OneBallotPerVote, NEW id
  PROVE  /\ Yes(id) \in SUBSET Peer /\ No(id) \in SUBSET Peer
         /\ Yes(id) \cap No(id) = {}
<1>1. \A b \in ballots : b.peer \in Peer /\ b.approve \in BOOLEAN
  BY DEF TypeOK, Ballot
<1>2. QED
  BY <1>1 DEF OneBallotPerVote, Yes, No

(* More peers are more. *)
LEMMA MorePeers ==
  ASSUME NEW larger \in SUBSET Peer, NEW smaller \in SUBSET larger
  PROVE  /\ Cardinality(smaller) \in Nat /\ Cardinality(larger) \in Nat
         /\ Cardinality(smaller) <= Cardinality(larger)
  BY PeerAssumption, FS_Subset, FS_CardinalityType

\* The ballots cast on a vote are enough for its outcome, all peers counted.
Warranted(outcome, id) ==
  /\ outcome = "Passed" =>
       Cardinality(Yes(id)) >= MajorityThreshold(Cardinality(Peer))
  /\ outcome = "Rejected" =>
       Cardinality(No(id)) + MajorityThreshold(Cardinality(Peer)) > Cardinality(Peer)

(* An outcome stays warranted when more ballots are cast. *)
LEMMA WarrantedStays ==
  ASSUME TypeOK, OneBallotPerVote, TypeOK', OneBallotPerVote',
         ballots \subseteq ballots', NEW outcome, NEW id, Warranted(outcome, id)
  PROVE  Warranted(outcome, id)'
<1>1. /\ Yes(id) \subseteq Yes(id)' /\ Yes(id)' \in SUBSET Peer
      /\ No(id) \subseteq No(id)' /\ No(id)' \in SUBSET Peer
  <2>1. Yes(id) \subseteq Yes(id)' /\ No(id) \subseteq No(id)'
    BY DEF Yes, No
  <2>2. \A b \in ballots' : b.peer \in Peer
    BY DEF TypeOK, Ballot
  <2>3. QED
    BY <2>1, <2>2 DEF Yes, No
<1>2. /\ Cardinality(Yes(id)) \in Nat /\ Cardinality(Yes(id)') \in Nat
      /\ Cardinality(No(id)) \in Nat /\ Cardinality(No(id)') \in Nat
      /\ Cardinality(Yes(id)) <= Cardinality(Yes(id)')
      /\ Cardinality(No(id)) <= Cardinality(No(id)')
  BY <1>1, MorePeers
<1>3. Cardinality(Peer) \in Nat /\ MajorityThreshold(Cardinality(Peer)) \in Nat
  BY PeerAssumption, FS_CardinalityType DEF MajorityThreshold
<1>4. QED
  BY <1>2, <1>3 DEF Warranted

(* An outcome counted from ballots cast up to and in a step, over all peers,
   is warranted after it (terminal_outcome). *)
LEMMA OutcomeIsWarranted ==
  ASSUME TypeOK', OneBallotPerVote', NEW v \in ActiveVote, CountsOnly(v, ballots'),
         NEW id, id = VoteId(v.proposal)
  PROVE  Warranted(TerminalOutcome(v, Cardinality(Peer)), id)'
<1>1. /\ Yes(id)' \in SUBSET Peer /\ No(id)' \in SUBSET Peer
      /\ Yes(id)' \cap No(id)' = {}
      /\ v.approvals \subseteq Yes(id)' /\ v.rejections \subseteq No(id)'
  <2>1. \A b \in ballots' : b.peer \in Peer /\ b.approve \in BOOLEAN
    BY DEF TypeOK, Ballot
  <2>2. Yes(id)' \in SUBSET Peer /\ No(id)' \in SUBSET Peer
    BY <2>1 DEF Yes, No
  <2>3. Yes(id)' \cap No(id)' = {}
    BY <2>1 DEF OneBallotPerVote, Yes, No
  <2>4. v.approvals \subseteq Yes(id)' /\ v.rejections \subseteq No(id)'
    BY DEF CountsOnly, Yes, No
  <2>5. QED
    BY <2>2, <2>3, <2>4
<1>2. v.approvals \cap v.rejections = {}
  BY <1>1
<1>3. /\ TerminalOutcome(v, Cardinality(Peer)) = "Passed"
           => Cardinality(v.approvals) >= MajorityThreshold(Cardinality(Peer))
      /\ TerminalOutcome(v, Cardinality(Peer)) = "Rejected"
           => Cardinality(v.rejections) + MajorityThreshold(Cardinality(Peer))
                > Cardinality(Peer)
  BY <1>2, OutcomeCounts
<1>4. /\ Cardinality(v.approvals) \in Nat /\ Cardinality(v.rejections) \in Nat
      /\ Cardinality(Yes(id)') \in Nat /\ Cardinality(No(id)') \in Nat
      /\ Cardinality(v.approvals) <= Cardinality(Yes(id)')
      /\ Cardinality(v.rejections) <= Cardinality(No(id)')
  BY <1>1, MorePeers
<1>5. Cardinality(Peer) \in Nat /\ MajorityThreshold(Cardinality(Peer)) \in Nat
  BY PeerAssumption, FS_CardinalityType DEF MajorityThreshold
<1>6. QED
  BY <1>3, <1>4, <1>5 DEF Warranted

\* As long as nobody connected or disconnected, the peers count each other and
\* the decisions taken are warranted.
DecisionsInv ==
  churn = 0 =>
    /\ connected = [p \in Peer |-> Links[p]]
    /\ \A d \in decided : Warranted(d.outcome, d.vote_id)

(* In a fully connected room every step keeps the decisions warranted. *)
LEMMA DecisionsStep ==
  ASSUME FullyConnected, BallotsInv, BallotsInv', DecisionsInv, [Next]_vars
  PROVE  DecisionsInv'
<1>1. CASE UNCHANGED vars
  BY <1>1 DEF vars, DecisionsInv, Warranted, Yes, No
<1>2. CASE Next
  <2>1. PICK p \in Peer : VotesMove(p)
    BY <1>2, NextMovesVotes DEF BallotsInv
  <2>2. PICK v, received, sent :
           /\ Step(p, v, received, sent)
           /\ ballots \subseteq ballots'
           /\ v # NoVote => CountsOnly(v, ballots')
    BY <2>1, HeldCountsCast
  <2> SUFFICES ASSUME churn' = 0
               PROVE  /\ connected' = [q \in Peer |-> Links[q]]
                      /\ \A d \in decided' : Warranted(d.outcome, d.vote_id)'
    BY DEF DecisionsInv
  <2>3. churn = 0 /\ connected' = connected /\ connected = [q \in Peer |-> Links[q]]
    BY <2>2 DEF Step, DecisionsInv
  <2>4. RoomPeerCount(p) = Cardinality(Peer)
    <3>1. connected[p] \cup {p} = Peer
      BY <2>3 DEF FullyConnected
    <3>2. QED
      BY <3>1 DEF RoomPeerCount
  <2>5. ASSUME NEW d \in decided PROVE Warranted(d.outcome, d.vote_id)'
    <3> PICK outcome, id : outcome = d.outcome /\ id = d.vote_id
      OBVIOUS
    <3>1. Warranted(outcome, id)
      BY <2>3 DEF DecisionsInv
    <3>2. Warranted(outcome, id)'
      BY <2>2, <3>1, WarrantedStays DEF BallotsInv
    <3>3. QED
      BY <3>2
  <2>6. ASSUME NEW d \in decided' \ decided PROVE Warranted(d.outcome, d.vote_id)'
    <3>1. /\ v \in ActiveVote /\ d.vote_id = VoteId(v.proposal)
          /\ d.outcome = TerminalOutcome(v, Cardinality(Peer))
      BY <2>2, <2>4 DEF Step
    <3>2. CountsOnly(v, ballots')
      BY <2>2, <3>1, NoVoteAssumption
    <3> PICK outcome, id : outcome = d.outcome /\ id = d.vote_id
      OBVIOUS
    <3>3. Warranted(outcome, id)'
      BY <3>1, <3>2, OutcomeIsWarranted DEF BallotsInv
    <3>4. QED
      BY <3>3
  <2>7. QED
    BY <2>3, <2>5, <2>6
<1>3. QED
  BY <1>1, <1>2

(* Warranted decisions on one vote are the same decision. *)
LEMMA WarrantedAgree ==
  ASSUME BallotsInv, DecisionsInv
  PROVE  VoteAgreement
<1> SUFFICES ASSUME churn = 0, NEW d \in decided, NEW e \in decided,
                    d.vote_id = e.vote_id, d.outcome = "Passed", e.outcome = "Rejected"
             PROVE  FALSE
  BY DEF VoteAgreement, VoteOutcomeIsShared, BallotsInv, TypeOK, Decision
<1> DEFINE id == d.vote_id
<1>1. /\ Cardinality(Yes(id)) >= MajorityThreshold(Cardinality(Peer))
      /\ Cardinality(No(id)) + MajorityThreshold(Cardinality(Peer)) > Cardinality(Peer)
  BY DEF DecisionsInv, Warranted
<1>2. /\ Yes(id) \in SUBSET Peer /\ No(id) \in SUBSET Peer
      /\ Yes(id) \cap No(id) = {}
  BY CastSides DEF BallotsInv
<1>3. QED
  BY <1>1, <1>2, PassedMeetsRejected

(* In a room of any size in which everybody is connected to everybody and
   stays so, no vote passes at one peer and is rejected at another, however
   its ballots are lost, delayed and reordered and whoever's vote times out
   (terminal_outcome, resolve_vote, room_peer_count). *)
THEOREM VotesAgree ==
  ASSUME FullyConnected
  PROVE  Spec => []VoteAgreement
<1>1. Init => DecisionsInv
  BY DEF Init, DecisionsInv
<1>2. BallotsInv /\ BallotsInv' /\ DecisionsInv /\ [Next]_vars => DecisionsInv'
  BY DecisionsStep
<1>3. BallotsInv /\ DecisionsInv => VoteAgreement
  BY WarrantedAgree
<1>4. QED
  BY <1>1, <1>2, <1>3, BallotsInit, BallotsStep, PTL DEF Spec
-----------------------------------------------------------------------------
(* The copies of the queue: those the peers have and those under way. *)

Copy == [p \in Peer |-> BuildQueueState(music[p])]
UnderWay == {msg.state : msg \in UNION {QueueMessagesAt(p) : p \in Peer}}
Copies == {Copy[p] : p \in Peer} \cup UnderWay

NobodyVotes ==
  /\ ballots = {}
  /\ \A p \in Peer :
       /\ music[p].active_vote = NoVote
       /\ \A msg \in inbox[p] : msg.type # "VoteProposal"

AllArePast == \A c \in Copies : c.updated_at < clock

StampsTell ==
  \A c, d \in Copies : c.version = d.version /\ c.updated_at = d.updated_at => c = d

\* What a step of p may do to the copies.
Exchanges(p) ==
  /\ Copy' = Copy
  /\ UnderWay' \subseteq UnderWay \cup {Copy[p]}
  /\ clock' = clock

Adopts(p) ==
  /\ \E s \in UnderWay : Shared!Newer(s, Copy[p]) /\ Copy' = [Copy EXCEPT ![p] = s]
  /\ UnderWay' \subseteq UnderWay
  /\ clock' = clock

ChangesCopy(p) ==
  \E c \in QueueState :
    /\ c.updated_at = clock
    /\ c.version = Copy[p].version + 1
    /\ Copy' = [Copy EXCEPT ![p] = c]
    /\ UnderWay' \subseteq UnderWay \cup {c}
    /\ clock' = clock + 1

(* Every copy there is is a queue state. *)
LEMMA CopiesType ==
  ASSUME TypeOK
  PROVE  /\ \A p \in Peer : Copy[p] \in QueueState
         /\ UnderWay \subseteq QueueState
<1>1. \A p \in Peer : music[p] \in Music
  BY DEF TypeOK
<1>2. \A p \in Peer : BuildQueueState(music[p]) \in QueueState
  BY <1>1 DEF BuildQueueState, QueueState, Music
<1>3. ASSUME NEW p \in Peer, NEW msg \in QueueMessagesAt(p)
      PROVE  msg.state \in QueueState
  <2>1. msg \in Message /\ msg.type \in {"QueueState", "QueueResponse"}
    BY DEF QueueMessagesAt, TypeOK
  <2>2. QED
    BY <2>1 DEF Message, Ballot
<1>4. QED
  BY <1>2, <1>3 DEF Copy, UnderWay

(* A handler of p that publishes changes p's copy only, and sets nothing under
   way but what it sends. *)
LEMMA PublishMovesCopies ==
  ASSUME TypeOK, NEW p \in Peer, NEW m \in Music,
         NEW received, NEW sent, NEW asked \in SUBSET Peer,
         Publish(p, m, received, sent, asked)
  PROVE  /\ Copy' = [Copy EXCEPT ![p] = BuildQueueState(m)]
         /\ UnderWay' \subseteq
              UnderWay \cup {msg.state : msg \in {n \in sent :
                                n.type \in {"QueueState", "QueueResponse"}}}
<1>1. music' = [music EXCEPT ![p] = m] /\ music \in [Peer -> Music]
  BY DEF Publish, TypeOK
<1>2. Copy' = [q \in Peer |-> BuildQueueState(music'[q])]
  BY DEF Copy, BuildQueueState
<1>3. \A q \in Peer : music'[q] = IF q = p THEN m ELSE music[q]
  BY <1>1
<1>4. Copy' = [Copy EXCEPT ![p] = BuildQueueState(m)]
  BY <1>2, <1>3 DEF Copy
<1>5. ASSUME NEW q \in Peer, NEW msg \in QueueMessagesAt(q)'
      PROVE  \/ msg \in QueueMessagesAt(q)
             \/ msg \in sent /\ msg.type \in {"QueueState", "QueueResponse"}
  <2>1. msg \in inbox'[q] /\ msg.type \in {"QueueState", "QueueResponse"}
    BY DEF QueueMessagesAt
  <2>2. \/ msg \in inbox[q]
        \/ msg \in sent
        \/ \E r \in asked : msg = QueueRequest(p, m, r)
    BY <2>1 DEF Publish, Gossip
  <2>3. \A r \in asked : QueueRequest(p, m, r).type = "QueueRequest"
    BY DEF QueueRequest
  <2>4. QED
    BY <2>1, <2>2, <2>3 DEF QueueMessagesAt
<1>6. QED
  BY <1>4, <1>5 DEF UnderWay

(* Without a vote open, resolve_active_vote does nothing. *)
LEMMA ResolveWithoutVote ==
  ASSUME NEW p \in Peer, NEW m \in Music, m.active_vote = NoVote,
         NEW received, NEW sent, ResolveVote(p, m, received, sent)
  PROVE  Publish(p, m, received, sent, {})
<1> DEFINE n == RoomPeerCount(p)
<1>1. Resolution(m, n) = "None" /\ ~ReadyVoteWaitingForQueue(m, n)
  BY DEF Resolution, ReadyVoteWaitingForQueue
<1>2. ResolveActiveVote(m, n) = m /\ ~ExecutesVote(m, n)
  BY <1>1 DEF ResolveActiveVote, ExecutesVote
<1>3. sent \cup {} = sent
  OBVIOUS
<1>4. QED
  BY <1>1, <1>2, <1>3 DEF ResolveVote

(* Enqueueing and removing one's own item make a copy that is the latest. *)
LEMMA CommandsChange ==
  ASSUME TypeOK, NEW p \in Peer,
         EnqueueBilibili(p) \/ \E i \in DOMAIN music[p].queue : RemoveQueueItem(p, i)
  PROVE  ChangesCopy(p)
<1>0. music[p] \in Music /\ music[p].queue \in Seq(Item) /\ clock \in Nat
  BY DEF TypeOK, Music
<1>1. PICK queue \in Seq(Item) :
         LET m == MarkQueueChanged([music[p] EXCEPT !.queue = queue], clock)
         IN  Publish(p, m, {}, {QueueStateMessage(m)}, {}) /\ clock' = clock + 1
  <2>1. CASE EnqueueBilibili(p)
    <3>1. [requested_by |-> p, added_at |-> clock] \in Item
      BY <1>0 DEF Item
    <3>2. Append(music[p].queue, [requested_by |-> p, added_at |-> clock]) \in Seq(Item)
      BY <1>0, <3>1, AppendProperties
    <3>3. QED
      BY <2>1, <3>2 DEF EnqueueBilibili
  <2>2. CASE \E i \in DOMAIN music[p].queue : RemoveQueueItem(p, i)
    <3>1. PICK i \in DOMAIN music[p].queue : RemoveQueueItem(p, i)
      BY <2>2
    <3>2. WithoutIndex(music[p].queue, i) \in Seq(Item)
      BY <1>0, WithoutIndexType
    <3>3. QED
      BY <3>1, <3>2 DEF RemoveQueueItem
  <2>3. QED
    BY <2>1, <2>2
<1> DEFINE edited == [music[p] EXCEPT !.queue = queue]
           m == MarkQueueChanged(edited, clock)
<1>2. edited \in Music /\ edited.queue_version = music[p].queue_version
  BY <1>0 DEF Music
<1> HIDE DEF edited
<1>3. m \in Music
  BY <1>0, <1>2, MarkQueueChangedType
<1>4. m.queue_version = music[p].queue_version + 1 /\ m.queue_updated_at = clock
  BY <1>0, <1>2 DEF MarkQueueChanged, Music
<1>5. Publish(p, m, {}, {QueueStateMessage(m)}, {}) /\ clock' = clock + 1
  BY <1>1 DEF edited
<1> HIDE DEF m
<1> DEFINE c == BuildQueueState(m)
<1>6. c \in QueueState /\ c.updated_at = clock /\ c.version = Copy[p].version + 1
  BY <1>0, <1>3, <1>4 DEF BuildQueueState, QueueState, Music, Copy
<1>7. QueueStateMessage(m).state = c
  BY DEF QueueStateMessage
<1>8. Copy' = [Copy EXCEPT ![p] = c] /\ UnderWay' \subseteq UnderWay \cup {c}
  BY <1>3, <1>5, <1>7, PublishMovesCopies
<1> HIDE DEF c
<1>9. QED
  BY <1>5, <1>6, <1>8 DEF ChangesCopy

(* Nothing else holds copies. *)
LEMMA CopiesStay ==
  ASSUME UNCHANGED <<music, inbox, clock>>
  PROVE  Copy' = Copy /\ UnderWay' = UnderWay /\ Copies' = Copies /\ clock' = clock
  BY DEF Copy, BuildQueueState, UnderWay, QueueMessagesAt, Copies

(* A handler that publishes and leaves its peer's queue as it is, and sends
   no queue but that one. *)
LEMMA PublishExchanges ==
  ASSUME TypeOK, NEW p \in Peer, NEW received, NEW sent, NEW asked \in SUBSET Peer,
         Publish(p, music[p], received, sent, asked), clock' = clock,
         \A msg \in sent : msg.type \in {"QueueState", "QueueResponse"} =>
                             msg.state = BuildQueueState(music[p])
  PROVE  Exchanges(p)
<1>1. music[p] \in Music
  BY DEF TypeOK
<1>2. Copy' = [Copy EXCEPT ![p] = BuildQueueState(music[p])]
      /\ UnderWay' \subseteq
           UnderWay \cup {msg.state : msg \in {n \in sent :
                             n.type \in {"QueueState", "QueueResponse"}}}
  BY <1>1, PublishMovesCopies
<1>3. Copy[p] = BuildQueueState(music[p])
  BY DEF Copy
<1>4. Copy' = Copy
  BY <1>2, <1>3 DEF Copy
<1>5. QED
  BY <1>2, <1>3, <1>4 DEF Exchanges

(* Timers and connections exchange copies: a vote that could time out or be
   resolved there is none. *)
LEMMA TimersExchange ==
  ASSUME TypeOK, NobodyVotes, NEW p \in Peer, Timer(p) \/ Connection(p)
  PROVE  Exchanges(p)
<1>0. music[p] \in Music /\ music[p].active_vote = NoVote
  BY DEF TypeOK, NobodyVotes
<1>1. CASE PublishQueueSummary(p)
  BY <1>1, PublishExchanges DEF PublishQueueSummary
<1>2. CASE PublishQueueSnapshot(p)
  <2>1. QueueStateMessage(music[p]).state = BuildQueueState(music[p])
    BY DEF QueueStateMessage
  <2>2. QED
    BY <1>2, <2>1, PublishExchanges DEF PublishQueueSnapshot
<1>3. CASE VoteTimeout(p)
  BY <1>0, <1>3 DEF VoteTimeout
<1>4. CASE MusicLocalTick(p)
  <2>1. Publish(p, music[p], {}, {}, {}) /\ clock' = clock
    BY <1>0, <1>4, ResolveWithoutVote DEF MusicLocalTick
  <2>2. QED
    BY <2>1, PublishExchanges
<1>5. ASSUME UNCHANGED <<music, inbox, clock>> PROVE Exchanges(p)
  <2>1. Copy' = Copy
    BY <1>5 DEF Copy, BuildQueueState
  <2>2. UnderWay' = UnderWay
    BY <1>5 DEF UnderWay, QueueMessagesAt
  <2>3. QED
    BY <1>5, <2>1, <2>2 DEF Exchanges
<1>6. CASE (\E q \in Peer : RequestCooldownElapsed(p, q)) \/ Connection(p)
  BY <1>5, <1>6 DEF RequestCooldownElapsed, Connection, ConnectionEstablished,
                    ConnectionClosed
<1>7. QED
  BY <1>1, <1>2, <1>3, <1>4, <1>6 DEF Timer

(* A peer adopts a newer queue as it was sent, and ignores any other. *)
LEMMA ReceivingQueueAdopts ==
  ASSUME TypeOK, NobodyVotes, NEW p \in Peer, NEW msg \in inbox[p],
         ReceiveQueueState(p, msg)
  PROVE  Exchanges(p) \/ Adopts(p)
<1>0. /\ music[p] \in Music /\ music[p].active_vote = NoVote
      /\ msg \in QueueMessagesAt(p)
      /\ clock' = clock
  BY DEF TypeOK, NobodyVotes, ReceiveQueueState, QueueMessagesAt
<1>1. msg.state \in UnderWay
  BY <1>0 DEF UnderWay
<1>2. CASE AppliesQueueState(music[p], msg.state)
  <2> DEFINE s == msg.state
             m == ApplyRemoteQueueState(music[p], s)
  <2>1. s \in QueueState
    BY <1>1, CopiesType
  <2>2. m = [music[p] EXCEPT !.queue = s.items, !.queue_version = s.version,
                             !.queue_updated_at = s.updated_at]
    BY <1>0 DEF ApplyRemoteQueueState, InvalidateStaleQueueVote, Music
  <2>3. m \in Music /\ m.active_vote = NoVote
    BY <1>0, <2>1, ApplyType
  <2>4. BuildQueueState(m) = s
    BY <1>0, <2>1, <2>2 DEF BuildQueueState, QueueState, Music
  <2>5. Shared!Newer(s, Copy[p])
    BY <1>2 DEF AppliesQueueState, IsQueueStateNewer, Shared!Newer, Copy, BuildQueueState
  <2>6. ResolveVote(p, m, {msg}, {})
    BY <1>2 DEF ReceiveQueueState
  <2> HIDE DEF m, s
  <2>7. Publish(p, m, {msg}, {}, {})
    BY <2>3, <2>6, ResolveWithoutVote
  <2>8. Copy' = [Copy EXCEPT ![p] = s] /\ UnderWay' \subseteq UnderWay
    BY <2>3, <2>4, <2>7, PublishMovesCopies
  <2>9. s \in UnderWay
    BY <1>1 DEF s
  <2>10. QED
    BY <1>0, <2>5, <2>8, <2>9 DEF Adopts
<1>3. CASE ~AppliesQueueState(music[p], msg.state)
  <2>1. Publish(p, music[p], {msg}, {}, {})
    BY <1>3 DEF ReceiveQueueState
  <2>2. QED
    BY <1>0, <2>1, PublishExchanges
<1>4. QED
  BY <1>2, <1>3

(* Summaries and requests exchange copies; ballots count for nothing. *)
LEMMA OtherMessagesExchange ==
  ASSUME TypeOK, NobodyVotes, NEW p \in Peer, NEW msg \in inbox[p],
         \/ ReceiveVoteBallot(p, msg)
         \/ ReceiveQueueSummary(p, msg)
         \/ ReceiveQueueRequest(p, msg)
  PROVE  Exchanges(p)
<1>0. music[p] \in Music /\ music[p].active_vote = NoVote /\ msg \in Message
  BY DEF TypeOK, NobodyVotes
<1>1. CASE ReceiveVoteBallot(p, msg)
  <2>1. CastVoteFor(music[p], msg) = music[p]
    BY <1>0 DEF CastVoteFor
  <2>2. ResolveVote(p, music[p], {msg}, {}) /\ clock' = clock
    BY <1>1, <2>1 DEF ReceiveVoteBallot
  <2>3. Publish(p, music[p], {msg}, {}, {})
    BY <1>0, <2>2, ResolveWithoutVote
  <2>4. QED
    BY <2>2, <2>3, PublishExchanges
<1>2. CASE ReceiveQueueSummary(p, msg)
  <2>1. msg.peer \in Peer
    BY <1>0, <1>2 DEF ReceiveQueueSummary, Message, Ballot
  <2>2. PICK asked \in SUBSET Peer :
          Publish(p, music[p], {msg}, {}, asked) /\ clock' = clock
    BY <1>2, <2>1 DEF ReceiveQueueSummary, Asked
  <2>3. QED
    BY <2>2, PublishExchanges
<1>3. CASE ReceiveQueueRequest(p, msg)
  <2> DEFINE response == [type |-> "QueueResponse", target |-> msg.requester,
                          state |-> BuildQueueState(music[p])]
  <2>1. PICK sent \in SUBSET {response} :
          Publish(p, music[p], {msg}, sent, {}) /\ clock' = clock
    BY <1>3 DEF ReceiveQueueRequest
  <2>2. response.state = BuildQueueState(music[p])
    OBVIOUS
  <2> HIDE DEF response
  <2>3. QED
    BY <2>1, <2>2, PublishExchanges
<1>4. QED
  BY <1>1, <1>2, <1>3

(* A quiet step leaves no vote behind where there was none. *)
LEMMA QuietKeepsNobodyVotes ==
  ASSUME NobodyVotes, TypeOK, NEW p \in Peer, Quiet(p)
  PROVE  NobodyVotes'
<1>1. PICK received \in SUBSET Message : Step(p, music[p].active_vote, received, {})
  BY DEF Quiet
<1>2. VoteStep(p, music[p].active_vote, received, {}) /\ ballots' = ballots
  BY <1>1 DEF Step, Quiet
<1>3. ASSUME NEW q \in Peer
      PROVE  /\ music'[q].active_vote = NoVote
             /\ \A msg \in inbox'[q] : msg.type # "VoteProposal"
  <2>1. CASE q = p
    BY <1>2, <2>1 DEF VoteStep, NobodyVotes
  <2>2. CASE q # p
    BY <1>2, <2>2 DEF VoteStep, NobodyVotes
  <2>3. QED
    BY <2>1, <2>2
<1>4. QED
  BY <1>2, <1>3 DEF NobodyVotes

(* Where no vote may be opened, a step changes, adopts or exchanges copies. *)
LEMMA NextMovesCopies ==
  ASSUME TypeOK, NobodyVotes, MaxProposals = 0, Next
  PROVE  /\ NobodyVotes'
         /\ \E p \in Peer : ChangesCopy(p) \/ Adopts(p) \/ Exchanges(p)
<1>1. PICK p \in Peer : Command(p) \/ Receive(p) \/ Timer(p) \/ Connection(p)
  BY DEF Next
<1>2. ~(Proposals < MaxProposals)
  <2>1. {b.vote_id : b \in ballots} = {}
    BY DEF NobodyVotes
  <2>2. Proposals = 0
    BY <2>1, FS_EmptySet DEF Proposals
  <2>3. QED
    BY <2>2
<1>3. CASE Command(p)
  <2>1. \A i, to_index : ~ProposeRemove(p, i) /\ ~ProposeMove(p, i, to_index)
    BY <1>2 DEF ProposeRemove, ProposeMove, ProposeVote
  <2>2. \A approve : ~Vote(p, approve)
    BY DEF Vote, NobodyVotes
  <2>3. EnqueueBilibili(p) \/ \E i \in DOMAIN music[p].queue : RemoveQueueItem(p, i)
    BY <1>3, <2>1, <2>2 DEF Command
  <2>4. QED
    BY <2>3, CommandsChange, QueueChangesAreQuiet, QuietKeepsNobodyVotes
<1>4. CASE Receive(p)
  <2>1. PICK msg \in inbox[p] :
          \/ ReceiveVoteProposal(p, msg)
          \/ ReceiveVoteBallot(p, msg)
          \/ ReceiveQueueState(p, msg)
          \/ ReceiveQueueSummary(p, msg)
          \/ ReceiveQueueRequest(p, msg)
    BY <1>4 DEF Receive
  <2>2. ~ReceiveVoteProposal(p, msg)
    BY DEF ReceiveVoteProposal, NobodyVotes
  <2>3. CASE ReceiveVoteBallot(p, msg)
    <3>1. music[p] \in Music /\ msg \in Message /\ CastVoteFor(music[p], msg) = music[p]
      BY DEF TypeOK, NobodyVotes, CastVoteFor
    <3>2. Quiet(p)
      BY <2>3, <3>1, QuietResolve DEF ReceiveVoteBallot
    <3>3. QED
      BY <2>3, <3>2, OtherMessagesExchange, QuietKeepsNobodyVotes
  <2>4. CASE \/ ReceiveQueueState(p, msg)
             \/ ReceiveQueueSummary(p, msg)
             \/ ReceiveQueueRequest(p, msg)
    BY <2>4, QueueMessagesAreQuiet, ReceivingQueueAdopts, OtherMessagesExchange,
       QuietKeepsNobodyVotes
  <2>5. QED
    BY <2>1, <2>2, <2>3, <2>4
<1>5. CASE Timer(p) \/ Connection(p)
  BY <1>5, TimersAreQuiet, TimersExchange, QuietKeepsNobodyVotes
<1>6. QED
  BY <1>1, <1>3, <1>4, <1>5
-----------------------------------------------------------------------------
(* The abstract steps *)

(* What is there after a step that changes p's copy to c at most. *)
LEMMA CopiesAfter ==
  ASSUME NEW p \in Peer, NEW c,
         Copy' = [Copy EXCEPT ![p] = c] \/ Copy' = Copy,
         UnderWay' \subseteq UnderWay \cup {c}
  PROVE  Copies' \subseteq Copies \cup {c}
<1>1. \A q \in Peer : Copy'[q] \in Copies \cup {c}
  BY DEF Copies, Copy
<1>2. QED
  BY <1>1 DEF Copies

(* A change is later than all that is there, so no stamp is used twice. *)
LEMMA StampsStep ==
  ASSUME TypeOK, AllArePast, StampsTell, NEW p \in Peer,
         ChangesCopy(p) \/ Adopts(p) \/ Exchanges(p)
  PROVE  AllArePast' /\ StampsTell'
<1>0. clock \in Nat /\ Copies \subseteq QueueState
  BY CopiesType DEF TypeOK, Copies
<1>1. \A c \in Copies : c.updated_at \in Nat
  BY <1>0 DEF QueueState
<1>2. CASE ChangesCopy(p)
  <2>1. PICK c \in QueueState :
          /\ c.updated_at = clock
          /\ Copy' = [Copy EXCEPT ![p] = c]
          /\ UnderWay' \subseteq UnderWay \cup {c}
          /\ clock' = clock + 1
    BY <1>2 DEF ChangesCopy
  <2>2. Copies' \subseteq Copies \cup {c}
    BY <2>1, CopiesAfter
  <2>3. \A d \in Copies : d.updated_at < c.updated_at
    BY <2>1 DEF AllArePast
  <2>4. AllArePast'
    BY <1>0, <1>1, <2>1, <2>2, <2>3 DEF AllArePast
  <2>5. ASSUME NEW d \in Copies', NEW e \in Copies',
               d.version = e.version, d.updated_at = e.updated_at
        PROVE  d = e
    BY <1>0, <1>1, <2>1, <2>2, <2>3, <2>5 DEF StampsTell
  <2>6. QED
    BY <2>4, <2>5 DEF StampsTell
<1>3. CASE Adopts(p) \/ Exchanges(p)
  <2>1. Copies' \subseteq Copies /\ clock' = clock
    <3>1. CASE Adopts(p)
      <4>1. PICK s \in UnderWay : Copy' = [Copy EXCEPT ![p] = s]
        BY <3>1 DEF Adopts
      <4>2. UnderWay' \subseteq UnderWay \cup {s} /\ clock' = clock /\ s \in Copies
        BY <3>1, <4>1 DEF Adopts, Copies
      <4>3. QED
        BY <4>1, <4>2, CopiesAfter
    <3>2. CASE Exchanges(p)
      <4>1. Copy[p] \in Copies
        BY DEF Copies
      <4>2. QED
        BY <3>2, <4>1, CopiesAfter DEF Exchanges
    <3>3. QED
      BY <1>3, <3>1, <3>2
  <2>2. AllArePast'
    BY <2>1 DEF AllArePast
  <2>3. StampsTell'
    BY <2>1 DEF StampsTell
  <2>4. QED
    BY <2>2, <2>3
<1>4. QED
  BY <1>2, <1>3

(* Each of the three is a step of SharedQueue. *)
LEMMA StepsAreShared ==
  ASSUME TypeOK, AllArePast, NEW p \in Peer,
         ChangesCopy(p) \/ Adopts(p) \/ Exchanges(p)
  PROVE  Shared!Next
<1>0. Shared!Held = {Copy[q] : q \in Peer}
  BY DEF Shared!Held, Copy
<1>1. ASSUME ChangesCopy(p) PROVE Shared!Change(p)
  <2>1. PICK c \in QueueState :
          /\ c.updated_at = clock
          /\ c.version = Copy[p].version + 1
          /\ Copy' = [Copy EXCEPT ![p] = c]
          /\ UnderWay' \subseteq UnderWay \cup {c}
    BY <1>1 DEF ChangesCopy
  <2>2. Copy'[p] = c /\ \A q \in Peer \ {p} : Copy'[q] = Copy[q]
    BY <2>1 DEF Copy
  <2>3. \A d \in Copies : d.updated_at \in Nat /\ c.updated_at > d.updated_at
    BY <2>1, CopiesType DEF AllArePast, Copies, TypeOK, QueueState
  <2>4. \A d \in Shared!Held \cup UnderWay : Shared!Newer(c, d)
    BY <1>0, <2>3 DEF Shared!Newer, Copies
  <2>5. QED
    BY <2>1, <2>2, <2>4 DEF Shared!Change, Copy, UnderWay
<1>2. ASSUME Adopts(p) PROVE Shared!Adopt(p)
  BY <1>2 DEF Adopts, Shared!Adopt, Copy, UnderWay
<1>3. ASSUME Exchanges(p) PROVE Shared!Exchange
  <2>1. Copy' = Copy /\ UnderWay' \subseteq UnderWay \cup Shared!Held
    BY <1>0, <1>3 DEF Exchanges
  <2>2. QED
    BY <2>1 DEF Shared!Exchange, Copy, UnderWay
<1>4. QED
  BY <1>1, <1>2, <1>3 DEF Shared!Next

Inv == TypeOK /\ NobodyVotes /\ AllArePast /\ StampsTell

(* At first everybody has the copy of InitMusic and nothing is under way. *)
LEMMA InitShared == Init => Inv /\ Shared!Init
<1> SUFFICES ASSUME Init PROVE Inv /\ Shared!Init
  OBVIOUS
<1>1. TypeOK
  BY InitType
<1>2. NobodyVotes
  BY DEF Init, InitMusic, NobodyVotes
<1>3. Copy = [p \in Peer |-> BuildQueueState(InitMusic)] /\ UnderWay = {}
  BY DEF Init, Copy, UnderWay, QueueMessagesAt
<1>4. \A c \in Copies : c = BuildQueueState(InitMusic)
  BY <1>3 DEF Copies
<1>5. Len(InitOwners) \in Nat
  BY InitOwnersAssumption, LenProperties
<1>6. BuildQueueState(InitMusic).updated_at < clock
  BY <1>5 DEF BuildQueueState, InitMusic, Init
<1>7. AllArePast /\ StampsTell
  BY <1>4, <1>6 DEF AllArePast, StampsTell
<1>8. Shared!Init
  BY <1>3 DEF Shared!Init, Copy, UnderWay
<1>9. QED
  BY <1>1, <1>2, <1>7, <1>8 DEF Inv

(* A step of a room without votes keeps the invariant and is one of SharedQueue. *)
LEMMA NextShared ==
  ASSUME MaxProposals = 0, Inv, [Next]_vars
  PROVE  /\ Inv'
         /\ [Shared!Next]_<<[p \in Peer |-> BuildQueueState(music[p])],
                            {msg.state : msg \in UNION {QueueMessagesAt(p) : p \in Peer}}>>
<1>1. CASE Next
  <2>1. TypeOK'
    BY <1>1, NextMovesVotes DEF Inv
  <2>2. NobodyVotes' /\ \E p \in Peer : ChangesCopy(p) \/ Adopts(p) \/ Exchanges(p)
    BY <1>1, NextMovesCopies DEF Inv
  <2>3. AllArePast' /\ StampsTell' /\ Shared!Next
    BY <2>2, StampsStep, StepsAreShared DEF Inv
  <2>4. QED
    BY <2>1, <2>2, <2>3 DEF Inv
<1>2. CASE UNCHANGED vars
  <2>1. music' = music /\ inbox' = inbox /\ ballots' = ballots /\ clock' = clock
    BY <1>2 DEF vars
  <2>2. Copy' = Copy /\ UnderWay' = UnderWay
    BY <2>1 DEF Copy, UnderWay, QueueMessagesAt, BuildQueueState
  <2>3. TypeOK'
    BY <1>2 DEF Inv, TypeOK, vars
  <2>4. NobodyVotes' /\ AllArePast' /\ StampsTell'
    BY <2>1, <2>2 DEF Inv, NobodyVotes, AllArePast, StampsTell, Copies
  <2>5. QED
    BY <2>2, <2>3, <2>4 DEF Inv, Copy, UnderWay
<1>3. QED
  BY <1>1, <1>2

(* In a room in which no vote is opened, however many peers and changes it has,
   whoever connects or leaves, and whatever is lost, repeated or reordered, the
   replicated queue is the shared queue of SharedQueue. *)
THEOREM QueueIsShared ==
  ASSUME MaxProposals = 0
  PROVE  Spec => ImplementsSharedQueue
<1>1. Init => Inv /\ Shared!Init
  BY InitShared
<1>2. Inv /\ [Next]_vars =>
        /\ Inv'
        /\ [Shared!Next]_<<[p \in Peer |-> BuildQueueState(music[p])],
                           {msg.state : msg \in UNION {QueueMessagesAt(p) : p \in Peer}}>>
  BY NextShared
<1>3. QED
  BY <1>1, <1>2, PTL DEF Spec, ImplementsSharedQueue, Shared!Spec

-----------------------------------------------------------------------------
(* With votes *)

(* What a queue holds is there once and was asked for before now. *)
Sound(queue, now) == Distinct(queue) /\ \A item \in Held(queue) : item.added_at < now

CopiesAreSound == \A c \in Copies : Sound(c.items, clock)

(* A handler that leaves p with a sound queue and sends no other keeps all sound. *)
LEMMA PublishSound ==
  ASSUME TypeOK, CopiesAreSound, NEW p \in Peer, NEW m \in Music,
         NEW received, NEW sent, NEW asked \in SUBSET Peer,
         Publish(p, m, received, sent, asked),
         clock' \in Nat, clock' >= clock,
         Sound(m.queue, clock'),
         \A msg \in sent : msg.type \in {"QueueState", "QueueResponse"} =>
                             msg.state = BuildQueueState(m)
  PROVE  CopiesAreSound'
<1> DEFINE c == BuildQueueState(m)
<1>1. Copies' \subseteq Copies \cup {c}
  <2>1. /\ Copy' = [Copy EXCEPT ![p] = c]
        /\ UnderWay' \subseteq
             UnderWay \cup {msg.state : msg \in {n \in sent :
                               n.type \in {"QueueState", "QueueResponse"}}}
    BY PublishMovesCopies
  <2>2. UnderWay' \subseteq UnderWay \cup {c}
    BY <2>1
  <2> HIDE DEF c
  <2>3. QED
    BY <2>1, <2>2, CopiesAfter
<1>2. c.items = m.queue
  BY DEF BuildQueueState
<1>3. ASSUME NEW d \in Copies PROVE Sound(d.items, clock')
  <2>1. d \in QueueState
    BY CopiesType DEF Copies
  <2>2. \A item \in Held(d.items) : item \in Item
    BY <2>1, LenProperties, ElementOfSeq DEF QueueState, Held
  <2>3. clock \in Nat /\ \A item \in Held(d.items) : item.added_at \in Nat
    BY <2>2 DEF Item, TypeOK
  <2>4. QED
    BY <2>3 DEF CopiesAreSound, Sound
<1> HIDE DEF c
<1>4. QED
  BY <1>1, <1>2, <1>3 DEF CopiesAreSound

(* So does one that ends in resolve_active_vote. *)
LEMMA ResolveSound ==
  ASSUME TypeOK, CopiesAreSound, NEW p \in Peer, NEW m \in Music,
         NEW received, NEW sent, ResolveVote(p, m, received, sent),
         clock' \in Nat, clock' >= clock, Sound(m.queue, clock'),
         \A msg \in sent : msg.type \notin {"QueueState", "QueueResponse"}
  PROVE  CopiesAreSound'
<1> DEFINE n == RoomPeerCount(p)
           after == ResolveActiveVote(m, n)
<1>1. after \in Music
  BY ResolveType
<1>2. Distinct(after.queue) /\ Held(after.queue) \subseteq Held(m.queue)
  BY ResolveHolds DEF Sound
<1>3. Sound(after.queue, clock')
  BY <1>2 DEF Sound
<1>4. PICK executed \in SUBSET {QueueStateMessage(after)}, asked \in SUBSET Peer :
        Publish(p, after, received, sent \cup executed, asked)
  <2>1. ReadyVoteWaitingForQueue(m, n) => m.active_vote.proposal.proposer \in Peer
    BY DEF ReadyVoteWaitingForQueue, Music, ActiveVote, VoteProposal
  <2>2. QED
    BY <2>1 DEF ResolveVote, Asked
<1>5. QueueStateMessage(after).state = BuildQueueState(after)
  BY DEF QueueStateMessage
<1> HIDE DEF after
<1>6. QED
  BY <1>1, <1>3, <1>4, <1>5, PublishSound

(* What p holds are items, and is sound at any later time. *)
LEMMA OwnSound ==
  ASSUME TypeOK, CopiesAreSound, NEW p \in Peer, NEW now \in Nat, now >= clock
  PROVE  /\ Sound(music[p].queue, now)
         /\ \A item \in Held(music[p].queue) : item.added_at \in Nat
<1>1. Copy[p].items = music[p].queue /\ Copy[p] \in Copies
  BY DEF Copy, BuildQueueState, Copies
<1>2. Sound(music[p].queue, clock)
  BY <1>1 DEF CopiesAreSound
<1>3. \A item \in Held(music[p].queue) : item.added_at \in Nat
  <2>1. music[p].queue \in Seq(Item)
    BY DEF TypeOK, Music
  <2>2. \A item \in Held(music[p].queue) : item \in Item
    BY <2>1, LenProperties, ElementOfSeq DEF Held
  <2>3. QED
    BY <2>2 DEF Item
<1>4. QED
  BY <1>2, <1>3 DEF Sound, TypeOK

(* A new item is asked for now, later than all there is; removing keeps the rest. *)
LEMMA CommandsSound ==
  ASSUME TypeOK, CopiesAreSound, NEW p \in Peer,
         EnqueueBilibili(p) \/ \E i \in DOMAIN music[p].queue : RemoveQueueItem(p, i)
  PROVE  CopiesAreSound'
<1>0. music[p] \in Music /\ music[p].queue \in Seq(Item) /\ clock \in Nat
  BY DEF TypeOK, Music
<1>1. /\ Sound(music[p].queue, clock)
      /\ \A item \in Held(music[p].queue) : item.added_at \in Nat
  BY <1>0, OwnSound
<1>2. PICK queue \in Seq(Item) :
        /\ Sound(queue, clock + 1)
        /\ LET m == MarkQueueChanged([music[p] EXCEPT !.queue = queue], clock)
           IN  Publish(p, m, {}, {QueueStateMessage(m)}, {}) /\ clock' = clock + 1
  <2>1. CASE EnqueueBilibili(p)
    <3> DEFINE item == [requested_by |-> p, added_at |-> clock]
               queue == Append(music[p].queue, item)
               n == Len(music[p].queue)
    <3>1. item \in Item /\ item.added_at = clock
      BY <1>0 DEF Item
    <3>2. /\ n \in Nat /\ DOMAIN music[p].queue = 1..n
          /\ \A j \in 1..n : music[p].queue[j] \in Item
      BY <1>0, LenProperties, ElementOfSeq
    <3> HIDE DEF item
    <3>3. /\ queue \in Seq(Item) /\ Len(queue) = n + 1 /\ queue[n + 1] = item
          /\ \A j \in 1..n : queue[j] = music[p].queue[j]
      BY <1>0, <3>1, AppendProperties
    <3>4. DOMAIN queue = 1..n + 1
      BY <3>3, LenProperties
    <3>5. \A j \in 1..n : queue[j].added_at < clock /\ queue[j].added_at \in Nat
      BY <1>1, <3>2, <3>3 DEF Sound, Held, Item
    <3> HIDE DEF queue, n
    <3>6. \A j, k \in 1..n : queue[j] = queue[k] => j = k
      BY <1>1, <3>2, <3>3 DEF Sound, Distinct
    <3>7. \A j \in 1..n : queue[j] # item
      BY <1>0, <3>1, <3>5
    <3>8. Distinct(queue)
      BY <3>2, <3>3, <3>4, <3>6, <3>7 DEF Distinct
    <3>9. \A j \in 1..n + 1 : queue[j].added_at < clock + 1
      BY <1>0, <3>1, <3>2, <3>3, <3>5
    <3>10. Sound(queue, clock + 1)
      BY <3>4, <3>8, <3>9 DEF Sound, Held
    <3>11. QED
      BY <2>1, <3>3, <3>10 DEF EnqueueBilibili, queue, item
  <2>2. CASE \E i \in DOMAIN music[p].queue : RemoveQueueItem(p, i)
    <3>1. PICK i \in DOMAIN music[p].queue : RemoveQueueItem(p, i)
      BY <2>2
    <3> DEFINE queue == WithoutIndex(music[p].queue, i)
    <3>2. queue \in Seq(Item) /\ Distinct(queue) /\ Held(queue) \subseteq Held(music[p].queue)
      BY <1>0, <1>1, WithoutIndexType, WithoutIndexHolds DEF Sound
    <3>3. Sound(queue, clock + 1)
      BY <1>0, <1>1, <3>2 DEF Sound
    <3>4. QED
      BY <3>1, <3>2, <3>3 DEF RemoveQueueItem
  <2>3. QED
    BY <2>1, <2>2
<1> DEFINE edited == [music[p] EXCEPT !.queue = queue]
           m == MarkQueueChanged(edited, clock)
<1>3. edited \in Music /\ edited.queue = queue
  BY <1>0 DEF Music
<1> HIDE DEF edited
<1>4. m \in Music /\ m.queue = queue
  BY <1>0, <1>3, MarkQueueChangedType DEF MarkQueueChanged, Music
<1>5. Publish(p, m, {}, {QueueStateMessage(m)}, {}) /\ clock' = clock + 1
  BY <1>2 DEF edited
<1>6. QueueStateMessage(m).state = BuildQueueState(m)
  BY DEF QueueStateMessage
<1> HIDE DEF m
<1>7. QED
  BY <1>0, <1>2, <1>4, <1>5, <1>6, PublishSound

(* Opening, casting and counting votes changes queues by resolving them only. *)
LEMMA VotesSound ==
  ASSUME TypeOK, CopiesAreSound, NEW p \in Peer,
         \/ \E action \in VoteAction : ProposeVote(p, action)
         \/ \E approve \in BOOLEAN : Vote(p, approve)
         \/ \E msg \in inbox[p] : ReceiveVoteProposal(p, msg) \/ ReceiveVoteBallot(p, msg)
  PROVE  CopiesAreSound'
<1>0. music[p] \in Music /\ clock \in Nat
  BY DEF TypeOK
<1>1. \A vote \in ActiveVote \cup {NoVote} :
        LET m == [music[p] EXCEPT !.active_vote = vote]
        IN  m \in Music /\ m.queue = music[p].queue
  BY <1>0 DEF Music
<1>2. ASSUME NEW action \in VoteAction, ProposeVote(p, action) PROVE CopiesAreSound'
  <2> DEFINE proposal == [proposer |-> p, action |-> action,
                          queue_version |-> music[p].queue_version, created_at |-> clock]
             ballot == Approval(p, VoteId(proposal))
             m == [music[p] EXCEPT !.active_vote = NewVote(proposal)]
             sent == {[type |-> "VoteProposal", proposal |-> proposal], ballot}
  <2>1. proposal \in VoteProposal
    BY <1>0 DEF VoteProposal, Music
  <2>2. m \in Music /\ m.queue = music[p].queue
    BY <1>1, <2>1, NewVoteType
  <2>3. ResolveVote(p, m, {}, sent) /\ clock' = clock + 1
    BY <1>2 DEF ProposeVote
  <2>4. \A msg \in sent : msg.type \notin {"QueueState", "QueueResponse"}
    BY DEF Approval
  <2> HIDE DEF m, sent
  <2>5. Sound(m.queue, clock')
    BY <1>0, <2>2, <2>3, OwnSound
  <2>6. QED
    BY <1>0, <2>2, <2>3, <2>4, <2>5, ResolveSound
<1>3. ASSUME NEW approve \in BOOLEAN, Vote(p, approve) PROVE CopiesAreSound'
  <2> DEFINE vote == music[p].active_vote
             ballot == [type |-> "VoteBallot", vote_id |-> VoteId(vote.proposal),
                        peer |-> p, approve |-> approve]
             m == [music[p] EXCEPT !.active_vote = CastBallot(vote, p, approve)]
  <2>1. vote \in ActiveVote
    BY <1>0, <1>3 DEF Vote, Music
  <2>2. m \in Music /\ m.queue = music[p].queue
    BY <1>1, <2>1, CastBallotType
  <2>3. ResolveVote(p, m, {}, {ballot}) /\ clock' = clock
    BY <1>3 DEF Vote
  <2>4. \A msg \in {ballot} : msg.type \notin {"QueueState", "QueueResponse"}
    OBVIOUS
  <2> HIDE DEF m, ballot
  <2>5. Sound(m.queue, clock')
    BY <1>0, <2>2, <2>3, OwnSound
  <2>6. QED
    BY <1>0, <2>2, <2>3, <2>4, <2>5, ResolveSound
<1>4. ASSUME NEW msg \in inbox[p], ReceiveVoteProposal(p, msg) PROVE CopiesAreSound'
  <2>1. msg.proposal \in VoteProposal /\ msg.proposal.proposer \in Peer
    BY <1>4 DEF ReceiveVoteProposal, TypeOK, Message, Ballot, VoteProposal
  <2>2. PICK m \in Music, asked \in SUBSET Peer :
          Publish(p, m, {msg}, {}, asked) /\ m.queue = music[p].queue
    <3> DEFINE opened == [music[p] EXCEPT !.active_vote = NewVote(msg.proposal)]
               asked == Asked(p, ContextNeeded(music[p], msg.proposal))
    <3>1. opened \in Music /\ opened.queue = music[p].queue
      BY <1>1, <2>1, NewVoteType
    <3>2. asked \in SUBSET Peer
      BY <2>1 DEF Asked, ContextNeeded
    <3>3. \/ Publish(p, opened, {msg}, {}, asked)
          \/ Publish(p, music[p], {msg}, {}, {})
      BY <1>4 DEF ReceiveVoteProposal
    <3> HIDE DEF opened, asked
    <3>4. QED
      BY <1>0, <3>1, <3>2, <3>3
  <2>3. clock' = clock
    BY <1>4 DEF ReceiveVoteProposal
  <2>4. Sound(m.queue, clock')
    BY <1>0, <2>2, <2>3, OwnSound
  <2>5. QED
    BY <1>0, <2>2, <2>3, <2>4, PublishSound
<1>5. ASSUME NEW msg \in inbox[p], ReceiveVoteBallot(p, msg) PROVE CopiesAreSound'
  <2> DEFINE m == CastVoteFor(music[p], msg)
  <2>1. msg \in Ballot
    BY <1>5 DEF ReceiveVoteBallot, TypeOK, Message
  <2>2. m \in Music /\ m.queue = music[p].queue
    <3>1. music[p].active_vote # NoVote =>
            CastBallot(music[p].active_vote, msg.peer, msg.approve) \in ActiveVote
      BY <1>0, <2>1, CastBallotType DEF Music, Ballot
    <3>2. QED
      BY <1>0, <1>1, <3>1 DEF CastVoteFor
  <2>3. ResolveVote(p, m, {msg}, {}) /\ clock' = clock
    BY <1>5 DEF ReceiveVoteBallot
  <2> HIDE DEF m
  <2>4. Sound(m.queue, clock')
    BY <1>0, <2>2, <2>3, OwnSound
  <2>5. QED
    BY <1>0, <2>2, <2>3, <2>4, ResolveSound
<1>6. QED
  BY <1>2, <1>3, <1>4, <1>5

(* A peer adopts a sound queue as a whole; a vote may run on it at once. *)
LEMMA ReceivingSound ==
  ASSUME TypeOK, CopiesAreSound, NEW p \in Peer, NEW msg \in inbox[p],
         \/ ReceiveQueueState(p, msg)
         \/ ReceiveQueueSummary(p, msg)
         \/ ReceiveQueueRequest(p, msg)
  PROVE  CopiesAreSound'
<1>0. music[p] \in Music /\ clock \in Nat /\ msg \in Message
  BY DEF TypeOK
<1>1. Sound(music[p].queue, clock)
  BY <1>0, OwnSound
<1>2. CASE ReceiveQueueState(p, msg)
  <2>1. msg \in QueueMessagesAt(p) /\ clock' = clock
    BY <1>2 DEF ReceiveQueueState, QueueMessagesAt
  <2>2. msg.state \in Copies
    BY <2>1 DEF Copies, UnderWay
  <2>3. CASE AppliesQueueState(music[p], msg.state)
    <3> DEFINE m == ApplyRemoteQueueState(music[p], msg.state)
    <3>1. msg.state \in QueueState
      BY <2>2, CopiesType DEF Copies
    <3>2. m \in Music
      BY <1>0, <3>1, ApplyType
    <3>3. m.queue = msg.state.items
      BY <1>0, <3>1 DEF ApplyRemoteQueueState, InvalidateStaleQueueVote, Music
    <3>4. ResolveVote(p, m, {msg}, {})
      BY <1>2, <2>3 DEF ReceiveQueueState
    <3> HIDE DEF m
    <3>5. Sound(m.queue, clock')
      BY <2>1, <2>2, <3>3 DEF CopiesAreSound
    <3>6. QED
      BY <1>0, <2>1, <3>2, <3>4, <3>5, ResolveSound
  <2>4. CASE ~AppliesQueueState(music[p], msg.state)
    <3>1. Publish(p, music[p], {msg}, {}, {})
      BY <1>2, <2>4 DEF ReceiveQueueState
    <3>2. QED
      BY <1>0, <1>1, <2>1, <3>1, PublishSound
  <2>5. QED
    BY <2>3, <2>4
<1>3. CASE ReceiveQueueSummary(p, msg)
  <2>1. msg.peer \in Peer
    BY <1>0, <1>3 DEF ReceiveQueueSummary, Message, Ballot
  <2>2. PICK asked \in SUBSET Peer :
          Publish(p, music[p], {msg}, {}, asked) /\ clock' = clock
    BY <1>3, <2>1 DEF ReceiveQueueSummary, Asked
  <2>3. QED
    BY <1>0, <1>1, <2>2, PublishSound
<1>4. CASE ReceiveQueueRequest(p, msg)
  <2> DEFINE response == [type |-> "QueueResponse", target |-> msg.requester,
                          state |-> BuildQueueState(music[p])]
  <2>1. PICK sent \in SUBSET {response} :
          Publish(p, music[p], {msg}, sent, {}) /\ clock' = clock
    BY <1>4 DEF ReceiveQueueRequest
  <2>2. response.state = BuildQueueState(music[p])
    OBVIOUS
  <2> HIDE DEF response
  <2>3. QED
    BY <1>0, <1>1, <2>1, <2>2, PublishSound
<1>5. QED
  BY <1>2, <1>3, <1>4

(* Timers publish the queue or resolve a vote, connections do neither. *)
LEMMA TimersSound ==
  ASSUME TypeOK, CopiesAreSound, NEW p \in Peer, Timer(p) \/ Connection(p)
  PROVE  CopiesAreSound'
<1>0. music[p] \in Music /\ clock \in Nat
  BY DEF TypeOK
<1>1. Sound(music[p].queue, clock)
  BY <1>0, OwnSound
<1>2. CASE PublishQueueSummary(p)
  BY <1>0, <1>1, <1>2, PublishSound DEF PublishQueueSummary
<1>3. CASE PublishQueueSnapshot(p)
  <2>1. QueueStateMessage(music[p]).state = BuildQueueState(music[p])
    BY DEF QueueStateMessage
  <2>2. QED
    BY <1>0, <1>1, <1>3, <2>1, PublishSound DEF PublishQueueSnapshot
<1>4. CASE VoteTimeout(p)
  <2> DEFINE m == [music[p] EXCEPT !.active_vote = NoVote]
  <2>1. m \in Music /\ m.queue = music[p].queue
    BY <1>0 DEF Music
  <2>2. Publish(p, m, {}, {}, {}) /\ clock' = clock
    BY <1>4 DEF VoteTimeout
  <2> HIDE DEF m
  <2>3. QED
    BY <1>0, <1>1, <2>1, <2>2, PublishSound
<1>5. CASE MusicLocalTick(p)
  <2>1. ResolveVote(p, music[p], {}, {}) /\ clock' = clock
    BY <1>5 DEF MusicLocalTick
  <2>2. QED
    BY <1>0, <1>1, <2>1, ResolveSound
<1>6. CASE (\E q \in Peer : RequestCooldownElapsed(p, q)) \/ Connection(p)
  <2>1. UNCHANGED <<music, inbox, clock>>
    BY <1>6 DEF RequestCooldownElapsed, Connection, ConnectionEstablished,
                ConnectionClosed
  <2>2. QED
    BY <2>1, CopiesStay DEF CopiesAreSound
<1>7. QED
  BY <1>2, <1>3, <1>4, <1>5, <1>6 DEF Timer

(* Whatever happens, the queues of the room and those under way stay sound. *)
LEMMA NextSound ==
  ASSUME TypeOK, CopiesAreSound, Next
  PROVE  CopiesAreSound'
<1>1. PICK p \in Peer : Command(p) \/ Receive(p) \/ Timer(p) \/ Connection(p)
  BY DEF Next
<1>2. music[p].queue \in Seq(Item)
  BY DEF TypeOK, Music
<1>3. CASE Command(p)
  <2>1. CASE EnqueueBilibili(p) \/ \E i \in DOMAIN music[p].queue : RemoveQueueItem(p, i)
    BY <2>1, CommandsSound
  <2>2. CASE \E approve \in BOOLEAN : Vote(p, approve)
    BY <2>2, VotesSound
  <2>3. ASSUME NEW i \in DOMAIN music[p].queue,
               \/ ProposeRemove(p, i)
               \/ \E to_index \in MoveTargets : ProposeMove(p, i, to_index)
        PROVE  CopiesAreSound'
    <3>1. music[p].queue[i] \in Item
      BY <1>2, ElementOfSeq, LenProperties
    <3>2. \A to_index \in MoveTargets :
            [kind |-> "Move", item |-> music[p].queue[i], to_index |-> to_index]
              \in VoteAction
      BY <3>1, BoundsAssumption DEF VoteAction
    <3>3. [kind |-> "Remove", item |-> music[p].queue[i]] \in VoteAction
      BY <3>1 DEF VoteAction
    <3>4. \E action \in VoteAction : ProposeVote(p, action)
      BY <2>3, <3>2, <3>3 DEF ProposeRemove, ProposeMove
    <3>5. QED
      BY <3>4, VotesSound
  <2>4. QED
    BY <1>3, <2>1, <2>2, <2>3 DEF Command
<1>4. CASE Receive(p)
  BY <1>4, VotesSound, ReceivingSound DEF Receive
<1>5. CASE Timer(p) \/ Connection(p)
  BY <1>5, TimersSound
<1>6. QED
  BY <1>1, <1>3, <1>4, <1>5

(* Everybody's first queue holds items of different times. *)
LEMMA InitSound == Init => CopiesAreSound
<1> SUFFICES ASSUME Init PROVE CopiesAreSound
  OBVIOUS
<1> DEFINE n == Len(InitOwners)
<1>1. \A c \in Copies : c = BuildQueueState(InitMusic)
  BY DEF Init, Copies, Copy, UnderWay, QueueMessagesAt
<1>2. n \in Nat /\ clock = n + 1
  BY InitOwnersAssumption, LenProperties DEF Init
<1>3. BuildQueueState(InitMusic).items
        = [i \in 1..n |-> [requested_by |-> InitOwners[i], added_at |-> i]]
  BY DEF BuildQueueState, InitMusic
<1>4. Sound(BuildQueueState(InitMusic).items, clock)
  BY <1>2, <1>3 DEF Sound, Distinct, Held
<1>5. QED
  BY <1>1, <1>4 DEF CopiesAreSound

(* No queue and no snapshot under way ever holds an item twice, whatever is enqueued,
   removed, moved by vote, adopted, lost or reordered, and however often connections
   and votes come and go (mark_queue_changed, execute_vote_action, apply_queue_state). *)
THEOREM ItemsAreDistinct == Spec => []NoDuplicateItems
<1>1. Init => TypeOK /\ CopiesAreSound
  BY InitType, InitSound
<1>2. TypeOK /\ CopiesAreSound /\ [Next]_vars => TypeOK' /\ CopiesAreSound'
  <2>1. ASSUME TypeOK, CopiesAreSound, Next PROVE TypeOK' /\ CopiesAreSound'
    BY <2>1, NextMovesVotes, NextSound
  <2>2. ASSUME TypeOK, CopiesAreSound, UNCHANGED vars PROVE TypeOK' /\ CopiesAreSound'
    BY <2>2, CopiesStay DEF vars, TypeOK, CopiesAreSound
  <2>3. QED
    BY <2>1, <2>2
<1>3. CopiesAreSound => NoDuplicateItems
  <2> SUFFICES ASSUME CopiesAreSound PROVE NoDuplicateItems
    OBVIOUS
  <2>1. ASSUME NEW p \in Peer PROVE Distinct(music[p].queue)
    <3>1. Copy[p] \in Copies /\ Copy[p].items = music[p].queue
      BY DEF Copies, Copy, BuildQueueState
    <3>2. QED
      BY <3>1 DEF CopiesAreSound, Sound
  <2>2. ASSUME NEW p \in Peer, NEW msg \in QueueMessagesAt(p)
        PROVE  Distinct(msg.state.items)
    <3>1. msg.state \in Copies
      BY DEF Copies, UnderWay
    <3>2. QED
      BY <3>1 DEF CopiesAreSound, Sound
  <2>3. QED
    BY <2>1, <2>2 DEF NoDuplicateItems, QueueMessagesAt, Distinct
<1>4. QED
  BY <1>1, <1>2, <1>3, PTL DEF Spec

-----------------------------------------------------------------------------
(* Votes and versions *)

(* The votes that are open somewhere or may still be opened from a message. *)
VoteOf(m) == IF m.active_vote = NoVote THEN {} ELSE {m.active_vote.proposal}
ProposedIn(messages) ==
  {msg.proposal : msg \in {n \in messages : n.type = "VoteProposal"}}
Known == UNION {VoteOf(music[p]) \cup ProposedIn(inbox[p]) : p \in Peer}

Stamped(c, v) == StampedBy(c.version, c.updated_at, v)

(* A queue with the time of a vote is the one the vote left behind. *)
VersionsFit(copies, known) ==
  \A c \in copies, v \in known : c.updated_at = v.created_at => Stamped(c, v)

VersionsInv ==
  /\ TypeOK /\ AllArePast
  /\ \A v \in Known : v.created_at < clock
  /\ \A v, w \in Known : v.created_at = w.created_at => v = w
  /\ VersionsFit(Copies, Known)

(* What a step may do: run known votes, change a queue by hand, or open a vote. *)
RunsVotes ==
  /\ Known' \subseteq Known /\ clock' = clock
  /\ \A c \in Copies' \ Copies : \E v \in Known : Stamped(c, v)

ChangesQueue ==
  /\ Known' \subseteq Known /\ clock' = clock + 1
  /\ \E c \in QueueState : c.updated_at = clock /\ Copies' \subseteq Copies \cup {c}

OpensVote ==
  \E v \in VoteProposal :
    /\ v.created_at = clock /\ v.created_at \in VoteTimes'
    /\ Known' \subseteq Known \cup {v} /\ clock' = clock + 1
    /\ \A c \in Copies' \ Copies : Stamped(c, v)

LEMMA KnownType ==
  ASSUME TypeOK
  PROVE  Known \subseteq VoteProposal
<1>1. ASSUME NEW p \in Peer PROVE VoteOf(music[p]) \subseteq VoteProposal
  BY DEF VoteOf, TypeOK, Music, ActiveVote
<1>2. ASSUME NEW p \in Peer, NEW msg \in inbox[p], msg.type = "VoteProposal"
      PROVE  msg.proposal \in VoteProposal
  BY <1>2 DEF TypeOK, Message, Ballot
<1>3. QED
  BY <1>1, <1>2 DEF Known, ProposedIn

(* Each kind of step keeps the invariant, and fits what was known before to what is
   there afterwards. *)
LEMMA VersionsStep ==
  ASSUME VersionsInv, TypeOK', RunsVotes \/ ChangesQueue \/ OpensVote
  PROVE  VersionsInv' /\ VersionsFit(Copies', Known)
<1>0. /\ clock \in Nat /\ Known \subseteq VoteProposal
      /\ \A v \in Known : v.created_at \in Nat
  BY KnownType DEF VersionsInv, TypeOK, VoteProposal
<1>1. \A c \in Copies : c.updated_at \in Nat /\ c.updated_at < clock
  BY CopiesType DEF VersionsInv, AllArePast, Copies, QueueState
<1>2. CASE RunsVotes
  <2>1. \A c \in Copies' : c.updated_at < clock
    BY <1>1, <1>2 DEF RunsVotes, Stamped, StampedBy, VersionsInv
  <2>2. VersionsFit(Copies', Known)
    BY <1>2 DEF RunsVotes, VersionsFit, Stamped, StampedBy, VersionsInv
  <2>3. QED
    BY <1>2, <2>1, <2>2 DEF RunsVotes, VersionsInv, VersionsFit, AllArePast
<1>3. CASE ChangesQueue
  <2>0. \A c \in Copies' \ Copies : c.updated_at = clock
    BY <1>3 DEF ChangesQueue
  <2>1. \A c \in Copies' : c.updated_at < clock + 1
    BY <1>0, <1>1, <2>0
  <2>2. VersionsFit(Copies', Known)
    BY <1>0, <2>0 DEF VersionsFit, VersionsInv
  <2>3. \A v \in Known' : v.created_at < clock + 1
    BY <1>0, <1>3 DEF ChangesQueue, VersionsInv
  <2>4. QED
    BY <1>3, <2>1, <2>2, <2>3 DEF ChangesQueue, VersionsInv, VersionsFit, AllArePast
<1>4. CASE OpensVote
  <2>1. PICK v \in VoteProposal :
          /\ v.created_at = clock
          /\ Known' \subseteq Known \cup {v} /\ clock' = clock + 1
          /\ \A c \in Copies' \ Copies : Stamped(c, v)
    BY <1>4 DEF OpensVote
  <2>2. \A c \in Copies' : c.updated_at < clock + 1
    BY <1>0, <1>1, <2>1 DEF Stamped, StampedBy
  <2>3. VersionsFit(Copies', Known)
    BY <1>0, <2>1 DEF VersionsFit, VersionsInv, Stamped, StampedBy
  <2>4. \A c \in Copies' : c.updated_at = v.created_at => Stamped(c, v)
    BY <1>0, <1>1, <2>1
  <2>5. VersionsFit(Copies', Known')
    BY <2>1, <2>3, <2>4 DEF VersionsFit
  <2>6. \A w \in Known' : w.created_at < clock + 1
    BY <1>0, <2>1 DEF VersionsInv
  <2>7. \A w, u \in Known' : w.created_at = u.created_at => w = u
    BY <1>0, <2>1 DEF VersionsInv
  <2>8. QED
    BY <2>1, <2>2, <2>3, <2>5, <2>6, <2>7 DEF VersionsInv, AllArePast
<1>5. QED
  BY <1>2, <1>3, <1>4

(* A handler makes known what it has open and what it sends. *)
LEMMA PublishMakesKnown ==
  ASSUME TypeOK, NEW p \in Peer, NEW m \in Music,
         NEW received, NEW sent, NEW asked \in SUBSET Peer,
         Publish(p, m, received, sent, asked)
  PROVE  Known' \subseteq Known \cup VoteOf(m) \cup ProposedIn(sent)
<1>1. music' = [music EXCEPT ![p] = m] /\ music \in [Peer -> Music]
  BY DEF Publish, TypeOK
<1>2. ASSUME NEW q \in Peer PROVE VoteOf(music'[q]) \subseteq Known \cup VoteOf(m)
  BY <1>1 DEF Known
<1>3. ASSUME NEW q \in Peer, NEW msg \in inbox'[q], msg.type = "VoteProposal"
      PROVE  msg.proposal \in Known \cup ProposedIn(sent)
  <2>1. msg \in inbox[q] \/ msg \in sent \/ \E r \in asked : msg = QueueRequest(p, m, r)
    BY DEF Publish, Gossip
  <2>2. \A r \in asked : QueueRequest(p, m, r).type = "QueueRequest"
    BY DEF QueueRequest
  <2>3. QED
    BY <1>3, <2>1, <2>2 DEF Known, ProposedIn
<1>4. QED
  BY <1>2, <1>3 DEF Known, ProposedIn, VoteOf

(* A handler that sends no queue but its peer's. *)
LEMMA PublishCopies ==
  ASSUME TypeOK, NEW p \in Peer, NEW m \in Music,
         NEW received, NEW sent, NEW asked \in SUBSET Peer,
         Publish(p, m, received, sent, asked),
         \A msg \in sent : msg.type \in {"QueueState", "QueueResponse"} =>
                             msg.state = BuildQueueState(m)
  PROVE  Copies' \subseteq Copies \cup {BuildQueueState(m)}
<1> DEFINE c == BuildQueueState(m)
<1>1. /\ Copy' = [Copy EXCEPT ![p] = c]
      /\ UnderWay' \subseteq
           UnderWay \cup {msg.state : msg \in {n \in sent :
                             n.type \in {"QueueState", "QueueResponse"}}}
  BY PublishMovesCopies
<1>2. UnderWay' \subseteq UnderWay \cup {c}
  BY <1>1
<1> HIDE DEF c
<1>3. QED
  BY <1>1, <1>2, CopiesAfter DEF c

(* A handler that keeps its peer's queue, or one there is, and its vote. *)
LEMMA PublishKeeps ==
  ASSUME TypeOK, NEW p \in Peer, NEW m \in Music,
         NEW received, NEW sent, NEW asked \in SUBSET Peer,
         Publish(p, m, received, sent, asked), clock' = clock,
         BuildQueueState(m) \in Copies, VoteOf(m) \subseteq Known,
         \A msg \in sent : /\ msg.type # "VoteProposal"
                           /\ msg.type \in {"QueueState", "QueueResponse"} =>
                                msg.state = BuildQueueState(m)
  PROVE  RunsVotes
<1>1. Copies' \subseteq Copies
  BY PublishCopies
<1>2. Known' \subseteq Known
  BY PublishMakesKnown DEF ProposedIn
<1>3. QED
  BY <1>1, <1>2 DEF RunsVotes

(* One that ends in resolve_active_vote adds at most the queue the vote leaves. *)
LEMMA ResolveRuns ==
  ASSUME TypeOK, NEW p \in Peer, NEW m \in Music,
         NEW received, NEW sent, ResolveVote(p, m, received, sent),
         BuildQueueState(m) \in Copies,
         \A msg \in sent : msg.type \notin {"QueueState", "QueueResponse"}
  PROVE  /\ Known' \subseteq Known \cup VoteOf(m) \cup ProposedIn(sent)
         /\ \A c \in Copies' \ Copies : \E v \in VoteOf(m) : Stamped(c, v)
<1> DEFINE n == RoomPeerCount(p)
           after == ResolveActiveVote(m, n)
<1>1. after \in Music /\ after.active_vote \in {m.active_vote, NoVote}
  BY ResolveType
<1>2. PICK executed \in SUBSET {QueueStateMessage(after)}, asked \in SUBSET Peer :
        Publish(p, after, received, sent \cup executed, asked)
  <2>1. ReadyVoteWaitingForQueue(m, n) => m.active_vote.proposal.proposer \in Peer
    BY DEF ReadyVoteWaitingForQueue, Music, ActiveVote, VoteProposal
  <2>2. QED
    BY <2>1 DEF ResolveVote, Asked
<1>3. QueueStateMessage(after).state = BuildQueueState(after)
      /\ QueueStateMessage(after).type = "QueueState"
  BY DEF QueueStateMessage
<1>4. BuildQueueState(after) # BuildQueueState(m) =>
        \E v \in VoteOf(m) : Stamped(BuildQueueState(after), v)
  BY ResolveStamps, NoVoteAssumption DEF VoteOf, Stamped, BuildQueueState
<1> HIDE DEF after
<1>5. Copies' \subseteq Copies \cup {BuildQueueState(after)}
  BY <1>1, <1>2, <1>3, PublishCopies
<1>6. Known' \subseteq Known \cup VoteOf(after) \cup ProposedIn(sent \cup executed)
  BY <1>1, <1>2, PublishMakesKnown
<1>7. VoteOf(after) \subseteq VoteOf(m) /\ ProposedIn(sent \cup executed) \subseteq ProposedIn(sent)
  BY <1>1, <1>2, <1>3 DEF VoteOf, ProposedIn
<1>8. QED
  BY <1>4, <1>5, <1>6, <1>7

(* What is open at p, or proposed to it, is known. *)
LEMMA OwnKnown ==
  ASSUME NEW p \in Peer
  PROVE  /\ BuildQueueState(music[p]) \in Copies
         /\ VoteOf(music[p]) \subseteq Known
         /\ \A msg \in inbox[p] : msg.type = "VoteProposal" => msg.proposal \in Known
  BY DEF Copies, Copy, Known, ProposedIn

(* Enqueueing and removing one's own item change a queue by hand. *)
LEMMA CommandsVersions ==
  ASSUME TypeOK, NEW p \in Peer,
         EnqueueBilibili(p) \/ \E i \in DOMAIN music[p].queue : RemoveQueueItem(p, i)
  PROVE  ChangesQueue
<1>0. music[p] \in Music
  BY DEF TypeOK
<1>1. PICK c \in QueueState :
        /\ c.updated_at = clock
        /\ Copy' = [Copy EXCEPT ![p] = c]
        /\ UnderWay' \subseteq UnderWay \cup {c}
        /\ clock' = clock + 1
  BY CommandsChange DEF ChangesCopy
<1>2. Copies' \subseteq Copies \cup {c}
  BY <1>1, CopiesAfter
<1>3. ASSUME NEW q \in Peer
      PROVE  /\ music'[q].active_vote = music[q].active_vote
             /\ ProposedIn(inbox'[q]) \subseteq ProposedIn(inbox[q])
  <2>1. PICK m : /\ Publish(p, m, {}, {QueueStateMessage(m)}, {})
                 /\ m.active_vote = music[p].active_vote
    <3>1. PICK queue :
            LET edited == [music[p] EXCEPT !.queue = queue]
                changed == MarkQueueChanged(edited, clock)
            IN  Publish(p, changed, {}, {QueueStateMessage(changed)}, {})
      BY Zenon DEF EnqueueBilibili, RemoveQueueItem
    <3> DEFINE edited == [music[p] EXCEPT !.queue = queue]
               changed == MarkQueueChanged(edited, clock)
    <3>2. /\ edited.active_vote = music[p].active_vote
          /\ DOMAIN edited = {"queue", "queue_version", "queue_updated_at", "active_vote"}
      BY <1>0 DEF Music
    <3> HIDE DEF edited
    <3>3. changed.active_vote = music[p].active_vote
      BY <3>2 DEF MarkQueueChanged
    <3>4. Publish(p, changed, {}, {QueueStateMessage(changed)}, {})
      BY <3>1 DEF edited
    <3> HIDE DEF changed
    <3>5. QED
      BY <3>3, <3>4
  <2>2. music' = [music EXCEPT ![p] = m] /\ music \in [Peer -> Music]
    BY <2>1 DEF Publish, TypeOK
  <2>3. QueueStateMessage(m).type = "QueueState"
    BY DEF QueueStateMessage
  <2>4. inbox'[q] \subseteq inbox[q] \cup {QueueStateMessage(m)}
    BY <2>1 DEF Publish, Gossip
  <2>5. QED
    BY <2>1, <2>2, <2>3, <2>4 DEF ProposedIn
<1>4. Known' \subseteq Known
  BY <1>3 DEF Known, VoteOf, ProposedIn
<1>5. QED
  BY <1>1, <1>2, <1>4 DEF ChangesQueue

(* Proposing opens a vote of this time, and may run it at once. *)
LEMMA ProposalOpensVote ==
  ASSUME TypeOK, NEW p \in Peer, NEW action \in VoteAction, ProposeVote(p, action)
  PROVE  OpensVote
<1>0. music[p] \in Music /\ clock \in Nat
  BY DEF TypeOK
<1> DEFINE proposal == [proposer |-> p, action |-> action,
                        queue_version |-> music[p].queue_version, created_at |-> clock]
           ballot == Approval(p, VoteId(proposal))
           opening == [type |-> "VoteProposal", proposal |-> proposal]
           m == [music[p] EXCEPT !.active_vote = NewVote(proposal)]
<1>1. proposal \in VoteProposal /\ proposal.created_at = clock
  BY <1>0 DEF VoteProposal, Music
<1>2. NewVote(proposal) \in ActiveVote /\ NewVote(proposal).proposal = proposal
  BY <1>1, NewVoteType DEF NewVote
<1>3. ballot.type = "VoteBallot" /\ opening.type = "VoteProposal"
      /\ opening.proposal = proposal
  BY DEF Approval
<1>4. ResolveVote(p, m, {}, {opening, ballot}) /\ clock' = clock + 1
      /\ ballots' = ballots \cup {ballot}
  BY DEF ProposeVote
<1>11. ballot.vote_id[2] = proposal.created_at
  BY <1>1, ApprovalType DEF Approval
<1> HIDE DEF proposal, ballot, opening
<1>12. proposal.created_at \in VoteTimes'
  BY <1>4, <1>11 DEF VoteTimes
<1>5. m \in Music /\ m.active_vote = NewVote(proposal)
      /\ BuildQueueState(m) = BuildQueueState(music[p])
  BY <1>0, <1>2 DEF Music, BuildQueueState
<1>6. VoteOf(m) \subseteq {proposal}
  BY <1>2, <1>5 DEF VoteOf
<1> HIDE DEF m
<1>7. ProposedIn({opening, ballot}) \subseteq {proposal}
  BY <1>3 DEF ProposedIn
<1>8. BuildQueueState(m) \in Copies
  BY <1>5, OwnKnown
<1>9. /\ Known' \subseteq Known \cup VoteOf(m) \cup ProposedIn({opening, ballot})
      /\ \A c \in Copies' \ Copies : \E v \in VoteOf(m) : Stamped(c, v)
  BY <1>3, <1>4, <1>5, <1>8, ResolveRuns
<1>10. QED
  BY <1>1, <1>4, <1>6, <1>7, <1>9, <1>12 DEF OpensVote

(* Casting, counting and hearing of votes open none that was not known. *)
LEMMA VotesVersions ==
  ASSUME TypeOK, NEW p \in Peer,
         \/ \E approve \in BOOLEAN : Vote(p, approve)
         \/ \E msg \in inbox[p] : ReceiveVoteProposal(p, msg) \/ ReceiveVoteBallot(p, msg)
  PROVE  RunsVotes
<1>0. music[p] \in Music
  BY DEF TypeOK
<1>1. ASSUME NEW vote \in ActiveVote \cup {NoVote},
             vote # NoVote => vote.proposal \in Known
      PROVE  LET m == [music[p] EXCEPT !.active_vote = vote]
             IN  /\ m \in Music
                 /\ BuildQueueState(m) \in Copies
                 /\ VoteOf(m) \subseteq Known
  <2> DEFINE m == [music[p] EXCEPT !.active_vote = vote]
  <2>1. m \in Music /\ m.active_vote = vote
        /\ BuildQueueState(m) = BuildQueueState(music[p])
    BY <1>0 DEF Music, BuildQueueState
  <2> HIDE DEF m
  <2>2. VoteOf(m) \subseteq Known
    BY <1>1, <2>1 DEF VoteOf
  <2>3. QED
    BY <2>1, <2>2, OwnKnown DEF m
<1>2. ASSUME music[p].active_vote # NoVote
      PROVE  /\ music[p].active_vote \in ActiveVote
             /\ music[p].active_vote.proposal \in Known
  BY <1>0, <1>2, OwnKnown DEF Music, VoteOf
<1>3. ASSUME NEW approve \in BOOLEAN, Vote(p, approve) PROVE RunsVotes
  <2> DEFINE vote == CastBallot(music[p].active_vote, p, approve)
             ballot == [type |-> "VoteBallot", peer |-> p, approve |-> approve,
                        vote_id |-> VoteId(music[p].active_vote.proposal)]
             m == [music[p] EXCEPT !.active_vote = vote]
  <2>1. vote \in ActiveVote /\ vote.proposal \in Known
    BY <1>2, <1>3, CastBallotType DEF Vote
  <2>2. ResolveVote(p, m, {}, {ballot}) /\ clock' = clock
    BY <1>3 DEF Vote
  <2>3. ballot.type = "VoteBallot"
    OBVIOUS
  <2> HIDE DEF vote, ballot
  <2>4. m \in Music /\ BuildQueueState(m) \in Copies /\ VoteOf(m) \subseteq Known
    BY <1>1, <2>1
  <2> HIDE DEF m
  <2>5. /\ Known' \subseteq Known \cup VoteOf(m) \cup ProposedIn({ballot})
        /\ \A c \in Copies' \ Copies : \E v \in VoteOf(m) : Stamped(c, v)
    BY <2>2, <2>3, <2>4, ResolveRuns
  <2>6. ProposedIn({ballot}) = {}
    BY <2>3 DEF ProposedIn
  <2>7. QED
    BY <2>2, <2>4, <2>5, <2>6 DEF RunsVotes
<1>4. ASSUME NEW msg \in inbox[p], ReceiveVoteProposal(p, msg) PROVE RunsVotes
  <2> DEFINE opened == [music[p] EXCEPT !.active_vote = NewVote(msg.proposal)]
             asked == Asked(p, ContextNeeded(music[p], msg.proposal))
  <2>1. /\ msg.proposal \in VoteProposal /\ msg.proposal.proposer \in Peer
        /\ msg.proposal \in Known /\ clock' = clock
    BY <1>4, OwnKnown DEF ReceiveVoteProposal, TypeOK, Message, Ballot, VoteProposal
  <2>2. NewVote(msg.proposal) \in ActiveVote /\ NewVote(msg.proposal).proposal \in Known
    BY <2>1, NewVoteType DEF NewVote
  <2>3. opened \in Music /\ BuildQueueState(opened) \in Copies
        /\ VoteOf(opened) \subseteq Known
    BY <1>1, <2>2
  <2>4. asked \in SUBSET Peer
    BY <2>1 DEF Asked, ContextNeeded
  <2>5. \/ Publish(p, opened, {msg}, {}, asked)
        \/ Publish(p, music[p], {msg}, {}, {})
    BY <1>4 DEF ReceiveVoteProposal
  <2> HIDE DEF opened, asked
  <2>6. QED
    BY <1>0, <2>1, <2>3, <2>4, <2>5, PublishKeeps, OwnKnown
<1>5. ASSUME NEW msg \in inbox[p], ReceiveVoteBallot(p, msg) PROVE RunsVotes
  <2> DEFINE m == CastVoteFor(music[p], msg)
  <2>1. msg.peer \in Peer /\ msg.approve \in BOOLEAN
    BY <1>5 DEF ReceiveVoteBallot, TypeOK, Message, Ballot
  <2>2. m \in Music /\ BuildQueueState(m) \in Copies /\ VoteOf(m) \subseteq Known
    <3>1. CASE m = music[p]
      BY <1>0, <3>1, OwnKnown
    <3>2. CASE music[p].active_vote # NoVote
      <4> DEFINE vote == CastBallot(music[p].active_vote, msg.peer, msg.approve)
      <4>1. vote \in ActiveVote /\ vote.proposal \in Known
        BY <1>2, <2>1, <3>2, CastBallotType
      <4>2. m = music[p] \/ m = [music[p] EXCEPT !.active_vote = vote]
        BY DEF CastVoteFor
      <4> HIDE DEF vote, m
      <4>3. QED
        BY <1>0, <1>1, <4>1, <4>2, OwnKnown
    <3>3. QED
      BY <3>1, <3>2 DEF CastVoteFor
  <2>3. ResolveVote(p, m, {msg}, {}) /\ clock' = clock
    BY <1>5 DEF ReceiveVoteBallot
  <2> HIDE DEF m
  <2>4. /\ Known' \subseteq Known \cup VoteOf(m) \cup ProposedIn({})
        /\ \A c \in Copies' \ Copies : \E v \in VoteOf(m) : Stamped(c, v)
    BY <2>2, <2>3, ResolveRuns
  <2>5. QED
    BY <2>2, <2>3, <2>4 DEF RunsVotes, ProposedIn
<1>6. QED
  BY <1>3, <1>4, <1>5

(* An adopted queue is one there was; the vote it may run on is known. *)
LEMMA ReceivingVersions ==
  ASSUME TypeOK, NEW p \in Peer, NEW msg \in inbox[p],
         \/ ReceiveQueueState(p, msg)
         \/ ReceiveQueueSummary(p, msg)
         \/ ReceiveQueueRequest(p, msg)
  PROVE  RunsVotes
<1>0. music[p] \in Music /\ msg \in Message
  BY DEF TypeOK
<1>1. CASE ReceiveQueueState(p, msg)
  <2>1. msg \in QueueMessagesAt(p) /\ clock' = clock
    BY <1>1 DEF ReceiveQueueState, QueueMessagesAt
  <2>2. msg.state \in Copies /\ msg.state \in QueueState
    BY <2>1, CopiesType DEF Copies, UnderWay
  <2>3. CASE AppliesQueueState(music[p], msg.state)
    <3> DEFINE m == ApplyRemoteQueueState(music[p], msg.state)
    <3>1. m \in Music /\ m.active_vote \in {music[p].active_vote, NoVote}
      BY <1>0, <2>2, ApplyType
    <3>2. BuildQueueState(m) = msg.state
      BY <1>0, <2>2 DEF ApplyRemoteQueueState, InvalidateStaleQueueVote,
                        BuildQueueState, QueueState, Music
    <3>3. ResolveVote(p, m, {msg}, {})
      BY <1>1, <2>3 DEF ReceiveQueueState
    <3> HIDE DEF m
    <3>4. VoteOf(m) \subseteq Known
      BY <3>1, OwnKnown DEF VoteOf
    <3>5. /\ Known' \subseteq Known \cup VoteOf(m) \cup ProposedIn({})
          /\ \A c \in Copies' \ Copies : \E v \in VoteOf(m) : Stamped(c, v)
      BY <2>2, <3>1, <3>2, <3>3, ResolveRuns
    <3>6. QED
      BY <2>1, <3>4, <3>5 DEF RunsVotes, ProposedIn
  <2>4. CASE ~AppliesQueueState(music[p], msg.state)
    <3>1. Publish(p, music[p], {msg}, {}, {})
      BY <1>1, <2>4 DEF ReceiveQueueState
    <3>2. QED
      BY <1>0, <2>1, <3>1, PublishKeeps, OwnKnown
  <2>5. QED
    BY <2>3, <2>4
<1>2. CASE ReceiveQueueSummary(p, msg)
  <2>1. msg.peer \in Peer
    BY <1>0, <1>2 DEF ReceiveQueueSummary, Message, Ballot
  <2>2. PICK asked \in SUBSET Peer :
          Publish(p, music[p], {msg}, {}, asked) /\ clock' = clock
    BY <1>2, <2>1 DEF ReceiveQueueSummary, Asked
  <2>3. QED
    BY <1>0, <2>2, PublishKeeps, OwnKnown
<1>3. CASE ReceiveQueueRequest(p, msg)
  <2> DEFINE response == [type |-> "QueueResponse", target |-> msg.requester,
                          state |-> BuildQueueState(music[p])]
  <2>1. PICK sent \in SUBSET {response} :
          Publish(p, music[p], {msg}, sent, {}) /\ clock' = clock
    BY <1>3 DEF ReceiveQueueRequest
  <2>2. response.state = BuildQueueState(music[p]) /\ response.type = "QueueResponse"
    OBVIOUS
  <2> HIDE DEF response
  <2>3. QED
    BY <1>0, <2>1, <2>2, PublishKeeps, OwnKnown
<1>4. QED
  BY <1>1, <1>2, <1>3

(* Timers resolve or drop a known vote, or publish; connections do neither. *)
LEMMA TimersVersions ==
  ASSUME TypeOK, NEW p \in Peer, Timer(p) \/ Connection(p)
  PROVE  RunsVotes
<1>0. music[p] \in Music
  BY DEF TypeOK
<1>1. CASE PublishQueueSummary(p)
  BY <1>0, <1>1, PublishKeeps, OwnKnown DEF PublishQueueSummary
<1>2. CASE PublishQueueSnapshot(p)
  <2>1. QueueStateMessage(music[p]).state = BuildQueueState(music[p])
        /\ QueueStateMessage(music[p]).type = "QueueState"
    BY DEF QueueStateMessage
  <2>2. QED
    BY <1>0, <1>2, <2>1, PublishKeeps, OwnKnown DEF PublishQueueSnapshot
<1>3. CASE VoteTimeout(p)
  <2> DEFINE m == [music[p] EXCEPT !.active_vote = NoVote]
  <2>1. m \in Music /\ VoteOf(m) = {} /\ BuildQueueState(m) = BuildQueueState(music[p])
    BY <1>0 DEF Music, BuildQueueState, VoteOf
  <2>2. Publish(p, m, {}, {}, {}) /\ clock' = clock
    BY <1>3 DEF VoteTimeout
  <2> HIDE DEF m
  <2>3. QED
    BY <2>1, <2>2, PublishKeeps, OwnKnown
<1>4. CASE MusicLocalTick(p)
  <2>1. ResolveVote(p, music[p], {}, {}) /\ clock' = clock
    BY <1>4 DEF MusicLocalTick
  <2>2. /\ Known' \subseteq Known \cup VoteOf(music[p]) \cup ProposedIn({})
        /\ \A c \in Copies' \ Copies : \E v \in VoteOf(music[p]) : Stamped(c, v)
    BY <1>0, <2>1, ResolveRuns, OwnKnown
  <2>3. QED
    BY <2>1, <2>2, OwnKnown DEF RunsVotes, ProposedIn
<1>5. CASE (\E q \in Peer : RequestCooldownElapsed(p, q)) \/ Connection(p)
  <2>1. UNCHANGED <<music, inbox, clock>>
    BY <1>5 DEF RequestCooldownElapsed, Connection, ConnectionEstablished,
                ConnectionClosed
  <2>2. QED
    BY <2>1, CopiesStay DEF RunsVotes, Known, VoteOf, ProposedIn
<1>6. QED
  BY <1>1, <1>2, <1>3, <1>4, <1>5 DEF Timer

(* Every step of a room is of one of the three kinds. *)
LEMMA NextVersions ==
  ASSUME TypeOK, Next
  PROVE  RunsVotes \/ ChangesQueue \/ OpensVote
<1>1. PICK p \in Peer : Command(p) \/ Receive(p) \/ Timer(p) \/ Connection(p)
  BY DEF Next
<1>2. music[p].queue \in Seq(Item)
  BY DEF TypeOK, Music
<1>3. CASE Command(p)
  <2>1. CASE EnqueueBilibili(p) \/ \E i \in DOMAIN music[p].queue : RemoveQueueItem(p, i)
    BY <2>1, CommandsVersions
  <2>2. CASE \E approve \in BOOLEAN : Vote(p, approve)
    BY <2>2, VotesVersions
  <2>3. ASSUME NEW i \in DOMAIN music[p].queue,
               \/ ProposeRemove(p, i)
               \/ \E to_index \in MoveTargets : ProposeMove(p, i, to_index)
        PROVE  OpensVote
    <3>1. music[p].queue[i] \in Item
      BY <1>2, ElementOfSeq, LenProperties
    <3>2. \A to_index \in MoveTargets :
            [kind |-> "Move", item |-> music[p].queue[i], to_index |-> to_index]
              \in VoteAction
      BY <3>1, BoundsAssumption DEF VoteAction
    <3>3. [kind |-> "Remove", item |-> music[p].queue[i]] \in VoteAction
      BY <3>1 DEF VoteAction
    <3>4. \E action \in VoteAction : ProposeVote(p, action)
      BY <2>3, <3>2, <3>3 DEF ProposeRemove, ProposeMove
    <3>5. QED
      BY <3>4, ProposalOpensVote
  <2>4. QED
    BY <1>3, <2>1, <2>2, <2>3 DEF Command
<1>4. CASE Receive(p)
  BY <1>4, VotesVersions, ReceivingVersions DEF Receive
<1>5. CASE Timer(p) \/ Connection(p)
  BY <1>5, TimersVersions
<1>6. QED
  BY <1>1, <1>3, <1>4, <1>5

(* The invariant holds, and every step fits the votes known before it. *)
LEMMA VersionsHold ==
  /\ Init => VersionsInv
  /\ VersionsInv /\ [Next]_vars => VersionsInv' /\ VersionsFit(Copies', Known)
<1>1. ASSUME Init PROVE VersionsInv
  <2>1. Known = {}
    BY <1>1 DEF Init, InitMusic, Known, VoteOf, ProposedIn
  <2>2. TypeOK /\ AllArePast
    BY <1>1, InitShared DEF Inv
  <2>3. QED
    BY <2>1, <2>2 DEF VersionsInv, VersionsFit
<1>2. ASSUME VersionsInv, Next PROVE VersionsInv' /\ VersionsFit(Copies', Known)
  <2>1. TypeOK'
    BY <1>2, NextMovesVotes DEF VersionsInv
  <2>2. RunsVotes \/ ChangesQueue \/ OpensVote
    BY <1>2, NextVersions DEF VersionsInv
  <2>3. QED
    BY <1>2, <2>1, <2>2, VersionsStep
<1>3. ASSUME VersionsInv, UNCHANGED vars PROVE VersionsInv' /\ VersionsFit(Copies', Known)
  <2>1. Copies' = Copies /\ clock' = clock
    BY <1>3, CopiesStay DEF vars
  <2>2. Known' = Known
    BY <1>3 DEF vars, Known, VoteOf, ProposedIn
  <2>3. TypeOK'
    BY <1>3 DEF vars, VersionsInv, TypeOK
  <2>4. QED
    BY <1>3, <2>1, <2>2, <2>3 DEF VersionsInv, VersionsFit, AllArePast
<1>4. QED
  BY <1>1, <1>2, <1>3

(* A vote that changes a queue runs on the version it was opened on, in rooms of any
   size and with any number of votes and changes: no stale vote runs, however late it
   passes (stale_vote_reason, ready_vote_waiting_for_queue). *)
THEOREM VotesRunOnVersions == Spec => VotesRunOnTheirVersion
<1> DEFINE Fits == \A p \in Peer :
             LET vote == music[p].active_vote
             IN  (/\ vote # NoVote
                  /\ music'[p].queue_updated_at = vote.proposal.created_at
                  /\ music'[p].queue # music[p].queue)
                 => music'[p].queue_version = vote.proposal.queue_version + 1
<1>1. VersionsFit(Copies', Known) => Fits
  <2> SUFFICES ASSUME VersionsFit(Copies', Known), NEW p \in Peer,
                      music[p].active_vote # NoVote,
                      music'[p].queue_updated_at
                        = music[p].active_vote.proposal.created_at
               PROVE  music'[p].queue_version
                        = music[p].active_vote.proposal.queue_version + 1
    OBVIOUS
  <2>1. music[p].active_vote.proposal \in Known
    BY OwnKnown DEF VoteOf
  <2> DEFINE c == Copy'[p]
  <2>2. c \in Copies'
    BY DEF Copies
  <2>3. c.version = music'[p].queue_version /\ c.updated_at = music'[p].queue_updated_at
    BY DEF Copy, BuildQueueState
  <2> HIDE DEF c
  <2>4. QED
    BY <2>1, <2>2, <2>3 DEF VersionsFit, Stamped, StampedBy
<1>2. VersionsInv /\ [Next]_vars => VersionsInv' /\ Fits
  BY <1>1, VersionsHold
<1>3. Init => VersionsInv
  BY VersionsHold
<1> HIDE DEF Fits
<1>4. Spec => [][Fits]_vars
  BY <1>2, <1>3, PTL DEF Spec
<1>5. QED
  BY <1>4 DEF VotesRunOnTheirVersion, Fits
-----------------------------------------------------------------------------
(* One item at a time *)

(* Two queues of which one is the other with x put in at places agree but for x: f is
   where the elements of the smaller one are in the larger one. *)
LEMMA EmbeddedAgree ==
  ASSUME NEW small, NEW large, NEW x, NEW f,
         DOMAIN small \subseteq Int, DOMAIN large \subseteq Int,
         \A j \in DOMAIN small : f[j] \in DOMAIN large /\ large[f[j]] = small[j],
         \A j, k \in DOMAIN small : j < k => f[j] < f[k],
         \A k \in DOMAIN large : large[k] = x \/ \E j \in DOMAIN small : f[j] = k
  PROVE  AgreeBut(small, large, x) /\ AgreeBut(large, small, x)
<1>1. Listed(small) \ {x} = Listed(large) \ {x}
  <2>1. ASSUME NEW y \in Listed(small) PROVE y \in Listed(large)
    BY <2>1 DEF Listed
  <2>2. ASSUME NEW y \in Listed(large), y # x PROVE y \in Listed(small)
    BY <2>2 DEF Listed
  <2>3. QED
    BY <2>1, <2>2
<1>2. ASSUME NEW a, NEW b, a # x, b # x, Precedes(small, a, b) PROVE Precedes(large, a, b)
  BY <1>2 DEF Precedes
<1>3. ASSUME NEW a, NEW b, a # x, b # x, Precedes(large, a, b) PROVE Precedes(small, a, b)
  <2>1. PICK i \in DOMAIN large, j \in DOMAIN large :
          i < j /\ large[i] = a /\ large[j] = b
    BY <1>3 DEF Precedes
  <2>2. PICK k \in DOMAIN small : f[k] = i
    BY <1>3, <2>1
  <2>3. PICK l \in DOMAIN small : f[l] = j
    BY <1>3, <2>1
  <2>4. k # l /\ ~(l < k)
    BY <2>1, <2>2, <2>3
  <2>5. k < l
    BY <2>4
  <2>6. small[k] = a /\ small[l] = b
    BY <2>1, <2>2, <2>3
  <2>7. QED
    BY <2>5, <2>6 DEF Precedes
<1>4. QED
  BY <1>1, <1>2, <1>3 DEF AgreeBut

LEMMA AgreeTwice ==
  ASSUME NEW a, NEW b, NEW c, NEW x, AgreeBut(a, b, x), AgreeBut(b, c, x)
  PROVE  AgreeBut(a, c, x)
  BY DEF AgreeBut

(* Taking an item out, putting it in and appending it leave the others as they are. *)
LEMMA WithoutIndexAgrees ==
  ASSUME NEW queue \in Seq(Item), NEW i \in DOMAIN queue
  PROVE  AgreeBut(queue, WithoutIndex(queue, i), queue[i])
<1> DEFINE n == Len(queue)
           rest == WithoutIndex(queue, i)
           f == [j \in 1..n - 1 |-> IF j < i THEN j ELSE j + 1]
<1>1. /\ n \in Nat /\ i \in 1..n /\ DOMAIN queue = 1..n /\ DOMAIN rest = 1..n - 1
      /\ \A j \in 1..n - 1 : rest[j] = queue[IF j < i THEN j ELSE j + 1]
  BY WithoutIndexElements
<1> HIDE DEF n, rest
<1>2. \A j \in 1..n - 1 : f[j] \in 1..n /\ queue[f[j]] = rest[j]
  BY <1>1
<1>3. \A j, k \in 1..n - 1 : j < k => f[j] < f[k]
  BY <1>1
<1>4. ASSUME NEW k \in 1..n PROVE queue[k] = queue[i] \/ \E j \in 1..n - 1 : f[j] = k
  <2>1. CASE k = i
    BY <2>1
  <2>2. CASE k < i
    <3>1. k \in 1..n - 1 /\ f[k] = k
      BY <1>1, <2>2
    <3>2. QED
      BY <3>1
  <2>3. CASE k > i
    <3>1. k - 1 \in 1..n - 1 /\ f[k - 1] = k
      BY <1>1, <2>3
    <3>2. QED
      BY <3>1
  <2>4. QED
    BY <1>1, <2>1, <2>2, <2>3
<1>5. DOMAIN rest \subseteq Int /\ DOMAIN queue \subseteq Int
  BY <1>1
<1> DEFINE x == queue[i]
<1> HIDE DEF f
<1>6. /\ \A j \in DOMAIN rest : f[j] \in DOMAIN queue /\ queue[f[j]] = rest[j]
      /\ \A j, k \in DOMAIN rest : j < k => f[j] < f[k]
      /\ \A k \in DOMAIN queue : queue[k] = x \/ \E j \in DOMAIN rest : f[j] = k
  BY <1>1, <1>2, <1>3, <1>4
<1> HIDE DEF x
<1>7. AgreeBut(queue, rest, x)
  BY <1>5, <1>6, EmbeddedAgree
<1>8. QED
  BY <1>7 DEF rest, x

LEMMA InsertedAgrees ==
  ASSUME NEW queue \in Seq(Item), NEW to_index \in Nat, NEW item \in Item
  PROVE  /\ AgreeBut(queue, Inserted(queue, to_index, item), item)
         /\ item \in Listed(Inserted(queue, to_index, item))
<1> DEFINE n == Len(queue)
           all == Inserted(queue, to_index, item)
<1>1. n \in Nat /\ DOMAIN queue = 1..n /\ DOMAIN all = 1..n + 1
  BY InsertedElements
<1>2. PICK at \in 0..n : \A j \in 1..n + 1 :
        all[j] = IF j = at + 1 THEN item ELSE queue[IF j <= at THEN j ELSE j - 1]
  BY InsertedElements
<1> DEFINE f == [j \in 1..n |-> IF j <= at THEN j ELSE j + 1]
<1> HIDE DEF n, all
<1>3. ASSUME NEW j \in 1..n PROVE f[j] \in 1..n + 1 /\ all[f[j]] = queue[j]
  <2>1. CASE j <= at
    <3>1. f[j] = j /\ j \in 1..n + 1 /\ j # at + 1
      BY <1>1, <2>1
    <3>2. QED
      BY <1>2, <2>1, <3>1
  <2>2. CASE j > at
    <3>1. f[j] = j + 1 /\ j + 1 \in 1..n + 1 /\ j + 1 # at + 1
          /\ ~(j + 1 <= at) /\ j + 1 - 1 = j
      BY <1>1, <2>2
    <3>2. all[j + 1] = queue[j + 1 - 1]
      BY <1>2, <3>1
    <3>3. QED
      BY <3>1, <3>2
  <2>3. QED
    BY <1>1, <2>1, <2>2
<1>4. \A j, k \in 1..n : j < k => f[j] < f[k]
  BY <1>1
<1>5. ASSUME NEW k \in 1..n + 1 PROVE all[k] = item \/ \E j \in 1..n : f[j] = k
  <2>1. CASE k = at + 1
    BY <1>2, <2>1
  <2>2. CASE k <= at
    <3>1. k \in 1..n /\ f[k] = k
      BY <1>1, <2>2
    <3>2. QED
      BY <3>1
  <2>3. CASE k > at + 1
    <3>1. k - 1 \in 1..n /\ f[k - 1] = k
      BY <1>1, <2>3
    <3>2. QED
      BY <3>1
  <2>4. QED
    BY <1>1, <2>1, <2>2, <2>3
<1>6. DOMAIN queue \subseteq Int /\ DOMAIN all \subseteq Int
  BY <1>1
<1>7. at + 1 \in DOMAIN all /\ all[at + 1] = item
  BY <1>1, <1>2
<1> HIDE DEF f
<1>8. AgreeBut(queue, all, item)
  BY <1>1, <1>3, <1>4, <1>5, <1>6, EmbeddedAgree
<1>9. item \in Listed(all)
  BY <1>7 DEF Listed
<1>10. QED
  BY <1>8, <1>9 DEF all

LEMMA AppendAgrees ==
  ASSUME NEW queue \in Seq(Item), NEW item \in Item
  PROVE  AgreeBut(queue, Append(queue, item), item) /\ item \in Listed(Append(queue, item))
<1> DEFINE n == Len(queue)
           all == Append(queue, item)
           f == [j \in 1..n |-> j]
<1>1. n \in Nat /\ DOMAIN queue = 1..n
  BY LenProperties
<1>2. /\ all \in Seq(Item) /\ Len(all) = n + 1 /\ all[n + 1] = item
      /\ \A j \in 1..n : all[j] = queue[j]
  BY AppendProperties
<1>3. DOMAIN all = 1..n + 1
  BY <1>2, LenProperties
<1> HIDE DEF n, all
<1>4. \A j \in 1..n : f[j] \in 1..n + 1 /\ all[f[j]] = queue[j]
  BY <1>1, <1>2
<1>5. \A j, k \in 1..n : j < k => f[j] < f[k]
  BY <1>1
<1>6. \A k \in 1..n + 1 : all[k] = item \/ \E j \in 1..n : f[j] = k
  BY <1>1, <1>2
<1>7. DOMAIN queue \subseteq Int /\ DOMAIN all \subseteq Int /\ n + 1 \in DOMAIN all
  BY <1>1, <1>3
<1> HIDE DEF f
<1>8. AgreeBut(queue, all, item)
  BY <1>1, <1>3, <1>4, <1>5, <1>6, <1>7, EmbeddedAgree
<1>9. item \in Listed(all)
  BY <1>2, <1>7 DEF Listed
<1>10. QED
  BY <1>8, <1>9 DEF all

(* A vote that runs takes its item out, and puts it in again if it is a move. *)
LEMMA ResolveAgrees ==
  ASSUME NEW m \in Music, NEW n
  PROVE  LET after == ResolveActiveVote(m, n).queue
             action == m.active_vote.proposal.action
         IN  \/ after = m.queue
             \/ /\ m.active_vote # NoVote /\ Resolution(m, n) = "Passed"
                /\ AgreeBut(m.queue, after, action.item)
                /\ action.item \in Listed(m.queue)
                /\ \/ action = [kind |-> "Remove", item |-> action.item]
                   \/ action.item \in Listed(after)
<1> DEFINE closed == [m EXCEPT !.active_vote = NoVote]
           proposal == m.active_vote.proposal
           after == ResolveActiveVote(m, n).queue
<1>1. closed \in Music /\ closed.queue = m.queue
  BY DEF Music
<1>2. CASE ~ExecutesVote(m, n)
  BY <1>1, <1>2 DEF ResolveActiveVote
<1>3. CASE ExecutesVote(m, n)
  <2>1. m.active_vote # NoVote /\ Resolution(m, n) = "Passed"
    BY <1>3 DEF ExecutesVote, Resolution
  <2>2. proposal \in VoteProposal /\ proposal.action \in VoteAction
    BY <2>1 DEF Music, ActiveVote, VoteProposal
  <2> DEFINE item == proposal.action.item
             i == Position(m.queue, item)
             rest == WithoutIndex(m.queue, i)
             moved == IF proposal.action.kind = "Remove" THEN rest
                      ELSE Inserted(rest, proposal.action.to_index, item)
  <2>3. InQueue(m.queue, item)
    <3>1. ~IsStale(m, proposal)
      BY <1>3 DEF ExecutesVote
    <3>2. ~(proposal.queue_version > m.queue_version)
      BY <2>1 DEF Resolution, ReadyVoteWaitingForQueue, TerminalOutcome
    <3>3. proposal.queue_version \in Nat /\ m.queue_version \in Nat
      BY <2>2 DEF VoteProposal, Music
    <3>4. QED
      BY <3>1, <3>2, <3>3 DEF IsStale
  <2>4. m.queue \in Seq(Item) /\ i \in DOMAIN m.queue /\ m.queue[i] = item
    BY <2>3 DEF Music, InQueue, Position
  <2>5. rest \in Seq(Item) /\ AgreeBut(m.queue, rest, item)
    BY <2>4, WithoutIndexType, WithoutIndexAgrees
  <2>6. item \in Listed(m.queue)
    BY <2>4 DEF Listed
  <2>7. ResolveActiveVote(m, n)
          = MarkQueueChanged([closed EXCEPT !.queue = moved], proposal.created_at)
    BY <1>1, <1>3, <2>1 DEF ResolveActiveVote, ExecuteVoteAction
  <2>8. after = moved
    <3> DEFINE edited == [closed EXCEPT !.queue = moved]
    <3>1. /\ edited.queue = moved
          /\ DOMAIN edited = {"queue", "queue_version", "queue_updated_at", "active_vote"}
      BY <1>1 DEF Music
    <3> HIDE DEF edited
    <3>2. MarkQueueChanged(edited, proposal.created_at).queue = moved
      BY <3>1 DEF MarkQueueChanged
    <3>3. QED
      BY <2>7, <3>2 DEF edited
  <2>9. CASE proposal.action.kind = "Remove"
    <3>1. proposal.action = [kind |-> "Remove", item |-> item]
      BY <2>2, <2>9 DEF VoteAction
    <3>2. moved = rest
      BY <2>9
    <3>3. QED
      BY <2>1, <2>5, <2>6, <2>8, <3>1, <3>2
  <2>10. CASE proposal.action.kind # "Remove"
    <3>1. item \in Item /\ proposal.action.to_index \in Nat
      BY <2>2, <2>10 DEF VoteAction
    <3>2. moved = Inserted(rest, proposal.action.to_index, item)
      BY <2>10
    <3> HIDE DEF rest, item, moved
    <3>3. AgreeBut(rest, moved, item) /\ item \in Listed(moved)
      BY <2>5, <3>1, <3>2, InsertedAgrees
    <3>4. AgreeBut(m.queue, moved, item)
      BY <2>5, <3>3, AgreeTwice
    <3>5. QED
      BY <2>1, <2>6, <2>8, <3>3, <3>4 DEF item
  <2>11. QED
    BY <2>9, <2>10
<1>4. QED
  BY <1>2, <1>3

LEMMA PublishKeepsTheRest ==
  ASSUME TypeOK, NEW p \in Peer, NEW m, NEW received, NEW sent, NEW asked,
         Publish(p, m, received, sent, asked),
         \E before \in Starts(p) : ChangesOneItem(p, before, m.queue)
  PROVE  \A q \in Peer : KeepsTheRest(q)
<1>1. music' = [music EXCEPT ![p] = m] /\ music \in [Peer -> Music]
  BY DEF Publish, TypeOK
<1>2. ASSUME NEW q \in Peer, q # p PROVE KeepsTheRest(q)
  <2>1. music'[q] = music[q]
    BY <1>1, <1>2
  <2>2. music[q].queue \in Starts(q)
    BY DEF Starts
  <2>3. QED
    BY <2>1, <2>2 DEF KeepsTheRest, ChangesOneItem
<1>3. music'[p] = m
  BY <1>1
<1>4. QED
  BY <1>2, <1>3 DEF KeepsTheRest

(* A handler that ends in resolve_active_vote may run the vote p held, or the one it
   opened if p is alone. *)
LEMMA ResolveKeepsTheRest ==
  ASSUME TypeOK, NEW p \in Peer, NEW m \in Music, NEW received, NEW sent,
         ResolveVote(p, m, received, sent),
         m.queue \in Starts(p),
         \/ m.active_vote = NoVote
         \/ /\ music[p].active_vote # NoVote
            /\ m.active_vote.proposal = music[p].active_vote.proposal
         \/ /\ clock' # clock
            /\ Resolution(m, RoomPeerCount(p)) = "Passed" => RoomPeerCount(p) = 1
  PROVE  \A q \in Peer : KeepsTheRest(q)
<1> DEFINE after == ResolveActiveVote(m, RoomPeerCount(p))
           action == m.active_vote.proposal.action
<1>1. ChangesOneItem(p, m.queue, after.queue)
  <2>1. CASE after.queue = m.queue
    BY <2>1 DEF ChangesOneItem
  <2>2. CASE after.queue # m.queue
    <3>1. /\ m.active_vote # NoVote /\ Resolution(m, RoomPeerCount(p)) = "Passed"
          /\ AgreeBut(m.queue, after.queue, action.item)
          /\ action.item \in Listed(m.queue)
          /\ \/ action = [kind |-> "Remove", item |-> action.item]
             \/ action.item \in Listed(after.queue)
      BY <2>2, ResolveAgrees
    <3>2. action.item \notin Listed(after.queue) => MayLose(p, action.item)
      BY <3>1 DEF MayLose
    <3>3. QED
      BY <3>1, <3>2 DEF ChangesOneItem
  <2>3. QED
    BY <2>1, <2>2
<1>2. PICK more, asked : Publish(p, after, received, more, asked)
  BY DEF ResolveVote
<1> HIDE DEF after
<1>3. QED
  BY <1>1, <1>2, PublishKeepsTheRest

LEMMA CommandsKeepTheRest ==
  ASSUME TypeOK, NEW p \in Peer,
         EnqueueBilibili(p) \/ \E i \in DOMAIN music[p].queue : RemoveQueueItem(p, i)
  PROVE  \A q \in Peer : KeepsTheRest(q)
<1>0. music[p] \in Music /\ music[p].queue \in Seq(Item) /\ clock \in Nat
  BY DEF TypeOK, Music
<1>1. PICK queue :
        /\ ChangesOneItem(p, music[p].queue, queue)
        /\ LET m == MarkQueueChanged([music[p] EXCEPT !.queue = queue], clock)
           IN  Publish(p, m, {}, {QueueStateMessage(m)}, {})
  <2>1. CASE EnqueueBilibili(p)
    <3> DEFINE item == [requested_by |-> p, added_at |-> clock]
               queue == Append(music[p].queue, item)
    <3>1. item \in Item
      BY <1>0 DEF Item
    <3> HIDE DEF item
    <3>2. AgreeBut(music[p].queue, queue, item) /\ item \in Listed(queue)
      BY <1>0, <3>1, AppendAgrees
    <3>3. ChangesOneItem(p, music[p].queue, queue)
      BY <3>2 DEF ChangesOneItem
    <3>4. QED
      BY <2>1, <3>3 DEF EnqueueBilibili, item
  <2>2. CASE \E i \in DOMAIN music[p].queue : RemoveQueueItem(p, i)
    <3>1. PICK i \in DOMAIN music[p].queue : RemoveQueueItem(p, i)
      BY <2>2
    <3> DEFINE queue == WithoutIndex(music[p].queue, i)
               item == music[p].queue[i]
    <3>2. AgreeBut(music[p].queue, queue, item) /\ item \in Listed(music[p].queue)
      BY <1>0, WithoutIndexAgrees DEF Listed
    <3>3. item.requested_by = p /\ clock' # clock
      BY <1>0, <3>1 DEF RemoveQueueItem
    <3>4. MayLose(p, item)
      BY <3>3 DEF MayLose
    <3>5. ChangesOneItem(p, music[p].queue, queue)
      BY <3>2, <3>4 DEF ChangesOneItem
    <3>6. QED
      BY <3>1, <3>5 DEF RemoveQueueItem
  <2>3. QED
    BY <2>1, <2>2
<1> DEFINE edited == [music[p] EXCEPT !.queue = queue]
           m == MarkQueueChanged(edited, clock)
<1>2. edited.queue = queue
      /\ DOMAIN edited = {"queue", "queue_version", "queue_updated_at", "active_vote"}
  BY <1>0 DEF Music
<1> HIDE DEF edited
<1>3. m.queue = queue
  BY <1>2 DEF MarkQueueChanged
<1>4. Publish(p, m, {}, {QueueStateMessage(m)}, {})
  BY <1>1 DEF edited
<1>5. music[p].queue \in Starts(p)
  BY DEF Starts
<1> HIDE DEF m
<1>6. QED
  BY <1>1, <1>3, <1>4, <1>5, PublishKeepsTheRest

(* A vote that passes with its proposer's approval alone was opened in a room of one. *)
LEMMA PassesAlone ==
  ASSUME TypeOK, NEW p \in Peer, NEW m \in Music, NEW proposal \in VoteProposal,
         m.active_vote = NewVote(proposal), proposal.proposer = p,
         Resolution(m, RoomPeerCount(p)) = "Passed"
  PROVE  RoomPeerCount(p) = 1
<1> DEFINE n == RoomPeerCount(p)
<1>1. HasMajority(m.active_vote, n)
  BY DEF Resolution, TerminalOutcome
<1>2. m.active_vote.approvals = {p}
  BY DEF NewVote
<1>3. Cardinality({p}) = 1
  BY FS_Singleton
<1>4. connected[p] \cup {p} \in SUBSET Peer /\ {p} \in SUBSET (connected[p] \cup {p})
  BY DEF TypeOK
<1>5. n \in Nat /\ 1 <= n
  BY <1>3, <1>4, MorePeers DEF RoomPeerCount
<1> HIDE DEF n
<1>6. 1 >= n \div 2 + 1
  BY <1>1, <1>2, <1>3 DEF HasMajority, MajorityThreshold
<1>7. QED
  BY <1>5, <1>6 DEF n

LEMMA VotesKeepTheRest ==
  ASSUME TypeOK, NEW p \in Peer,
         \/ \E action \in VoteAction : ProposeVote(p, action)
         \/ \E approve \in BOOLEAN : Vote(p, approve)
         \/ \E msg \in inbox[p] : ReceiveVoteProposal(p, msg) \/ ReceiveVoteBallot(p, msg)
  PROVE  \A q \in Peer : KeepsTheRest(q)
<1>0. music[p] \in Music /\ clock \in Nat /\ music[p].queue \in Starts(p)
  BY DEF TypeOK, Starts
<1>1. \A vote \in ActiveVote \cup {NoVote} :
        LET m == [music[p] EXCEPT !.active_vote = vote]
        IN  m \in Music /\ m.queue = music[p].queue /\ m.active_vote = vote
  BY <1>0 DEF Music
<1>2. ASSUME NEW action \in VoteAction, ProposeVote(p, action)
      PROVE  \A q \in Peer : KeepsTheRest(q)
  <2> DEFINE proposal == [proposer |-> p, action |-> action,
                          queue_version |-> music[p].queue_version, created_at |-> clock]
             m == [music[p] EXCEPT !.active_vote = NewVote(proposal)]
             sent == {[type |-> "VoteProposal", proposal |-> proposal],
                      Approval(p, VoteId(proposal))}
  <2>1. proposal \in VoteProposal /\ proposal.proposer = p
    BY <1>0 DEF VoteProposal, Music
  <2>2. m \in Music /\ m.queue = music[p].queue /\ m.active_vote = NewVote(proposal)
    BY <1>1, <2>1, NewVoteType
  <2>3. ResolveVote(p, m, {}, sent) /\ clock' # clock
    BY <1>0, <1>2 DEF ProposeVote
  <2> HIDE DEF m, sent, proposal
  <2>4. Resolution(m, RoomPeerCount(p)) = "Passed" => RoomPeerCount(p) = 1
    BY <2>1, <2>2, PassesAlone
  <2>5. m.queue \in Starts(p)
    BY <1>0, <2>2
  <2>6. QED
    BY <2>2, <2>3, <2>4, <2>5, ResolveKeepsTheRest
<1>3. ASSUME NEW approve \in BOOLEAN, Vote(p, approve)
      PROVE  \A q \in Peer : KeepsTheRest(q)
  <2> DEFINE vote == music[p].active_vote
             ballot == [type |-> "VoteBallot", vote_id |-> VoteId(vote.proposal),
                        peer |-> p, approve |-> approve]
             m == [music[p] EXCEPT !.active_vote = CastBallot(vote, p, approve)]
  <2>1. vote \in ActiveVote /\ vote # NoVote
    BY <1>0, <1>3 DEF Vote, Music
  <2>2. /\ CastBallot(vote, p, approve) \in ActiveVote
        /\ CastBallot(vote, p, approve).proposal = vote.proposal
    BY <2>1, CastBallotType
  <2>3. /\ m \in Music /\ m.queue = music[p].queue
        /\ m.active_vote.proposal = vote.proposal
    BY <1>1, <2>2
  <2>4. ResolveVote(p, m, {}, {ballot})
    BY <1>3 DEF Vote
  <2> HIDE DEF m, ballot
  <2>5. m.queue \in Starts(p)
    BY <1>0, <2>3
  <2>6. QED
    BY <2>1, <2>3, <2>4, <2>5, ResolveKeepsTheRest
<1>4. ASSUME NEW msg \in inbox[p], ReceiveVoteProposal(p, msg)
      PROVE  \A q \in Peer : KeepsTheRest(q)
  <2>1. msg.proposal \in VoteProposal
    BY <1>4 DEF ReceiveVoteProposal, TypeOK, Message, Ballot
  <2>2. PICK m, asked : Publish(p, m, {msg}, {}, asked) /\ m.queue = music[p].queue
    <3> DEFINE opened == [music[p] EXCEPT !.active_vote = NewVote(msg.proposal)]
               asked == Asked(p, ContextNeeded(music[p], msg.proposal))
    <3>1. opened.queue = music[p].queue
      BY <1>1, <2>1, NewVoteType
    <3>2. \/ Publish(p, opened, {msg}, {}, asked)
          \/ Publish(p, music[p], {msg}, {}, {})
      BY <1>4 DEF ReceiveVoteProposal
    <3> HIDE DEF opened, asked
    <3>3. QED
      BY <3>1, <3>2
  <2>3. ChangesOneItem(p, music[p].queue, m.queue)
    BY <2>2 DEF ChangesOneItem
  <2>4. QED
    BY <1>0, <2>2, <2>3, PublishKeepsTheRest
<1>5. ASSUME NEW msg \in inbox[p], ReceiveVoteBallot(p, msg)
      PROVE  \A q \in Peer : KeepsTheRest(q)
  <2> DEFINE vote == music[p].active_vote
             m == CastVoteFor(music[p], msg)
  <2>1. msg \in Ballot
    BY <1>5 DEF ReceiveVoteBallot, TypeOK, Message
  <2>2. vote # NoVote =>
          /\ CastBallot(vote, msg.peer, msg.approve) \in ActiveVote
          /\ CastBallot(vote, msg.peer, msg.approve).proposal = vote.proposal
    BY <1>0, <2>1, CastBallotType DEF Music, Ballot
  <2>3. /\ m \in Music /\ m.queue = music[p].queue
        /\ m.active_vote # NoVote =>
             vote # NoVote /\ m.active_vote.proposal = vote.proposal
    BY <1>0, <1>1, <2>2 DEF CastVoteFor
  <2>4. ResolveVote(p, m, {msg}, {})
    BY <1>5 DEF ReceiveVoteBallot
  <2> HIDE DEF m
  <2>5. m.queue \in Starts(p)
    BY <1>0, <2>3
  <2>6. QED
    BY <2>3, <2>4, <2>5, ResolveKeepsTheRest
<1>6. QED
  BY <1>2, <1>3, <1>4, <1>5

(* A queue that is taken over as a whole may be changed by the vote p holds. *)
LEMMA ReceivingKeepsTheRest ==
  ASSUME TypeOK, NEW p \in Peer, NEW msg \in inbox[p],
         \/ ReceiveQueueState(p, msg)
         \/ ReceiveQueueSummary(p, msg)
         \/ ReceiveQueueRequest(p, msg)
  PROVE  \A q \in Peer : KeepsTheRest(q)
<1>0. music[p] \in Music /\ music[p].queue \in Starts(p)
  BY DEF TypeOK, Starts
<1>1. ChangesOneItem(p, music[p].queue, music[p].queue)
  BY DEF ChangesOneItem
<1>2. CASE ReceiveQueueState(p, msg) /\ AppliesQueueState(music[p], msg.state)
  <2> DEFINE m == ApplyRemoteQueueState(music[p], msg.state)
  <2>1. msg \in QueueMessagesAt(p)
    BY <1>2 DEF ReceiveQueueState, QueueMessagesAt
  <2>2. msg.state \in QueueState
    BY <2>1, CopiesType DEF Copies, UnderWay
  <2>3. m \in Music /\ m.active_vote \in {music[p].active_vote, NoVote}
    BY <1>0, <2>2, ApplyType
  <2>4. m.queue = msg.state.items
    BY <1>0, <2>2 DEF ApplyRemoteQueueState, InvalidateStaleQueueVote, Music
  <2>5. ResolveVote(p, m, {msg}, {})
    BY <1>2 DEF ReceiveQueueState
  <2> HIDE DEF m
  <2>6. inbox'[p] = inbox[p] \ {msg}
    BY <2>5 DEF ResolveVote, Publish, Gossip
  <2>7. m.queue \in Starts(p)
    BY <1>2, <2>1, <2>4, <2>6 DEF Starts
  <2>8. QED
    BY <2>3, <2>5, <2>7, ResolveKeepsTheRest
<1>3. CASE ReceiveQueueState(p, msg) /\ ~AppliesQueueState(music[p], msg.state)
  <2>1. Publish(p, music[p], {msg}, {}, {})
    BY <1>3 DEF ReceiveQueueState
  <2>2. QED
    BY <1>0, <1>1, <2>1, PublishKeepsTheRest
<1>4. CASE ReceiveQueueSummary(p, msg) \/ ReceiveQueueRequest(p, msg)
  <2>1. PICK sent, asked : Publish(p, music[p], {msg}, sent, asked)
    BY <1>4 DEF ReceiveQueueSummary, ReceiveQueueRequest
  <2>2. QED
    BY <1>0, <1>1, <2>1, PublishKeepsTheRest
<1>5. QED
  BY <1>2, <1>3, <1>4

LEMMA TimersKeepTheRest ==
  ASSUME TypeOK, NEW p \in Peer, Timer(p) \/ Connection(p)
  PROVE  \A q \in Peer : KeepsTheRest(q)
<1>0. music[p] \in Music /\ music[p].queue \in Starts(p)
  BY DEF TypeOK, Starts
<1>1. ASSUME NEW m, NEW sent, Publish(p, m, {}, sent, {}), m.queue = music[p].queue
      PROVE  \A q \in Peer : KeepsTheRest(q)
  <2>1. ChangesOneItem(p, music[p].queue, m.queue)
    BY <1>1 DEF ChangesOneItem
  <2>2. QED
    BY <1>0, <1>1, <2>1, PublishKeepsTheRest
<1>2. CASE PublishQueueSummary(p) \/ PublishQueueSnapshot(p)
  <2>1. PICK sent : Publish(p, music[p], {}, sent, {})
    BY <1>2 DEF PublishQueueSummary, PublishQueueSnapshot
  <2>2. QED
    BY <1>1, <2>1
<1>3. CASE VoteTimeout(p)
  <2> DEFINE m == [music[p] EXCEPT !.active_vote = NoVote]
  <2>1. m.queue = music[p].queue
    BY <1>0 DEF Music
  <2>2. Publish(p, m, {}, {}, {})
    BY <1>3 DEF VoteTimeout
  <2> HIDE DEF m
  <2>3. QED
    BY <1>1, <2>1, <2>2
<1>4. CASE MusicLocalTick(p)
  <2>1. ResolveVote(p, music[p], {}, {})
    BY <1>4 DEF MusicLocalTick
  <2>2. QED
    BY <1>0, <2>1, ResolveKeepsTheRest
<1>5. CASE (\E q \in Peer : RequestCooldownElapsed(p, q)) \/ Connection(p)
  <2>1. music' = music
    BY <1>5 DEF RequestCooldownElapsed, Connection, ConnectionEstablished,
                ConnectionClosed
  <2>2. QED
    BY <2>1 DEF KeepsTheRest, Starts, ChangesOneItem
<1>6. QED
  BY <1>2, <1>3, <1>4, <1>5 DEF Timer

LEMMA NextKeepsTheRest ==
  ASSUME TypeOK, Next
  PROVE  \A q \in Peer : KeepsTheRest(q)
<1>1. PICK p \in Peer : Command(p) \/ Receive(p) \/ Timer(p) \/ Connection(p)
  BY DEF Next
<1>2. music[p].queue \in Seq(Item)
  BY DEF TypeOK, Music
<1>3. CASE Command(p)
  <2>1. CASE EnqueueBilibili(p) \/ \E i \in DOMAIN music[p].queue : RemoveQueueItem(p, i)
    BY <2>1, CommandsKeepTheRest
  <2>2. CASE \E approve \in BOOLEAN : Vote(p, approve)
    BY <2>2, VotesKeepTheRest
  <2>3. ASSUME NEW i \in DOMAIN music[p].queue,
               \/ ProposeRemove(p, i)
               \/ \E to_index \in MoveTargets : ProposeMove(p, i, to_index)
        PROVE  \E action \in VoteAction : ProposeVote(p, action)
    <3>1. music[p].queue[i] \in Item
      BY <1>2, ElementOfSeq, LenProperties
    <3>2. \A to_index \in MoveTargets :
            [kind |-> "Move", item |-> music[p].queue[i], to_index |-> to_index]
              \in VoteAction
      BY <3>1, BoundsAssumption DEF VoteAction
    <3>3. [kind |-> "Remove", item |-> music[p].queue[i]] \in VoteAction
      BY <3>1 DEF VoteAction
    <3>4. QED
      BY <2>3, <3>2, <3>3 DEF ProposeRemove, ProposeMove
  <2>4. QED
    BY <1>3, <2>1, <2>2, <2>3, VotesKeepTheRest DEF Command
<1>4. CASE Receive(p)
  BY <1>4, VotesKeepTheRest, ReceivingKeepsTheRest DEF Receive
<1>5. CASE Timer(p) \/ Connection(p)
  BY <1>5, TimersKeepTheRest
<1>6. QED
  BY <1>1, <1>3, <1>4, <1>5

(* Whatever is enqueued, removed, moved and adopted, and however many votes run on what
   arrives, a step of a room of any size changes one item of a queue at most, and loses
   one only by its owner's hand or a vote to remove it (execute_vote_action,
   remove_queue_item, apply_remote_queue_state). *)
THEOREM TheRestIsKept == Spec => QueuesKeepTheRest
<1> DEFINE Kept == \A p \in Peer : KeepsTheRest(p)
<1>1. TypeOK /\ [Next]_vars => TypeOK' /\ (Kept \/ UNCHANGED vars)
  <2>1. ASSUME TypeOK, Next PROVE TypeOK' /\ Kept
    BY <2>1, NextMovesVotes, NextKeepsTheRest
  <2>2. ASSUME TypeOK, UNCHANGED vars PROVE TypeOK'
    BY <2>2 DEF vars, TypeOK
  <2>3. QED
    BY <2>1, <2>2
<1>2. QED
  BY <1>1, InitType, PTL DEF Spec, QueuesKeepTheRest
-----------------------------------------------------------------------------
(* Stamps of changes and stamps of votes *)

(* A vote's time is that of its ballots, and a stamp that is no vote's tells a queue. *)
StampsInv ==
  /\ VersionsInv
  /\ \A v \in Known : v.created_at \in VoteTimes
  /\ \A c, d \in Copies :
       /\ c.version = d.version /\ c.updated_at = d.updated_at
       /\ c.updated_at \notin VoteTimes
       => c = d

LEMMA BallotsGrow ==
  ASSUME TypeOK, [Next]_vars
  PROVE  VoteTimes \subseteq VoteTimes'
<1>1. ballots \subseteq ballots'
  <2>1. CASE Next
    BY <2>1, NextMovesVotes DEF VotesMove, Quiet, Opens, Votes, LearnsOf, Counts
  <2>2. CASE UNCHANGED vars
    BY <2>2 DEF vars
  <2>3. QED
    BY <2>1, <2>2
<1>2. QED
  BY <1>1 DEF VoteTimes

(* Votes stamp with their own time; a change by hand with one no queue has yet. *)
LEMMA StampsHold ==
  /\ Init => StampsInv
  /\ StampsInv /\ [Next]_vars => StampsInv'
<1>1. ASSUME Init PROVE StampsInv
  <2>1. Known = {}
    BY <1>1 DEF Init, InitMusic, Known, VoteOf, ProposedIn
  <2>2. \A c, d \in Copies : c.version = d.version /\ c.updated_at = d.updated_at => c = d
    BY <1>1, InitShared DEF Inv, StampsTell
  <2>3. QED
    BY <1>1, <2>1, <2>2, VersionsHold DEF StampsInv
<1>2. ASSUME StampsInv, [Next]_vars PROVE StampsInv'
  <2>1. VersionsInv' /\ TypeOK /\ VoteTimes \subseteq VoteTimes'
    BY <1>2, VersionsHold, BallotsGrow DEF StampsInv, VersionsInv
  <2>2. \A c \in Copies : c.updated_at \in Nat /\ c.updated_at < clock
    BY <1>2, CopiesType DEF StampsInv, VersionsInv, AllArePast, Copies, QueueState
  <2>3. clock \in Nat
    BY <2>1 DEF TypeOK
  <2>4. ASSUME Known' \subseteq Known, clock' = clock,
               \A c \in Copies' \ Copies : \E v \in Known : Stamped(c, v)
        PROVE  StampsInv'
    <3>1. \A c \in Copies' : c \in Copies \/ c.updated_at \in VoteTimes
      BY <1>2, <2>4 DEF StampsInv, Stamped, StampedBy
    <3>2. QED
      BY <1>2, <2>1, <2>4, <3>1 DEF StampsInv
  <2>5. ASSUME ChangesQueue PROVE StampsInv'
    <3>1. PICK c \in QueueState : c.updated_at = clock /\ Copies' \subseteq Copies \cup {c}
      BY <2>5 DEF ChangesQueue
    <3>2. ASSUME NEW d \in Copies', NEW e \in Copies', d.version = e.version,
                 d.updated_at = e.updated_at, d.updated_at \notin VoteTimes'
          PROVE  d = e
      <4>1. CASE d \in Copies /\ e \in Copies
        BY <1>2, <2>1, <3>2, <4>1 DEF StampsInv
      <4>2. CASE d = c \/ e = c
        BY <2>2, <2>3, <3>1, <3>2, <4>2
      <4>3. QED
        BY <3>1, <4>1, <4>2
    <3>3. QED
      BY <1>2, <2>1, <2>5, <3>2 DEF StampsInv, ChangesQueue
  <2>6. ASSUME OpensVote PROVE StampsInv'
    <3>1. PICK v \in VoteProposal :
            /\ v.created_at = clock /\ v.created_at \in VoteTimes'
            /\ Known' \subseteq Known \cup {v}
            /\ \A c \in Copies' \ Copies : Stamped(c, v)
      BY <2>6 DEF OpensVote
    <3>2. \A c \in Copies' : c \in Copies \/ c.updated_at \in VoteTimes'
      BY <3>1 DEF Stamped, StampedBy
    <3>3. QED
      BY <1>2, <2>1, <3>1, <3>2 DEF StampsInv
  <2>7. CASE Next
    BY <2>1, <2>4, <2>5, <2>6, <2>7, NextVersions DEF RunsVotes
  <2>8. CASE UNCHANGED vars
    <3>1. Copies' = Copies /\ clock' = clock
      BY <2>8, CopiesStay DEF vars
    <3>2. Known' = Known
      BY <2>8 DEF vars, Known, VoteOf, ProposedIn
    <3>3. QED
      BY <2>4, <3>1, <3>2
  <2>9. QED
    BY <1>2, <2>7, <2>8
<1>3. QED
  BY <1>1, <1>2

(* In rooms of any size, with any number of changes and votes, two queues with one
   version and one time that is no vote's are one queue, so that peers that compare
   stamps alone stay apart after a vote only. *)
THEOREM StampsTellQueues == Spec => []SameStampSameQueue
<1>1. StampsInv => SameStampSameQueue
  <2> SUFFICES ASSUME StampsInv, NEW p \in Peer, NEW q \in Peer,
                      music[p].queue_version = music[q].queue_version,
                      music[p].queue_updated_at = music[q].queue_updated_at,
                      music[p].queue_updated_at \notin VoteTimes
               PROVE  music[p].queue = music[q].queue
    BY DEF SameStampSameQueue
  <2>1. Copy[p] \in Copies /\ Copy[q] \in Copies
    BY DEF Copies
  <2>2. Copy[p].version = Copy[q].version /\ Copy[p].updated_at = Copy[q].updated_at
        /\ Copy[p].updated_at \notin VoteTimes
    BY DEF Copy, BuildQueueState
  <2>3. Copy[p] = Copy[q]
    BY <2>1, <2>2 DEF StampsInv
  <2>4. QED
    BY <2>3 DEF Copy, BuildQueueState
<1>2. QED
  BY <1>1, StampsHold, PTL DEF Spec
=============================================================================
