-------------------------- MODULE MusicStateProofs --------------------------
(* What the operators of MusicState return, for the proofs about rooms. *)
EXTENDS MusicState, SequenceTheorems, FiniteSetTheorems, TLAPS

(* Taking an item out of a queue leaves a queue (VecDeque::remove). *)
LEMMA WithoutIndexType ==
  ASSUME NEW queue \in Seq(Item), NEW i \in DOMAIN queue
  PROVE  WithoutIndex(queue, i) \in Seq(Item)
<1>1. i \in 1..Len(queue) /\ Len(queue) \in Nat
  BY LenProperties
<1>2. SubSeq(queue, 1, i - 1) \in Seq(Item)
  BY <1>1, SubSeqProperties
<1>3. SubSeq(queue, i + 1, Len(queue)) \in Seq(Item)
  BY <1>1, SubSeqProperties
<1>4. QED
  BY <1>2, <1>3, ConcatProperties DEF WithoutIndex

(* Inserting an item at any requested place gives a queue (VecDeque::insert
   behind to_index.min(len)). *)
LEMMA InsertedType ==
  ASSUME NEW queue \in Seq(Item), NEW to_index \in Nat, NEW item \in Item
  PROVE  Inserted(queue, to_index, item) \in Seq(Item)
<1> DEFINE at == IF to_index > Len(queue) THEN Len(queue) ELSE to_index
<1>1. Len(queue) \in Nat /\ at \in 0..Len(queue)
  BY LenProperties
<1>2. SubSeq(queue, 1, at) \in Seq(Item)
  BY <1>1, SubSeqProperties
<1>3. SubSeq(queue, at + 1, Len(queue)) \in Seq(Item)
  BY <1>1, SubSeqProperties
<1>4. <<item>> \in Seq(Item)
  OBVIOUS
<1>5. SubSeq(queue, 1, at) \o <<item>> \in Seq(Item)
  BY <1>2, <1>4, ConcatProperties
<1>6. QED
  BY <1>3, <1>5, ConcatProperties DEF Inserted

(* An opened vote and a vote with one more ballot are votes (ActiveVote::new,
   ActiveVote::vote). *)
LEMMA NewVoteType ==
  ASSUME NEW proposal \in VoteProposal
  PROVE  NewVote(proposal) \in ActiveVote
  BY DEF NewVote, ActiveVote, VoteProposal

LEMMA CastBallotType ==
  ASSUME NEW vote \in ActiveVote, NEW peer \in Peer, NEW approve \in BOOLEAN
  PROVE  /\ CastBallot(vote, peer, approve) \in ActiveVote
         /\ CastBallot(vote, peer, approve).proposal = vote.proposal
  BY DEF CastBallot, ActiveVote

(* Counting the version up and stamping a time keeps a music state and its
   active vote (mark_queue_changed). *)
LEMMA MarkQueueChangedType ==
  ASSUME NEW m \in Music, NEW now \in Nat
  PROVE  /\ MarkQueueChanged(m, now) \in Music
         /\ MarkQueueChanged(m, now).active_vote = m.active_vote
<1>1. m.queue_version + 1 \in Nat
  BY DEF Music
<1> DEFINE version == m.queue_version + 1
<1>2. [m EXCEPT !.queue_version = version, !.queue_updated_at = now] \in Music
  BY <1>1, Zenon DEF Music
<1>3. [m EXCEPT !.queue_version = version, !.queue_updated_at = now].active_vote
        = m.active_vote
  BY DEF Music
<1>4. QED
  BY <1>2, <1>3 DEF MarkQueueChanged

(* Executing a vote on an item of the queue gives a music state with the same
   active vote (execute_vote_action). *)
LEMMA ExecuteType ==
  ASSUME NEW m \in Music, NEW proposal \in VoteProposal,
         InQueue(m.queue, proposal.action.item)
  PROVE  /\ ExecuteVoteAction(m, proposal) \in Music
         /\ ExecuteVoteAction(m, proposal).active_vote = m.active_vote
<1> DEFINE item == proposal.action.item
           rest == WithoutIndex(m.queue, Position(m.queue, item))
           moved == IF proposal.action.kind = "Remove" THEN rest
                    ELSE Inserted(rest, proposal.action.to_index, item)
<1>1. m.queue \in Seq(Item)
  BY DEF Music
<1>2. Position(m.queue, item) \in DOMAIN m.queue
  BY DEF InQueue, Position
<1>3. rest \in Seq(Item)
  BY <1>1, <1>2, WithoutIndexType
<1>4. proposal.action \in VoteAction
  BY DEF VoteProposal
<1>5. item \in Item
  BY <1>4 DEF VoteAction
<1>6. proposal.action.kind # "Remove" => proposal.action.to_index \in Nat
  BY <1>4 DEF VoteAction
<1>7. moved \in Seq(Item)
  BY <1>3, <1>5, <1>6, InsertedType
<1>8. proposal.created_at \in Nat
  BY DEF VoteProposal
<1>9. ExecuteVoteAction(m, proposal)
        = MarkQueueChanged([m EXCEPT !.queue = moved], proposal.created_at)
  BY DEF ExecuteVoteAction
<1> HIDE DEF moved
<1> DEFINE changed == [m EXCEPT !.queue = moved]
<1>10. changed \in Music /\ changed.active_vote = m.active_vote
  BY <1>7 DEF Music
<1> HIDE DEF changed
<1>11. /\ MarkQueueChanged(changed, proposal.created_at) \in Music
       /\ MarkQueueChanged(changed, proposal.created_at).active_vote
            = changed.active_vote
  BY <1>8, <1>10, MarkQueueChangedType
<1>12. QED
  BY <1>9, <1>10, <1>11 DEF changed

(* resolve_active_vote leaves a music state and keeps the active vote or
   closes it. *)
LEMMA ResolveType ==
  ASSUME NEW m \in Music, NEW n
  PROVE  /\ ResolveActiveVote(m, n) \in Music
         /\ ResolveActiveVote(m, n).active_vote \in {m.active_vote, NoVote}
<1> DEFINE closed == [m EXCEPT !.active_vote = NoVote]
<1>1. closed \in Music /\ closed.active_vote = NoVote /\ closed.queue = m.queue
  BY DEF Music
<1>2. CASE ExecutesVote(m, n)
  <2>1. m.active_vote # NoVote
    BY <1>2 DEF ExecutesVote, Resolution
  <2>2. m.active_vote \in ActiveVote
    BY <2>1 DEF Music
  <2>3. m.active_vote.proposal \in VoteProposal
    BY <2>2 DEF ActiveVote
  <2>4. InQueue(m.queue, m.active_vote.proposal.action.item)
    <3>1. ~ReadyVoteWaitingForQueue(m, n) /\ HasMajority(m.active_vote, n)
      BY <1>2, <2>1 DEF ExecutesVote, Resolution, TerminalOutcome
    <3>2. m.active_vote.proposal.queue_version <= m.queue_version
      BY <2>1, <2>3, <3>1 DEF ReadyVoteWaitingForQueue, VoteProposal, Music
    <3>3. QED
      BY <1>2, <2>3, <3>2 DEF ExecutesVote, IsStale, VoteProposal, Music
  <2>5. ResolveActiveVote(m, n) = ExecuteVoteAction(closed, m.active_vote.proposal)
    BY <1>2 DEF ResolveActiveVote, ExecutesVote
  <2>6. QED
    BY <1>1, <2>3, <2>4, <2>5, ExecuteType
<1>3. CASE ~ExecutesVote(m, n)
  BY <1>1, <1>3 DEF ResolveActiveVote
<1>4. QED
  BY <1>2, <1>3

(* Adopting a snapshot gives a music state that keeps the active vote or closes
   it (apply_remote_queue_state, invalidate_stale_queue_vote). *)
LEMMA ApplyType ==
  ASSUME NEW m \in Music, NEW s \in QueueState
  PROVE  /\ ApplyRemoteQueueState(m, s) \in Music
         /\ ApplyRemoteQueueState(m, s).active_vote \in {m.active_vote, NoVote}
  BY DEF ApplyRemoteQueueState, InvalidateStaleQueueVote, Music, QueueState
-----------------------------------------------------------------------------
(* What a queue holds, and that it holds nothing twice. *)
Held(queue) == {queue[i] : i \in DOMAIN queue}
Distinct(queue) == \A i, j \in DOMAIN queue : queue[i] = queue[j] => i = j

(* Taking out the item at i moves those behind it one place ahead. *)
LEMMA WithoutIndexElements ==
  ASSUME NEW queue \in Seq(Item), NEW i \in DOMAIN queue
  PROVE  LET n == Len(queue)
             rest == WithoutIndex(queue, i)
         IN  /\ n \in Nat /\ i \in 1..n /\ DOMAIN queue = 1..n
             /\ DOMAIN rest = 1..n - 1
             /\ \A j \in 1..n - 1 : rest[j] = queue[IF j < i THEN j ELSE j + 1]
<1> DEFINE n == Len(queue)
           front == SubSeq(queue, 1, i - 1)
           back == SubSeq(queue, i + 1, n)
           rest == WithoutIndex(queue, i)
           old(j) == IF j < i THEN j ELSE j + 1
<1>1. n \in Nat /\ i \in 1..n /\ DOMAIN queue = 1..n
  BY LenProperties
<1>2. \A j \in 1..n : queue[j] \in Item
  BY <1>1, ElementOfSeq
<1>3. /\ front \in Seq(Item) /\ Len(front) = i - 1
      /\ \A j \in 1..i - 1 : front[j] = queue[j]
  BY <1>1, <1>2, SubSeqProperties
<1>4. /\ back \in Seq(Item) /\ Len(back) = n - i
      /\ \A j \in 1..n - i : back[j] = queue[j + i]
  BY <1>1, <1>2, SubSeqProperties
<1>5. rest = front \o back
  BY DEF WithoutIndex
<1> HIDE DEF front, back, rest
<1>6. /\ rest \in Seq(Item) /\ Len(rest) = Len(front) + Len(back)
      /\ \A j \in 1..Len(front) + Len(back) :
           rest[j] = IF j <= Len(front) THEN front[j] ELSE back[j - Len(front)]
  BY <1>3, <1>4, <1>5, ConcatProperties
<1> HIDE DEF n
<1>7. Len(rest) = n - 1 /\ DOMAIN rest = 1..n - 1
  BY <1>1, <1>3, <1>4, <1>6, LenProperties
<1>8. ASSUME NEW j \in 1..n - 1 PROVE rest[j] = queue[old(j)]
  <2>1. CASE j < i
    <3>1. j \in 1..i - 1 /\ rest[j] = front[j]
      BY <1>1, <1>3, <1>4, <1>6, <2>1
    <3>2. QED
      BY <1>3, <2>1, <3>1
  <2>2. CASE j >= i
    <3>1. j - (i - 1) \in 1..n - i /\ j - (i - 1) + i = j + 1
      BY <1>1, <2>2
    <3>2. rest[j] = back[j - (i - 1)]
      BY <1>1, <1>3, <1>4, <1>6, <2>2
    <3>3. rest[j] = queue[j + 1]
      BY <1>4, <3>1, <3>2
    <3>4. QED
      BY <1>1, <2>2, <3>3
  <2>3. QED
    BY <1>1, <2>1, <2>2
<1>9. QED
  BY <1>1, <1>7, <1>8 DEF rest, n

(* Taking one item out of a queue leaves the others, each at one place. *)
LEMMA WithoutIndexHolds ==
  ASSUME NEW queue \in Seq(Item), NEW i \in DOMAIN queue, Distinct(queue)
  PROVE  /\ Distinct(WithoutIndex(queue, i))
         /\ Held(WithoutIndex(queue, i)) \subseteq Held(queue) \ {queue[i]}
<1> DEFINE n == Len(queue)
           rest == WithoutIndex(queue, i)
           old(j) == IF j < i THEN j ELSE j + 1
<1>1. /\ n \in Nat /\ i \in 1..n /\ DOMAIN queue = 1..n
      /\ DOMAIN rest = 1..n - 1 /\ \A j \in 1..n - 1 : rest[j] = queue[old(j)]
  BY WithoutIndexElements
<1> HIDE DEF n, rest
<1>2. \A j \in 1..n - 1 : old(j) \in 1..n /\ old(j) # i
  BY <1>1
<1>3. \A j, k \in 1..n - 1 : old(j) = old(k) => j = k
  BY <1>1
<1> HIDE DEF old
<1>4. Distinct(rest)
  BY <1>1, <1>2, <1>3 DEF Distinct
<1>5. Held(rest) \subseteq Held(queue) \ {queue[i]}
  BY <1>1, <1>2 DEF Held, Distinct
<1>6. QED
  BY <1>4, <1>5 DEF rest

(* Taking out the item at i leaves every other item in the queue. *)
LEMMA WithoutIndexKeeps ==
  ASSUME NEW queue \in Seq(Item), NEW i \in DOMAIN queue, NEW item,
         InQueue(queue, item), item # queue[i]
  PROVE  InQueue(WithoutIndex(queue, i), item)
<1> DEFINE n == Len(queue)
           rest == WithoutIndex(queue, i)
           old(j) == IF j < i THEN j ELSE j + 1
<1>1. /\ n \in Nat /\ i \in 1..n /\ DOMAIN queue = 1..n
      /\ DOMAIN rest = 1..n - 1 /\ \A j \in 1..n - 1 : rest[j] = queue[old(j)]
  BY WithoutIndexElements
<1>2. PICK k \in DOMAIN queue : queue[k] = item
  BY DEF InQueue
<1>3. k # i
  BY <1>2
<1> DEFINE j == IF k < i THEN k ELSE k - 1
<1> HIDE DEF n, rest
<1>4. j \in 1..n - 1 /\ old(j) = k
  BY <1>1, <1>2, <1>3
<1> HIDE DEF j, old
<1>5. rest[j] = item
  BY <1>1, <1>2, <1>4
<1>6. QED
  BY <1>1, <1>4, <1>5 DEF InQueue, rest

(* Putting in an item moves those behind its place one further. *)
LEMMA InsertedElements ==
  ASSUME NEW queue \in Seq(Item), NEW to_index \in Nat, NEW item \in Item
  PROVE  LET n == Len(queue)
             all == Inserted(queue, to_index, item)
         IN  /\ n \in Nat /\ DOMAIN queue = 1..n /\ DOMAIN all = 1..n + 1
             /\ \E at \in 0..n : \A j \in 1..n + 1 :
                  all[j] = IF j = at + 1 THEN item
                           ELSE queue[IF j <= at THEN j ELSE j - 1]
<1> DEFINE n == Len(queue)
           at == IF to_index > n THEN n ELSE to_index
           front == SubSeq(queue, 1, at)
           back == SubSeq(queue, at + 1, n)
           all == Inserted(queue, to_index, item)
           old(j) == IF j <= at THEN j ELSE j - 1
<1>1. n \in Nat /\ at \in 0..n /\ DOMAIN queue = 1..n
  BY LenProperties
<1>2. \A j \in 1..n : queue[j] \in Item
  BY <1>1, ElementOfSeq
<1>3. all = (front \o <<item>>) \o back
  BY DEF Inserted
<1> HIDE DEF n, at, all
<1>4. /\ front \in Seq(Item) /\ Len(front) = at
      /\ \A j \in 1..at : front[j] = queue[j]
  BY <1>1, <1>2, SubSeqProperties
<1>5. /\ back \in Seq(Item) /\ Len(back) = n - at
      /\ \A j \in 1..n - at : back[j] = queue[j + at]
  <2>1. at + 1 \in Int /\ n \in Int /\ \A j \in at + 1..n : queue[j] \in Item
    BY <1>1, <1>2
  <2>2. /\ back \in Seq(Item)
        /\ Len(back) = IF at + 1 <= n THEN n - (at + 1) + 1 ELSE 0
        /\ \A j \in 1..n - (at + 1) + 1 : back[j] = queue[at + 1 + j - 1]
    BY <2>1, SubSeqProperties
  <2>3. Len(back) = n - at
    BY <1>1, <2>2
  <2>4. ASSUME NEW j \in 1..n - at PROVE back[j] = queue[j + at]
    <3>1. j \in 1..n - (at + 1) + 1 /\ at + 1 + j - 1 = j + at
      BY <1>1
    <3>2. QED
      BY <2>2, <3>1
  <2>5. QED
    BY <2>2, <2>3, <2>4
<1> HIDE DEF front, back
<1>6. <<item>> \in Seq(Item) /\ Len(<<item>>) = 1 /\ <<item>>[1] = item
  OBVIOUS
<1>7. /\ front \o <<item>> \in Seq(Item) /\ Len(front \o <<item>>) = at + 1
      /\ \A j \in 1..at + 1 : (front \o <<item>>)[j] = IF j <= at THEN queue[j] ELSE item
  BY <1>1, <1>4, <1>6, ConcatProperties
<1>8. /\ all \in Seq(Item) /\ Len(all) = n + 1
      /\ \A j \in 1..n + 1 : all[j] = IF j = at + 1 THEN item ELSE queue[old(j)]
  <2> DEFINE most == front \o <<item>>
  <2>1. most \in Seq(Item) /\ Len(most) = at + 1
    BY <1>7
  <2>2. \A j \in 1..at + 1 : most[j] = IF j <= at THEN queue[j] ELSE item
    BY <1>7
  <2>3. all = most \o back
    BY <1>3
  <2> HIDE DEF most
  <2>4. /\ all \in Seq(Item) /\ Len(all) = Len(most) + Len(back)
        /\ \A j \in 1..Len(most) + Len(back) :
             all[j] = IF j <= Len(most) THEN most[j] ELSE back[j - Len(most)]
    BY <1>5, <2>1, <2>3, ConcatProperties
  <2>5. Len(all) = n + 1
    BY <1>1, <1>5, <2>1, <2>4
  <2>6. ASSUME NEW j \in 1..n + 1
        PROVE  all[j] = IF j = at + 1 THEN item ELSE queue[old(j)]
    <3>1. CASE j <= at + 1
      BY <1>1, <1>5, <2>1, <2>2, <2>4, <3>1
    <3>2. CASE j > at + 1
      <4>1. j - (at + 1) \in 1..n - at /\ j - (at + 1) + at = j - 1
        BY <1>1, <3>2
      <4>2. all[j] = back[j - (at + 1)]
        BY <1>1, <1>5, <2>1, <2>4, <3>2
      <4>3. QED
        BY <1>1, <1>5, <3>2, <4>1, <4>2
    <3>3. QED
      BY <1>1, <3>1, <3>2
  <2>7. QED
    BY <2>4, <2>5, <2>6
<1>9. DOMAIN all = 1..n + 1
  BY <1>8, LenProperties
<1>10. QED
  BY <1>1, <1>8, <1>9 DEF all, n

(* Putting in an item that is not there holds what was there and that item. *)
LEMMA InsertedHolds ==
  ASSUME NEW queue \in Seq(Item), NEW to_index \in Nat, NEW item \in Item,
         Distinct(queue), item \notin Held(queue)
  PROVE  /\ Distinct(Inserted(queue, to_index, item))
         /\ Held(Inserted(queue, to_index, item)) \subseteq Held(queue) \cup {item}
<1> DEFINE n == Len(queue)
           all == Inserted(queue, to_index, item)
<1>1. n \in Nat /\ DOMAIN queue = 1..n /\ DOMAIN all = 1..n + 1
  BY InsertedElements
<1>2. PICK at \in 0..n : \A j \in 1..n + 1 :
        all[j] = IF j = at + 1 THEN item ELSE queue[IF j <= at THEN j ELSE j - 1]
  BY InsertedElements
<1> DEFINE old(j) == IF j <= at THEN j ELSE j - 1
<1> HIDE DEF n, all
<1>3. \A j \in 1..n + 1 : j # at + 1 => old(j) \in 1..n
  BY <1>1
<1>4. \A j, k \in 1..n + 1 : j # at + 1 /\ k # at + 1 /\ old(j) = old(k) => j = k
  BY <1>1
<1>5. \A j \in 1..n + 1 : all[j] = IF j = at + 1 THEN item ELSE queue[old(j)]
  BY <1>2
<1> HIDE DEF old
<1>6. Distinct(all)
  BY <1>1, <1>3, <1>4, <1>5 DEF Distinct, Held
<1>7. Held(all) \subseteq Held(queue) \cup {item}
  BY <1>1, <1>3, <1>5 DEF Held
<1>8. QED
  BY <1>6, <1>7 DEF all

(* A vote on an item that is in a queue holding nothing twice leaves such a queue,
   with no item that was not there: moving takes the item out first
   (execute_vote_action). *)
LEMMA ExecuteHolds ==
  ASSUME NEW m \in Music, NEW proposal \in VoteProposal,
         InQueue(m.queue, proposal.action.item), Distinct(m.queue)
  PROVE  /\ Distinct(ExecuteVoteAction(m, proposal).queue)
         /\ Held(ExecuteVoteAction(m, proposal).queue) \subseteq Held(m.queue)
<1> DEFINE item == proposal.action.item
           i == Position(m.queue, item)
           rest == WithoutIndex(m.queue, i)
           moved == IF proposal.action.kind = "Remove" THEN rest
                    ELSE Inserted(rest, proposal.action.to_index, item)
<1>1. m.queue \in Seq(Item) /\ i \in DOMAIN m.queue /\ m.queue[i] = item
  BY DEF Music, InQueue, Position
<1>2. /\ rest \in Seq(Item) /\ Distinct(rest)
      /\ Held(rest) \subseteq Held(m.queue) \ {item}
  BY <1>1, WithoutIndexType, WithoutIndexHolds
<1>3. item \in Held(m.queue)
  BY <1>1 DEF Held
<1>4. Distinct(moved) /\ Held(moved) \subseteq Held(m.queue)
  <2>1. CASE proposal.action.kind = "Remove"
    BY <1>2, <2>1
  <2>2. CASE proposal.action.kind # "Remove"
    <3>1. item \in Item /\ proposal.action.to_index \in Nat
      BY <2>2 DEF VoteProposal, VoteAction
    <3>2. item \notin Held(rest)
      BY <1>2
    <3> HIDE DEF rest, item
    <3>3. /\ Distinct(Inserted(rest, proposal.action.to_index, item))
          /\ Held(Inserted(rest, proposal.action.to_index, item))
               \subseteq Held(rest) \cup {item}
      BY <1>2, <3>1, <3>2, InsertedHolds
    <3>4. QED
      BY <1>2, <1>3, <2>2, <3>3
  <2>3. QED
    BY <2>1, <2>2
<1>5. ExecuteVoteAction(m, proposal) = MarkQueueChanged([m EXCEPT !.queue = moved],
                                                       proposal.created_at)
  BY DEF ExecuteVoteAction
<1> HIDE DEF moved
<1>6. MarkQueueChanged([m EXCEPT !.queue = moved], proposal.created_at).queue = moved
  BY DEF MarkQueueChanged, Music
<1>7. QED
  BY <1>4, <1>5, <1>6

(* So does resolving a vote (resolve_active_vote). *)
LEMMA ResolveHolds ==
  ASSUME NEW m \in Music, NEW n, Distinct(m.queue)
  PROVE  /\ Distinct(ResolveActiveVote(m, n).queue)
         /\ Held(ResolveActiveVote(m, n).queue) \subseteq Held(m.queue)
<1> DEFINE closed == [m EXCEPT !.active_vote = NoVote]
<1>1. closed \in Music /\ closed.queue = m.queue
  BY DEF Music
<1>2. CASE ExecutesVote(m, n)
  <2>1. m.active_vote # NoVote /\ Resolution(m, n) = "Passed"
    BY <1>2 DEF ExecutesVote, Resolution
  <2>2. m.active_vote.proposal \in VoteProposal
    BY <2>1 DEF Music, ActiveVote
  <2>3. InQueue(m.queue, m.active_vote.proposal.action.item)
    <3>1. ~IsStale(m, m.active_vote.proposal)
      BY <1>2 DEF ExecutesVote
    <3>2. ~(m.active_vote.proposal.queue_version > m.queue_version)
      BY <2>1 DEF Resolution, ReadyVoteWaitingForQueue, TerminalOutcome
    <3>3. m.active_vote.proposal.queue_version \in Nat /\ m.queue_version \in Nat
      BY <2>2 DEF VoteProposal, Music
    <3>4. QED
      BY <3>1, <3>2, <3>3 DEF IsStale
  <2>4. ResolveActiveVote(m, n) = ExecuteVoteAction(closed, m.active_vote.proposal)
    BY <1>2, <2>1 DEF ResolveActiveVote
  <2> HIDE DEF closed
  <2>5. QED
    BY <1>1, <2>2, <2>3, <2>4, ExecuteHolds
<1>3. CASE ~ExecutesVote(m, n)
  <2>1. ResolveActiveVote(m, n) \in {m, closed}
    BY <1>3 DEF ResolveActiveVote
  <2>2. QED
    BY <1>1, <2>1
<1>4. QED
  BY <1>2, <1>3

(* A vote is of the version after the one it runs on, and of its proposal's time. *)
StampedBy(version, updated_at, proposal) ==
  version = proposal.queue_version + 1 /\ updated_at = proposal.created_at

(* Resolving a vote leaves the queue as it is or stamps it with the vote: one on a
   later version waits, one on an earlier version is stale. *)
LEMMA ResolveStamps ==
  ASSUME NEW m \in Music, NEW n,
         BuildQueueState(ResolveActiveVote(m, n)) # BuildQueueState(m)
  PROVE  /\ m.active_vote \in ActiveVote
         /\ LET after == ResolveActiveVote(m, n)
            IN  StampedBy(after.queue_version, after.queue_updated_at,
                          m.active_vote.proposal)
<1> DEFINE closed == [m EXCEPT !.active_vote = NoVote]
           proposal == m.active_vote.proposal
           after == ResolveActiveVote(m, n)
<1>1. /\ closed \in Music /\ closed.queue_version = m.queue_version
      /\ BuildQueueState(closed) = BuildQueueState(m)
  BY DEF Music, BuildQueueState
<1>2. ExecutesVote(m, n)
  BY <1>1 DEF ResolveActiveVote
<1>3. m.active_vote # NoVote /\ Resolution(m, n) = "Passed" /\ ~IsStale(m, proposal)
  BY <1>2 DEF ExecutesVote, Resolution
<1>4. m.active_vote \in ActiveVote /\ proposal \in VoteProposal
  BY <1>3 DEF Music, ActiveVote
<1>5. ~(proposal.queue_version > m.queue_version)
  BY <1>3 DEF Resolution, ReadyVoteWaitingForQueue, TerminalOutcome
<1>6. ~(proposal.queue_version < m.queue_version)
  BY <1>3 DEF IsStale
<1>7. proposal.queue_version = m.queue_version
  BY <1>4, <1>5, <1>6 DEF VoteProposal, Music
<1>8. after = ExecuteVoteAction(closed, proposal)
  BY <1>2, <1>3 DEF ResolveActiveVote
<1> HIDE DEF closed, proposal, after
<1>9. PICK queue : after = MarkQueueChanged([closed EXCEPT !.queue = queue],
                                            proposal.created_at)
  BY <1>8 DEF ExecuteVoteAction
<1> DEFINE moved == [closed EXCEPT !.queue = queue]
<1>10. moved.queue_version = closed.queue_version /\ DOMAIN moved = DOMAIN closed
  BY <1>1 DEF Music
<1>11. DOMAIN closed = {"queue", "queue_version", "queue_updated_at", "active_vote"}
  BY <1>1 DEF Music
<1> HIDE DEF moved
<1>12. after = [moved EXCEPT !.queue_version = @ + 1,
                             !.queue_updated_at = proposal.created_at]
  BY <1>9 DEF MarkQueueChanged, moved
<1>13. /\ after.queue_version = m.queue_version + 1
       /\ after.queue_updated_at = proposal.created_at
  BY <1>1, <1>10, <1>11, <1>12
<1>14. QED
  BY <1>4, <1>7, <1>13 DEF StampedBy, after, proposal

-----------------------------------------------------------------------------
(* Two sets of peers of which one holds a majority and the other rules one out
   share a peer: what keeps one vote from passing and being rejected. *)
LEMMA PassedMeetsRejected ==
  ASSUME NEW yes \in SUBSET Peer, NEW no \in SUBSET Peer,
         Cardinality(yes) >= MajorityThreshold(Cardinality(Peer)),
         Cardinality(no) + MajorityThreshold(Cardinality(Peer)) > Cardinality(Peer)
  PROVE  yes \cap no # {}
<1>1. IsFiniteSet(Peer)
  BY PeerAssumption
<1>2. IsFiniteSet(yes) /\ IsFiniteSet(no) /\ IsFiniteSet(yes \cup no)
  BY <1>1, FS_Subset, FS_Union
<1>3. Cardinality(yes \cup no) <= Cardinality(Peer)
  BY <1>1, FS_Subset
<1>4. Cardinality(yes \cup no)
        = Cardinality(yes) + Cardinality(no) - Cardinality(yes \cap no)
  BY <1>2, FS_Union
<1>5. /\ Cardinality(Peer) \in Nat /\ Cardinality(yes) \in Nat
      /\ Cardinality(no) \in Nat /\ Cardinality(yes \cap no) \in Nat
  BY <1>1, <1>2, FS_CardinalityType, FS_Intersection
<1>6. MajorityThreshold(Cardinality(Peer)) \in Nat
  BY <1>5 DEF MajorityThreshold
<1>7. Cardinality(yes \cap no) > 0
  BY <1>3, <1>4, <1>5, <1>6
<1>8. QED
  BY <1>7, FS_EmptySet

(* What a resolution by counting says about the ballots it counted, all of
   them cast by peers of the room (terminal_outcome, pending_count). *)
LEMMA OutcomeCounts ==
  ASSUME NEW vote \in ActiveVote, vote.approvals \cap vote.rejections = {}
  PROVE  LET n == Cardinality(Peer)
         IN  /\ TerminalOutcome(vote, n) = "Passed"
                  => Cardinality(vote.approvals) >= MajorityThreshold(n)
             /\ TerminalOutcome(vote, n) = "Rejected"
                  => Cardinality(vote.rejections) + MajorityThreshold(n) > n
<1> DEFINE n == Cardinality(Peer)
           a == Cardinality(vote.approvals)
           r == Cardinality(vote.rejections)
<1>1. vote.approvals \in SUBSET Peer /\ vote.rejections \in SUBSET Peer
  BY DEF ActiveVote
<1>2. /\ IsFiniteSet(Peer) /\ IsFiniteSet(vote.approvals)
      /\ IsFiniteSet(vote.rejections)
  BY <1>1, PeerAssumption, FS_Subset
<1>3. n \in Nat /\ a \in Nat /\ r \in Nat
  BY <1>2, FS_CardinalityType
<1>4. a + r <= n
  <2>1. Cardinality(vote.approvals \cup vote.rejections) = a + r - Cardinality({})
    BY <1>2, FS_Union
  <2>2. Cardinality(vote.approvals \cup vote.rejections) <= n
    BY <1>1, <1>2, FS_Subset
  <2>3. QED
    BY <1>3, <2>1, <2>2, FS_EmptySet
<1>5. PendingCount(vote, n) = n - (a + r)
  BY <1>3, <1>4 DEF PendingCount
<1>6. MajorityThreshold(n) \in Nat
  BY <1>3 DEF MajorityThreshold
<1>7. QED
  BY <1>3, <1>5, <1>6 DEF TerminalOutcome, HasMajority
=============================================================================
