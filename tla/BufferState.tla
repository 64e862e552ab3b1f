----------------------------- MODULE BufferState -----------------------------
(***************************************************************************)
(* One peer's playback state and buffer operation: the playback half of    *)
(* MusicState (music_state.rs) and BufferCoordinator (buffer_state.rs), as *)
(* pure operators.  A room of peers is built from them (BufferRoom).       *)
(*                                                                         *)
(* Positions are abstracted to whether a stream has what its target needs, *)
(* deadlines to a flag that says the deadline has passed.  A playback, an  *)
(* operation or a stream keeps the queue item it came from, where the code *)
(* keeps the track and who asked for it: of another session's item nothing *)
(* but these two is compared (TrackOf, SameRequest), and a session plays   *)
(* one item only.                                                          *)
(***************************************************************************)
EXTENDS MusicState

CONSTANTS
  TrackOf(_),   \* the track an item asks for
  NoPlayback,   \* PlaybackPhase::Idle without a state: nothing played yet
  NoTrack,      \* the track of an idle state
  NoOperation   \* no active buffer operation, or a stream prepared for none

\* {peer}:{now}: the peer and its clock name operations and sessions.
Id == Peer \X Nat

PlaybackState == [session : Id, leader : Peer, track : Item \cup {NoTrack},
                  issued_at : Nat, playing : BOOLEAN]

Kind == {"Start", "Seek", "Resume"}
Status == {"Buffering", "Ready", "Failed"}

BufferOperation == [operation : Id, session : Id, track : Item, kind : Kind,
                    expected : SUBSET Peer, statuses : [Peer -> Status \cup {"None"}],
                    overdue : BOOLEAN]

ASSUME BufferAssumption ==
  /\ NoPlayback \notin PlaybackState
  /\ NoTrack \notin Item
  /\ NoOperation \notin BufferOperation \cup Id
-----------------------------------------------------------------------------
(* Playback *)

HasTrack(playback) == playback # NoPlayback /\ playback.track # NoTrack

IsPlaying(playback, session, track) ==
  playback # NoPlayback /\ playback.session = session /\ playback.track = track

\* A state that is applied whenever it is another one.
AppliesEveryPlayback(current, next) == current # next

\* should_apply_playback_state: the time of issue leads the order key, and no
\* two states are issued at one time.
ShouldApplyPlaybackState(current, next) ==
  current = NoPlayback \/ next.issued_at > current.issued_at

IdleState(p, now) ==
  [session |-> <<p, now>>, leader |-> p, track |-> NoTrack,
   issued_at |-> now, playing |-> FALSE]

\* pause_playback_for_vote: whoever pauses leads the playback from then on.
Paused(playback, p, now) ==
  [playback EXCEPT !.leader = p, !.issued_at = now, !.playing = FALSE]

CanControlPlayback(playback, p) ==
  HasTrack(playback) /\ playback.track.requested_by = p
-----------------------------------------------------------------------------
(* BufferCoordinator *)

LeaderOf(op) == op.operation[1]

Leads(p, buffer) == buffer # NoOperation /\ LeaderOf(buffer) = p

StartOperation(id, session, track, kind, expected) ==
  [operation |-> id, session |-> session, track |-> track, kind |-> kind,
   expected |-> expected, statuses |-> [q \in Peer |-> "None"], overdue |-> FALSE]

\* receive_remote_operation: a repeated prepare keeps what is known of it.
ReceiveRemoteOperation(buffer, m) ==
  IF buffer # NoOperation /\ buffer.operation = m.operation /\ buffer.session = m.session
  THEN buffer
  ELSE StartOperation(m.operation, m.session, m.track, m.kind, m.expected)

\* active_buffer_operation_matches; the track goes with the session.
IsFor(buffer, operation, session) ==
  /\ buffer # NoOperation
  /\ buffer.operation = operation /\ buffer.session = session

StatusFor(buffer, operation, session, peer) ==
  IF IsFor(buffer, operation, session) THEN buffer.statuses[peer] ELSE "None"

\* MarkStatus that counts whoever answers.
MarkAnyStatus(buffer, operation, session, peer, status) ==
  IF IsFor(buffer, operation, session)
  THEN [buffer EXCEPT !.statuses[peer] = status] ELSE buffer

\* mark_status: the last status of an expected peer counts.
MarkStatus(buffer, operation, session, peer, status) ==
  IF IsFor(buffer, operation, session) /\ peer \in buffer.expected
  THEN [buffer EXCEPT !.statuses[peer] = status] ELSE buffer

ExtendDeadline(buffer) == [buffer EXCEPT !.overdue = FALSE]

\* RemoveExpectedPeer that keeps the peer's answer.
RemoveExpectedOnly(buffer, peer) ==
  IF buffer = NoOperation THEN buffer
  ELSE [buffer EXCEPT !.expected = @ \ {peer}]

\* remove_expected_peer: the peer leaves with its status.
RemoveExpectedPeer(buffer, peer) ==
  IF buffer = NoOperation THEN buffer
  ELSE [buffer EXCEPT !.expected = @ \ {peer}, !.statuses[peer] = "None"]

WithStatus(op, status) == {q \in Peer : op.statuses[q] = status}

\* Quorum that waits for the missing answers whatever the time.
PatientQuorum(op) ==
  LET ready == Cardinality(WithStatus(op, "Ready"))
      failed == Cardinality(WithStatus(op, "Failed"))
      threshold == MajorityThreshold(Cardinality(op.expected))
  IN  IF ready >= threshold THEN "Ready"
      ELSE IF Cardinality(op.expected) - failed < threshold THEN "Impossible"
      ELSE "Waiting"

\* BufferOperation::quorum
Quorum(op) ==
  LET ready == Cardinality(WithStatus(op, "Ready"))
      failed == Cardinality(WithStatus(op, "Failed"))
      total == Cardinality(op.expected)
      threshold == MajorityThreshold(total)
      remaining == IF ready + failed > total THEN 0 ELSE total - (ready + failed)
  IN  IF ready >= threshold THEN "Ready"
      ELSE IF op.overdue THEN "TimedOut"
      ELSE IF ready + remaining < threshold THEN "Impossible"
      ELSE "Waiting"

Cancel(buffer, operation) ==
  IF buffer # NoOperation /\ buffer.operation = operation
  THEN NoOperation ELSE buffer

\* clear_matching_playback_state
ClearMatchingPlaybackState(buffer, state) ==
  IF /\ buffer # NoOperation /\ buffer.session = state.session
     /\ state.track = NoTrack \/ (state.playing /\ state.track = buffer.track)
  THEN NoOperation ELSE buffer

\* remove_buffer_queue_item
RemoveBufferQueueItem(m, item, now) ==
  IF InQueue(m.queue, item)
  THEN MarkQueueChanged(
         [m EXCEPT !.queue = WithoutIndex(@, Position(@, item))], now)
  ELSE m

\* RemoveStartedItem that takes whatever is first.
RemoveFirstItem(m, state) ==
  IF m.queue # <<>> THEN [m EXCEPT !.queue = Tail(@)] ELSE m

SameRequest(item, other) ==
  TrackOf(item) = TrackOf(other) /\ item.requested_by = other.requested_by

\* remove_started_playback_queue_item: a state does not name the item it started,
\* so the first that fits goes; the queue keeps its version.
RemoveStartedItem(m, state) ==
  LET fits == {i \in DOMAIN m.queue : /\ SameRequest(m.queue[i], state.track)
                                     /\ m.queue[i].added_at <= state.issued_at}
      first == CHOOSE i \in fits : \A j \in fits : i <= j
  IN  IF fits = {} THEN m ELSE [m EXCEPT !.queue = WithoutIndex(@, first)]
=============================================================================
