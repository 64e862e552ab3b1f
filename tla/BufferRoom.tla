----------------------------- MODULE BufferRoom ------------------------------
(***************************************************************************)
(* Starting, seeking and resuming playback together: a leader announces a  *)
(* buffer operation, every peer prepares the stream and reports, and the   *)
(* leader commits, cancels or times out.  Any idle peer may lead.          *)
(*                                                                         *)
(* A handler runs to its end before the peer does anything else, so an     *)
(* action is one handler.  Handlers share their parts (resolve, begin,     *)
(* start next, ...): each part is an operator on the handling `h' - the    *)
(* peer's state, what was sent so far, the clock and the history - and an  *)
(* action composes the parts in the order the code calls them.             *)
(*                                                                         *)
(* Only queue changes made by buffer operations happen here; the others    *)
(* and the votes are the subject of QueueRoom.                             *)
(***************************************************************************)
EXTENDS BufferState

CONSTANTS
  InitQueue,      \* the items queued everywhere at first
  Links,          \* Links[p]: the peers p is connected to
  Audio,          \* the peers with an audio output
  MediaFails,     \* those that can never resolve the media of a track
  StreamFails,    \* those whose download or decoding may fail
  Unhealthy,      \* the leaders that may lose the healthy majority
  SeekTargets,    \* where a prepare in the same session may point, see Prepare
  MaxOperations,  \* bound on the operations begun
  MaxFinishes,    \* bound on the tracks finished
  MaxRefreshes,   \* bound on the periodic playback states
  MaxChurn,       \* bound on the connections lost and the slow peers reported
  Leavers         \* the peers that may shut down

ASSUME InitQueueAssumption == InitQueue \in Seq(Item)
ASSUME LinksAssumption == Links \in [Peer -> SUBSET Peer]
ASSUME AudioAssumption ==
  /\ Audio \cup Unhealthy \cup Leavers \subseteq Peer
  /\ MediaFails \cup StreamFails \subseteq Audio
ASSUME SeekAssumption == SeekTargets \subseteq {"Buffered", "Ahead", "Outside"}
ASSUME BoundsAssumption ==
  {MaxOperations, MaxFinishes, MaxRefreshes, MaxChurn} \subseteq Nat

VARIABLES
  peer,       \* peer[p]: p's queue, playback, operation, stream and sessions
  messages,   \* what was ever published, see Receive
  connected,  \* connected[p]: the room peers p holds a connection to
  alive,      \* the peers whose event loop runs
  clock,      \* the next timestamp; clocks agree and no two readings are equal
  bounds,     \* how often the bounded actions happened
  log         \* history: who was prepared, what was committed, cancelled, skipped

vars == <<peer, messages, connected, alive, clock, bounds, log>>

\* A stream reports to the operation its decoder was started for, once.  A broken
\* one gets nothing more, and keeps what it has.
Stream == [session : Id, track : Item, operation : Id \cup {NoOperation},
           phase : {"Loading", "Ready"}, reported : BOOLEAN, broken : BOOLEAN]

Event == [kind : {"Prepared", "Failed"}, operation : Id \cup {NoOperation},
          session : Id, track : Item]

\* Bound on the player events that wait for one tick.
MaxEvents == 2

PeerState == [music : Music, playback : PlaybackState \cup {NoPlayback},
              buffer : BufferOperation \cup {NoOperation},
              stream : Stream \cup {NoOperation}, events : Seq(Event),
              failed : SUBSET Id]

Message ==
  [type : {"BufferPrepare"}, operation : Id, session : Id, track : Item,
   kind : Kind, expected : SUBSET Peer]
    \cup [type : {"BufferStatus"}, operation : Id, session : Id, peer : Peer,
          status : Status]
    \cup [type : {"BufferCancel"}, operation : Id]
    \cup [type : {"PlaybackState"}, state : PlaybackState]
    \cup [type : {"QueueState"}, state : QueueState]

Commit == [operation : Id, session : Id, track : Item, expected : SUBSET Peer,
           ready : SUBSET Peer]

Log == [prepared : SUBSET (Id \X Peer), committed : SUBSET Commit,
        cancelled : SUBSET Id, skipped : SUBSET Item]

Typed ==
  /\ peer \in [Peer -> PeerState]
  /\ messages \subseteq Message
  /\ connected \in [Peer -> SUBSET Peer]
  /\ alive \subseteq Peer
  /\ clock \in Nat
  /\ bounds \in [{"operations", "finishes", "refreshes", "churn"} -> Nat]
  /\ log \in Log

\* The variables have their types, and an operation counts answers of the peers it
\* expects only: who leaves takes its answer along (mark_status, remove_expected_peer).
TypeOK ==
  /\ Typed
  /\ \A p \in Peer : LET op == peer[p].buffer
                    IN  op # NoOperation =>
                          \A q \in Peer : op.statuses[q] # "None" => q \in op.expected
-----------------------------------------------------------------------------
(* Handling: publishing and the player *)

Publish(h, m) == [h EXCEPT !.sent = @ \cup {m}]

Prepare(op) ==
  [type |-> "BufferPrepare", operation |-> op.operation, session |-> op.session,
   track |-> op.track, kind |-> op.kind, expected |-> op.expected]

PublishStatus(p, h, operation, session, status) ==
  Publish(h, [type |-> "BufferStatus", operation |-> operation,
              session |-> session, peer |-> p, status |-> status])

PublishCancel(h, operation) ==
  [Publish(h, [type |-> "BufferCancel", operation |-> operation])
     EXCEPT !.log.cancelled = @ \cup {operation}]

PublishPlayback(h, state) == Publish(h, [type |-> "PlaybackState", state |-> state])

\* publish_queue_state counts the version up before it publishes.
PublishQueue(h) ==
  LET m == MarkQueueChanged(h.music, h.clock)
  IN  Publish([h EXCEPT !.music = m],
              [type |-> "QueueState", state |-> BuildQueueState(m)])

\* Whatever was stamped took the time h.clock; the next stamp takes a later one.
Stamped(h) == [h EXCEPT !.clock = @ + 1]

\* mark_status of p's own answer
MarkOwn(p, h, status) ==
  [h EXCEPT !.buffer = MarkStatus(@, @.operation, @.session, p, status)]

\* mark_status and publish_playback_buffer_status of p's own answer
Report(p, h, status) ==
  PublishStatus(p, MarkOwn(p, h, status), h.buffer.operation, h.buffer.session, status)

\* For the history: p has what the operation needs, or no output to need it for.
HasPrepared(p, h, operation) ==
  [h EXCEPT !.log.prepared = @ \cup {<<operation, p>>}]

\* A stop forgets the stream; what it reported before stays in the channel.
StopPlayer(h) == [h EXCEPT !.stream = NoOperation]

\* AudioPlayer::prepare_stream.  Another session gets a new stream.  In the same
\* session the target may be buffered, once the decoder has got anywhere, which is
\* reported at once; ahead, in the window with less than the ready window after
\* it: then the decoder goes on as it is; or outside, which restarts it.
PrepareStream(p, h, operation, session, track, target) ==
  LET s == h.stream
      fresh == [session |-> session, track |-> track, operation |-> operation,
                phase |-> "Loading", reported |-> FALSE, broken |-> FALSE]
      prepared == [kind |-> "Prepared", operation |-> operation,
                   session |-> session, track |-> track]
  IN  IF s = NoOperation \/ s.session # session THEN [h EXCEPT !.stream = fresh]
      ELSE IF target = "Buffered" /\ s.reported
      THEN [HasPrepared(p, h, operation) EXCEPT !.events = Append(@, prepared),
                                                !.stream.phase = "Ready"]
      ELSE IF target = "Ahead" THEN [h EXCEPT !.stream.phase = "Loading"]
      ELSE [h EXCEPT !.stream = fresh]
-----------------------------------------------------------------------------
(* Parts of the handlers *)

\* The end of a leader's operation that did not succeed: the operation is
\* cleared and cancelled, and a Start loses its item to the next one.
SkipOperation(h) ==
  LET op == h.buffer
      cleared == PublishCancel([h EXCEPT !.buffer = NoOperation], op.operation)
      removed == [cleared EXCEPT
                    !.music = RemoveBufferQueueItem(@, op.track, h.clock),
                    !.log.skipped = @ \cup {op.track}]
  IN  IF op.kind = "Start" THEN Stamped(PublishQueue(removed)) ELSE cleared

\* commit_buffer_operation, once the player has the prepared stream
CommitOperation(p, h) ==
  LET op == h.buffer
      state == [session |-> op.session, leader |-> p, track |-> op.track,
                issued_at |-> h.clock, playing |-> TRUE]
      commit == [operation |-> op.operation, session |-> op.session,
                 track |-> op.track, expected |-> op.expected,
                 ready |-> WithStatus(op, "Ready")]
      removed == [h EXCEPT !.music = RemoveBufferQueueItem(@, op.track, h.clock)]
      queued == IF op.kind = "Start" THEN PublishQueue(removed) ELSE h
  IN  Stamped(PublishPlayback(
        [queued EXCEPT !.playback = state, !.buffer = NoOperation,
                       !.log.committed = @ \cup {commit}], state))

\* The prepared stream of the operation is there: start_prepared_stream.
HasPreparedStream(h) ==
  /\ h.stream # NoOperation
  /\ h.stream.session = h.buffer.session /\ h.stream.phase = "Ready"

\* resolve_buffer_operation: followers leave every decision to the leader.
ResolveBufferOperation(p, h) ==
  LET op == h.buffer
      waits == op.statuses[p] = "Buffering"
      extended == [h EXCEPT !.buffer = ExtendDeadline(@)]
      \* the leader's own audio is behind: it says so, once, and keeps waiting
      behind == IF waits THEN extended ELSE Report(p, extended, "Buffering")
  IN  IF ~Leads(p, op) THEN h
      ELSE CASE Quorum(op) = "Ready" ->
             IF p \in Audio /\ op.statuses[p] # "Ready" THEN behind
             ELSE IF p \in Audio /\ ~HasPreparedStream(h)
             THEN PrepareStream(p, behind, op.operation, op.session, op.track,
                                "Outside")
             ELSE CommitOperation(p, h)
        [] Quorum(op) = "Impossible" -> SkipOperation(h)
        [] Quorum(op) = "TimedOut" ->
             IF waits
             THEN PublishStatus(p, Publish(extended, Prepare(op)), op.operation,
                                op.session, "Buffering")
             ELSE SkipOperation(h)
        [] Quorum(op) = "Waiting" -> Publish(h, Prepare(op))

\* begin_buffer_operation.  When the media cannot be resolved it returns the
\* error with the operation announced and active.
BeginBufferOperation(p, h, kind, track, target) ==
  LET id == <<p, h.clock>>
      session == IF kind = "Start" THEN id ELSE h.playback.session
      op == StartOperation(id, session, track, kind, connected[p] \cup {p})
      announced == Report(p, Publish([h EXCEPT !.buffer = op, !.begun = @ + 1],
                                     Prepare(op)), "Buffering")
      begun == Stamped(announced)
  IN  IF p \notin Audio
      THEN ResolveBufferOperation(p, MarkOwn(p, HasPrepared(p, begun, id), "Ready"))
      ELSE IF p \in MediaFails THEN begun
      ELSE PrepareStream(p, begun, id, session, track, target)

StartNextIfIdle(p, h) ==
  IF \/ HasTrack(h.playback) \/ h.buffer # NoOperation \/ h.music.queue = <<>>
     \/ h.begun = MaxOperations
  THEN h
  ELSE BeginBufferOperation(p, h, "Start", Head(h.music.queue), "Outside")

\* The two callers that let its error end run_network.
StartNextOrDie(p, h) ==
  LET next == StartNextIfIdle(p, h)
  IN  IF next.begun # h.begun /\ p \in MediaFails
      THEN [next EXCEPT !.alive = @ \ {p}] ELSE next

StopCurrentPlayback(p, h) ==
  LET idle == IdleState(p, h.clock)
  IN  Stamped(PublishPlayback([StopPlayer(h) EXCEPT !.playback = idle], idle))

\* AbandonLocalOperation that cancels the operations of others too.
AbandonAnyOperation(p, h) ==
  IF h.buffer # NoOperation
  THEN PublishCancel([h EXCEPT !.buffer = NoOperation], h.buffer.operation) ELSE h

\* abandon_local_buffer_operation: p's own operation gives way to another's.
AbandonLocalOperation(p, h) ==
  IF Leads(p, h.buffer)
  THEN PublishCancel([h EXCEPT !.buffer = NoOperation], h.buffer.operation) ELSE h

\* handle_buffer_prepare_failure
HandlePrepareFailure(p, h) ==
  LET failed == [StopPlayer(h) EXCEPT !.failed = @ \cup {h.buffer.session}]
  IN  IF Leads(p, h.buffer) THEN SkipOperation(failed)
      ELSE [Report(p, failed, "Failed") EXCEPT !.buffer = NoOperation]

\* A pause that p publishes before a Seek or a Resume.
PausePlayback(p, h) ==
  LET state == Paused(h.playback, p, h.clock)
  IN  Stamped(PublishPlayback([h EXCEPT !.playback = state], state))
-----------------------------------------------------------------------------
(* Player events *)

\* AudioPlayerEvent::Failed that names no operation: from the playing source, or of
\* a stream that was prepared for none
HandleStreamFailure(p, h, e) ==
  LET failed == [StopPlayer(h) EXCEPT !.failed = @ \cup {e.session}]
  IN  IF \/ h.buffer # NoOperation /\ h.buffer.session = e.session
         \/ ~IsPlaying(h.playback, e.session, e.track)
      THEN h
      ELSE IF h.playback.leader = p
      THEN StartNextIfIdle(p, StopCurrentPlayback(p, failed))
      ELSE failed

\* HandlePlayerEvent that looks at the kind of the operation only.
HandleAnyPlayerEvent(p, h) ==
  LET e == Head(h.events)
      g == [h EXCEPT !.events = Tail(@)]
  IN  IF h.events = <<>> THEN h
      ELSE IF e.operation = NoOperation
      THEN IF e.kind = "Failed" THEN HandleStreamFailure(p, g, e) ELSE g
      ELSE IF g.buffer = NoOperation THEN g
      ELSE IF e.kind = "Prepared"
      THEN ResolveBufferOperation(p, Report(p, g, "Ready"))
      ELSE HandlePrepareFailure(p, g)

\* handle_audio_player_events: what is not for the active operation is stale.
HandlePlayerEvent(p, h) ==
  LET e == Head(h.events)
      g == [h EXCEPT !.events = Tail(@)]
  IN  IF h.events = <<>> THEN h
      ELSE IF e.operation = NoOperation
      THEN IF e.kind = "Failed" THEN HandleStreamFailure(p, g, e) ELSE g
      ELSE IF ~IsFor(g.buffer, e.operation, e.session) THEN g
      ELSE IF e.kind = "Prepared"
      THEN ResolveBufferOperation(p, Report(p, g, "Ready"))
      ELSE HandlePrepareFailure(p, g)
\* drain_events: all that wait, of which there are MaxEvents at most.
HandlePlayerEvents(p, h) == HandlePlayerEvent(p, HandlePlayerEvent(p, h))
-----------------------------------------------------------------------------
(* The rest of the tick *)

\* maybe_pause_for_buffer_health_loss, when the healthy majority was lost
LoseBufferHealth(p, h, target) ==
  IF \/ h.buffer # NoOperation \/ ~HasTrack(h.playback) \/ h.begun = MaxOperations
  THEN h
  ELSE IF h.playback.leader = p /\ h.playback.playing
  THEN BeginBufferOperation(p, PausePlayback(p, h), "Resume", h.playback.track, target)
  ELSE h

\* should_sync_player_to_playback_state and finished_playback_role: whether the
\* current track may have played to its end
CanFinish(h) ==
  /\ HasTrack(h.playback) /\ h.playback.playing
  /\ h.buffer # NoOperation => h.buffer.session # h.playback.session

FinishPlayback(p, h) ==
  IF ~CanFinish(h) THEN h
  ELSE IF h.playback.leader = p THEN StartNextOrDie(p, StopCurrentPlayback(p, h))
  ELSE Stamped([StopPlayer(h) EXCEPT !.playback = IdleState(p, h.clock)])

\* What handlers of p start from and what they leave behind.
Handling(p) ==
  [music |-> peer[p].music, playback |-> peer[p].playback,
   buffer |-> peer[p].buffer, stream |-> peer[p].stream,
   events |-> peer[p].events, failed |-> peer[p].failed,
   alive |-> alive, clock |-> clock, log |-> log,
   begun |-> bounds["operations"], sent |-> {}]

\* p's handler ends with h.
Handled(p, h) ==
  /\ peer' = [peer EXCEPT ![p] =
       [music |-> h.music, playback |-> h.playback, buffer |-> h.buffer,
        stream |-> h.stream, events |-> h.events, failed |-> h.failed]]
  /\ messages' = messages \cup h.sent
  /\ alive' = h.alive /\ clock' = h.clock /\ log' = h.log
-----------------------------------------------------------------------------
(* Actions of the event loop *)

\* The bound on waiting events, which a target that is buffered adds one to.
EventRoom(p) == Len(peer[p].events) < MaxEvents

\* music_local.tick(): the player's events, the operation, the next item, the health
\* of the buffers and the end of the track, in this order.
MusicLocalTick(p, loses, finishes, target) ==
  LET resolved == ResolveBufferOperation(p, HandlePlayerEvents(p, Handling(p)))
      next == StartNextIfIdle(p, resolved)
      healthy == IF loses THEN LoseBufferHealth(p, next, target) ELSE next
      done == IF finishes THEN FinishPlayback(p, healthy) ELSE healthy
  IN  /\ finishes => /\ bounds["finishes"] < MaxFinishes
                     /\ CanFinish(healthy) /\ healthy.playback = peer[p].playback
      /\ Handled(p, done)
      /\ bounds' = [bounds EXCEPT !["operations"] = done.begun,
                                  !["finishes"] = IF finishes THEN @ + 1 ELSE @]
      /\ UNCHANGED connected

\* music_sync.tick(): the leader's state is issued again.
MusicSyncTick(p) ==
  LET state == [peer[p].playback EXCEPT !.issued_at = clock]
  IN  /\ bounds["refreshes"] < MaxRefreshes
      /\ HasTrack(peer[p].playback) /\ peer[p].playback.leader = p
      /\ Handled(p, Stamped(PublishPlayback([Handling(p) EXCEPT !.playback = state],
                                            state)))
      /\ bounds' = [bounds EXCEPT !["refreshes"] = @ + 1]
      /\ UNCHANGED connected

\* NetworkCommand::Seek of the peer that asked for the track
Seek(p, target) ==
  LET paused == PausePlayback(p, Handling(p))
      begun == BeginBufferOperation(p, paused, "Seek", peer[p].playback.track, target)
  IN  /\ CanControlPlayback(peer[p].playback, p)
      /\ bounds["operations"] < MaxOperations
      /\ target = "Buffered" => EventRoom(p)
      /\ Handled(p, IF p \in MediaFails THEN [begun EXCEPT !.alive = @ \ {p}]
                    ELSE begun)
      /\ bounds' = [bounds EXCEPT !["operations"] = begun.begun]
      /\ UNCHANGED connected

\* NetworkCommand::Shutdown
Shutdown(p) ==
  /\ p \in Leavers
  /\ alive' = alive \ {p}
  /\ UNCHANGED <<peer, messages, connected, clock, bounds, log>>

\* WireMessage::PlaybackState.  A stream of the session that is loaded already is
\* prepared again, for no operation, when it is not ready where the state is.
HandlePlaybackState(p, h, state, target) ==
  LET g == IF state.track = NoTrack THEN [h EXCEPT !.failed = {}] ELSE h
      yields == AbandonLocalOperation(p, g)
      applied == [yields EXCEPT !.playback = state]
      started == [applied EXCEPT !.music = RemoveStartedItem(@, state)]
      loaded == /\ started.stream # NoOperation
                /\ started.stream.session = state.session
      cleared == [started EXCEPT !.buffer = ClearMatchingPlaybackState(@, state)]
  IN  IF state.track # NoTrack /\ state.session \in g.failed THEN g
      ELSE IF ~ShouldApplyPlaybackState(g.playback, state) THEN g
      ELSE IF state.track = NoTrack
      THEN StopPlayer([applied EXCEPT !.buffer = ClearMatchingPlaybackState(@, state)])
      ELSE IF p \notin Audio \/ (loaded /\ target = "Buffered") THEN cleared
      ELSE IF p \in MediaFails
      THEN [StopPlayer(started) EXCEPT !.failed = @ \cup {state.session}]
      ELSE PrepareStream(p, cleared, NoOperation, state.session, state.track, target)

ReceivePlaybackState(p, m, target) ==
  /\ m.type = "PlaybackState" /\ m.state.leader # p
  /\ Handled(p, HandlePlaybackState(p, Handling(p), m.state, target))
  /\ UNCHANGED <<connected, bounds>>

\* find_buffer_track
KnowsTrack(h, item) ==
  \/ HasTrack(h.playback) /\ TrackOf(h.playback.track) = TrackOf(item)
  \/ \E i \in DOMAIN h.music.queue : TrackOf(h.music.queue[i]) = TrackOf(item)

\* playback_state_resolves_buffer_prepare
IsAlreadyStarted(h, m) ==
  /\ m.kind = "Start" /\ IsPlaying(h.playback, m.session, m.track)
  /\ h.playback.leader = m.operation[1]

\* JoinOperation that answers from a stream that has the track, and leads on.
AnswerFromStream(p, h, m, target) ==
  LET joined == Report(p, [h EXCEPT !.buffer = ReceiveRemoteOperation(@, m)], "Buffering")
  IN  IF h.stream # NoOperation /\ h.stream.track = m.track /\ h.stream.phase = "Ready"
      THEN PublishStatus(p, h, m.operation, m.session, "Ready")
      ELSE PrepareStream(p, joined, m.operation, m.session, m.track, target)

\* The prepare is new to p: p drops its own operation and prepares the stream.
JoinOperation(p, h, m, target) ==
  LET yields == AbandonLocalOperation(p, h)
      joined == Report(p, [yields EXCEPT !.buffer = ReceiveRemoteOperation(@, m)],
                       "Buffering")
  IN  IF p \notin Audio
      THEN Report(p, HasPrepared(p, joined, m.operation), "Ready")
      ELSE IF p \in MediaFails THEN Report(p, joined, "Failed")
      ELSE PrepareStream(p, joined, m.operation, m.session, m.track, target)

\* WireMessage::PlaybackBufferPrepare
HandlePrepare(p, h, m, target) ==
  LET known == StatusFor(h.buffer, m.operation, m.session, p)
      answer(status) == PublishStatus(p, h, m.operation, m.session, status)
  IN  IF m.expected # {} /\ p \notin m.expected THEN h
      ELSE IF m.session \in h.failed THEN answer("Failed")
      ELSE IF IsAlreadyStarted(h, m) THEN h
      ELSE IF known # "None" THEN answer(known)
      ELSE IF ~KnowsTrack(h, m.track) THEN answer("Failed")
      ELSE JoinOperation(p, h, m, target)

ReceivePrepare(p, m, target) ==
  /\ m.type = "BufferPrepare" /\ m.operation[1] # p
  /\ target = "Buffered" => EventRoom(p)
  /\ Handled(p, HandlePrepare(p, Handling(p), m, target))
  /\ UNCHANGED <<connected, bounds>>

\* WireMessage::PlaybackBufferStatus.  Everyone keeps a tally to show; the one that
\* a leader decides by is modelled.  It decides anew at the status of any operation.
ReceiveStatus(p, m) ==
  LET h == Handling(p)
      marked == [h EXCEPT !.buffer = MarkStatus(@, m.operation, m.session, m.peer,
                                                m.status)]
  IN  /\ m.type = "BufferStatus" /\ m.peer # p /\ Leads(p, h.buffer)
      /\ Handled(p, ResolveBufferOperation(p, marked))
      /\ UNCHANGED <<connected, bounds>>

\* WireMessage::PlaybackBufferCancel
ReceiveCancel(p, m) ==
  LET h == Handling(p)
      cancelled == [h EXCEPT !.buffer = Cancel(@, m.operation)]
  IN  /\ m.type = "BufferCancel" /\ m.operation[1] # p
      /\ Handled(p, IF cancelled.buffer = h.buffer THEN h ELSE StopPlayer(cancelled))
      /\ UNCHANGED <<connected, bounds>>

\* WireMessage::QueueState
ReceiveQueueState(p, m) ==
  LET h == Handling(p)
  IN  /\ m.type = "QueueState"
      /\ Handled(p, IF AppliesQueueState(h.music, m.state)
                    THEN [h EXCEPT !.music = ApplyRemoteQueueState(@, m.state)]
                    ELSE h)
      /\ UNCHANGED <<connected, bounds>>

\* remove_expected_peer and what follows it, when the peer was expected
ExpectNoMore(p, q) ==
  LET h == Handling(p)
      left == [h EXCEPT !.buffer = RemoveExpectedPeer(@, q)]
  IN  IF left.buffer = h.buffer THEN h ELSE ResolveBufferOperation(p, left)

\* SwarmEvent::ConnectionClosed of the last connection
ConnectionClosed(p, q) ==
  /\ q \in connected[p]
  /\ q \in alive => bounds["churn"] < MaxChurn
  /\ connected' = [connected EXCEPT ![p] = @ \ {q}]
  /\ Handled(p, ExpectNoMore(p, q))
  /\ bounds' = [bounds EXCEPT !["churn"] = IF q \in alive THEN @ + 1 ELSE @]

\* gossipsub::Event::SlowPeer
SlowPeer(p, q) ==
  /\ q \in connected[p] /\ bounds["churn"] < MaxChurn
  /\ Handled(p, ExpectNoMore(p, q))
  /\ bounds' = [bounds EXCEPT !["churn"] = @ + 1]
  /\ UNCHANGED connected

\* BUFFER_OPERATION_TIMEOUT has passed since the deadline was set; it is looked
\* at by the operation's leader only.
DeadlinePasses(p) ==
  /\ Leads(p, peer[p].buffer) /\ ~peer[p].buffer.overdue
  /\ peer' = [peer EXCEPT ![p].buffer.overdue = TRUE]
  /\ UNCHANGED <<messages, connected, alive, clock, bounds, log>>
-----------------------------------------------------------------------------
(* The player's download and decoder threads *)

\* decode_streaming_audio has buffered the ready window; it says so once.
StreamReady(p) ==
  LET s == peer[p].stream
      event == [kind |-> "Prepared", operation |-> s.operation,
                session |-> s.session, track |-> s.track]
  IN  /\ s # NoOperation /\ s.phase = "Loading" /\ ~s.broken /\ EventRoom(p)
      /\ peer' = [peer EXCEPT
           ![p].stream = [s EXCEPT !.phase = "Ready", !.reported = TRUE],
           ![p].events = IF s.reported THEN @ ELSE Append(@, event)]
      /\ log' = IF s.reported \/ s.operation = NoOperation THEN log
                ELSE [log EXCEPT !.prepared = @ \cup {<<s.operation, p>>}]
      /\ UNCHANGED <<messages, connected, alive, clock, bounds>>

\* download_streaming_bytes or decode_streaming_audio gives up: said to the
\* operation the stream was prepared for, whatever came of it.
StreamFailed(p) ==
  LET s == peer[p].stream
      event == [kind |-> "Failed", operation |-> s.operation,
                session |-> s.session, track |-> s.track]
  IN  /\ p \in StreamFails /\ s # NoOperation /\ ~s.broken /\ EventRoom(p)
      /\ peer' = [peer EXCEPT ![p].stream.broken = TRUE,
                              ![p].events = Append(@, event)]
      /\ UNCHANGED <<messages, connected, alive, clock, bounds, log>>

\* StreamingPcmSource::next: what plays a broken stream says so, for no operation.
PlaybackFails(p) ==
  LET s == peer[p].stream
      playback == peer[p].playback
      event == [kind |-> "Failed", operation |-> NoOperation,
                session |-> s.session, track |-> s.track]
  IN  /\ s # NoOperation /\ s.phase = "Ready" /\ s.broken /\ EventRoom(p)
      /\ IsPlaying(playback, s.session, s.track) /\ playback.playing
      /\ peer' = [peer EXCEPT ![p].events = Append(@, event)]
      /\ UNCHANGED <<messages, connected, alive, clock, bounds, log>>
-----------------------------------------------------------------------------
InitMusic ==
  [queue |-> InitQueue, queue_version |-> Len(InitQueue),
   queue_updated_at |-> Len(InitQueue), active_vote |-> NoVote]

Init ==
  /\ peer = [p \in Peer |->
       [music |-> InitMusic, playback |-> NoPlayback, buffer |-> NoOperation,
        stream |-> NoOperation, events |-> <<>>, failed |-> {}]]
  /\ messages = {}
  /\ connected = Links
  /\ alive = Peer
  /\ clock = Len(InitQueue) + 1
  /\ bounds = [b \in {"operations", "finishes", "refreshes", "churn"} |-> 0]
  /\ log = [prepared |-> {}, committed |-> {}, cancelled |-> {}, skipped |-> {}]

\* A tick of p; the health is lost and the track ends when it happens.
Tick(p) ==
  \E loses \in (IF p \in Unhealthy THEN BOOLEAN ELSE {FALSE}), finishes \in BOOLEAN,
     target \in SeekTargets : MusicLocalTick(p, loses, finishes, target)

\* Gossip delivers what was published after any delay, in any order, more than
\* once (a repeated prepare is answered anew) or never.
Receive(p) ==
  \E m \in messages :
    \/ \E target \in SeekTargets \cup {"Buffered"} : ReceivePlaybackState(p, m, target)
    \/ \E target \in SeekTargets : ReceivePrepare(p, m, target)
    \/ ReceiveStatus(p, m)
    \/ ReceiveCancel(p, m)
    \/ ReceiveQueueState(p, m)

Connection(p) == \E q \in Peer : ConnectionClosed(p, q) \/ SlowPeer(p, q)

Next ==
  \E p \in alive :
    \/ Tick(p)
    \/ MusicSyncTick(p)
    \/ \E target \in SeekTargets : Seek(p, target)
    \/ Receive(p)
    \/ Connection(p)
    \/ DeadlinePasses(p)
    \/ StreamReady(p)
    \/ StreamFailed(p)
    \/ PlaybackFails(p)
    \/ Shutdown(p)

Spec == Init /\ [][Next]_vars
-----------------------------------------------------------------------------
(* Fairness of a running peer: its timers fire, deadlines come, it notices     *)
(* that a peer has gone, and a stream that does not fail is loaded in the end *)
(* (downloads are retried a bounded number of times).  No message need ever   *)
(* be delivered.                                                              *)

\* p's tick has events to handle or an operation to decide: Tick(p) then takes a
\* step that changes something, so the first conjunct below is weaker than
\* WF_vars(p \in alive /\ Tick(p)), whose ENABLED is slow to evaluate.
TickDue(p) ==
  LET op == peer[p].buffer
  IN  /\ p \in alive
      /\ \/ peer[p].events # <<>>
         \/ Leads(p, op) /\ Quorum(op) \in {"Impossible", "TimedOut"}
         \/ /\ Leads(p, op) /\ Quorum(op) = "Ready"
            /\ p \in Audio => op.statuses[p] = "Ready"

PeerFairness(p) ==
  /\ <>[]TickDue(p) => []<><<Tick(p)>>_vars
  /\ <>[](p \in alive /\ connected[p] \ alive # {})
       => []<><<\E q \in Peer \ alive : ConnectionClosed(p, q)>>_vars
  /\ WF_vars(p \in alive /\ DeadlinePasses(p))
  /\ WF_vars(p \in alive /\ StreamReady(p))

FairSpec == Spec /\ \A p \in Peer : PeerFairness(p)
-----------------------------------------------------------------------------
(* Properties *)

\* What plays anywhere was committed, and each commit had a strict majority of
\* the peers still expected whose streams were ready for this very operation:
\* late, lost and reordered statuses, events of earlier streams and peers that
\* leave never make up a quorum (BufferOperation::quorum, mark_status,
\* remove_expected_peer, handle_audio_player_events).
NothingPlaysWithoutQuorum ==
  /\ \A c \in log.committed :
       /\ c.ready \subseteq c.expected
       /\ 2 * Cardinality(c.ready) > Cardinality(c.expected)
       /\ \A q \in c.ready : <<c.operation, q>> \in log.prepared
  /\ \A p \in Peer :
       LET playback == peer[p].playback
       IN  playback # NoPlayback /\ playback.playing =>
             \E c \in log.committed :
               c.session = playback.session /\ c.track = playback.track

\* An operation is committed once or cancelled, never both, whichever of ready,
\* failure, timeout, departure and a rival's prepare comes first.
OperationsEndOnce ==
  \A c \in log.committed :
    /\ c.operation \notin log.cancelled
    /\ \A d \in log.committed : c.operation = d.operation => c = d

\* However many operations rival and however late their messages come, no two
\* leaders count each other's streams as ready: who answers ready to a rival has
\* given up its own operation, and begins another one only after it.  In a room of
\* two, where a quorum takes both, at most one of two rivals can so be committed.
RivalsDoNotCountEachOther ==
  \A p, q \in Peer :
    p # q /\ Leads(p, peer[p].buffer) /\ Leads(q, peer[q].buffer) =>
      ~ /\ peer[p].buffer.statuses[q] = "Ready"
        /\ peer[q].buffer.statuses[p] = "Ready"

\* An item leaves a queue only when it was skipped, or when it or an item by which
\* the same peer asked for the same track was started: operations that are abandoned
\* for another peer's keep their items.  Of two such items the second may go unplayed,
\* since a playback state, and every refresh of it, takes the first that fits.
ItemsAreNotLost ==
  \A p \in Peer, i \in DOMAIN InitQueue :
    LET item == InitQueue[i]
    IN  \/ InQueue(peer[p].music.queue, item)
        \/ item \in log.skipped
        \/ \E c \in log.committed : SameRequest(item, c.track)

\* No peer's playback is replaced by a state issued earlier, whatever is
\* delivered late (should_apply_playback_state).
PlaybackNeverRollsBack ==
  [][\A p \in Peer :
       LET old == peer[p].playback
           new == peer'[p].playback
       IN  old # NoPlayback => new # NoPlayback /\ new.issued_at >= old.issued_at]_vars

\* p leads and waits for its own stream, and the stream there, if any, reports to
\* another operation: the media was not resolved (begin_buffer_operation's `?'), or
\* the target was ahead in the window of an earlier operation's stream.
WaitsInVain(p) ==
  /\ peer[p].buffer.statuses[p] = "Buffering"
  /\ \/ peer[p].stream = NoOperation
     \/ peer[p].stream.operation # peer[p].buffer.operation

\* A running leader's operations end, by a commit, a cancel or a timeout, with or
\* without the other peers' answers.  Those that wait in vain need not: their
\* deadline is put off for ever while the leader reports that it is buffering.
LeaderOperationsEnd ==
  \A p \in Peer :
    []<>(p \in alive /\ Leads(p, peer[p].buffer) => WaitsInVain(p))
=============================================================================
