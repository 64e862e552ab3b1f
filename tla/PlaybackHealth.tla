--------------------------- MODULE PlaybackHealth ---------------------------
(***************************************************************************)
(* While the room plays, its peers tell each other how far they have       *)
(* buffered, and the leader pauses the room when for a while no majority   *)
(* of them is far enough.  A peer publishes what it reached only so often, *)
(* the messages may be late, lost and out of order, and a message of       *)
(* another session than the last one of makes a peer forget all it knows.  *)
(*                                                                         *)
(* Time goes by in seconds; a second of time is a second of the track.     *)
(***************************************************************************)
EXTENDS Naturals, FiniteSets

CONSTANTS
  Peer, Leader,
  Duration,           \* of a track
  ReadAhead,          \* how far a stream gets ahead of the position
  ReadyWindow, LowWatermark,                  \* media_cache
  LossGrace, StaleAfter, PublishMinInterval,  \* BUFFER_HEALTH_*
  MaxSessions,        \* bound on the tracks played
  MaxMessages         \* bound on the messages on their way

ASSUME PeerAssumption ==
  IsFiniteSet(Peer) /\ Leader \in Peer
ASSUME TimeAssumption ==
  {Duration, ReadAhead, ReadyWindow, LowWatermark, LossGrace, StaleAfter, PublishMinInterval}
    \subseteq Nat \ {0}
ASSUME BoundsAssumption == MaxSessions \in Nat \ {0} /\ MaxMessages \in Nat \ {0}

NoSession == 0
NotLost == LossGrace + 1   \* no loss_since
Unknown == [status |-> "Unknown"]

VARIABLES
  tracks,     \* how many the room played
  session,    \* of what it plays or prepares
  position,   \* of the room's playback
  playing,    \* whether the room's playback goes on
  active,     \* whether the leader has a buffer operation
  streams,    \* how far each peer's stream is, and what it last said
  tracked,    \* the session each peer's PlaybackHealth is of
  published,  \* what each peer last published of it
  statuses,   \* what the leader last heard from each peer
  loss,       \* the leader's loss_since: for how long there was no majority
  paused,     \* the leader's paused_for_loss
  messages,   \* PlaybackBufferHealth on its way, to one peer each
  due,        \* whether the leader's local tick is to look at the buffers
  stalled,    \* history: how many times in a row no majority was far enough
  remembered, \* history: how many times the leader looked since it forgot this session
  forgot,     \* history: whether it forgot the session since the last pause
  recovered,  \* history: whether there was a majority since the last pause
  misled      \* history: whether the leader may have missed a message of this session

room == <<tracks, session, position, playing, active>>
health == <<tracked, published, statuses, loss, paused>>
history == <<stalled, remembered, forgot, recovered, misled>>
vars == <<room, streams, health, messages, due, history>>

Smaller(m, n) == IF m <= n THEN m ELSE n

\* majority_threshold
IsMajority(peers) == 2 * Cardinality(peers) > Cardinality(Peer)

Nothing == [p \in Peer |-> Unknown]
-----------------------------------------------------------------------------
(* PlaybackHealth *)

\* Mutant of IsHealthy: nothing stale counts.
IsHealthyFresh(status, at) ==
  /\ status # Unknown /\ status.status = "Ready"
  /\ status.until >= at
  /\ status.age <= StaleAfter

\* PlaybackHealthStatus::is_healthy
IsHealthy(status, at) ==
  /\ status # Unknown /\ status.status = "Ready"
  /\ status.until >= at
  /\ status.age <= StaleAfter \/ status.until >= at + StaleAfter

\* mark_local_status_for_publish
ShouldPublish(previous, stream) ==
  \/ previous = Unknown
  \/ previous.status # stream.status
  \/ previous.age >= PublishMinInterval /\ stream.until > previous.until

\* reset_session at peer p, as p published and the leader knows
PublishedAt(p, of) == IF tracked[p] = of THEN published[p] ELSE Unknown
StatusesFor(of) == IF tracked[Leader] = of THEN statuses ELSE Nothing

\* Mutant of LossFor: it counts from now, every time.
LossAnew(of) == NotLost

LossFor(of) == IF tracked[Leader] = of THEN loss ELSE NotLost

\* Mutant of PausedFor: it was never paused.
NeverPaused(of) == FALSE

\* Mutant of PausedFor: reset_session leaves paused_for_loss as it is.
PausedStill(of) == paused

PausedFor(of) == tracked[Leader] = of /\ paused

\* The leader forgets what it knows of the room's session.
Forgets(of) == of # session /\ tracked[Leader] = session
-----------------------------------------------------------------------------
NewStream == [status |-> "Buffering", until |-> 0]

Init ==
  /\ tracks = 0 /\ session = NoSession /\ position = 0
  /\ playing = FALSE /\ active = FALSE
  /\ streams = [p \in Peer |-> NewStream]
  /\ tracked = [p \in Peer |-> NoSession]
  /\ published = Nothing /\ statuses = Nothing
  /\ loss = NotLost /\ paused = FALSE
  /\ messages = {}
  /\ due = FALSE
  /\ stalled = 0 /\ remembered = NotLost
  /\ forgot = FALSE /\ recovered = TRUE /\ misled = FALSE

\* Only the leader looks at more of it than the session.
Message(to, from, stream) ==
  IF to = Leader
  THEN [to |-> to, from |-> from, session |-> session, status |-> stream.status,
        until |-> stream.until]
  ELSE [to |-> to, from |-> from, session |-> session]

\* publish_local_buffer_health of the event of a stream
Publish(p, stream) ==
  LET previous == PublishedAt(p, session)
      next == [status |-> stream.status, until |-> stream.until, age |-> 0]
      sent == {Message(q, p, stream) : q \in Peer \ {p}}
      publishes == ShouldPublish(previous, stream)
  IN  /\ tracked' = [tracked EXCEPT ![p] = session]
      /\ published' = [published EXCEPT ![p] = IF publishes THEN next ELSE previous]
      /\ messages' = IF publishes THEN messages \cup sent ELSE messages
      /\ Cardinality(messages') <= MaxMessages
      /\ IF p = Leader
         THEN /\ statuses' = [StatusesFor(session) EXCEPT ![p] = next]
              /\ loss' = LossFor(session)
              /\ paused' = PausedFor(session)
         ELSE UNCHANGED <<statuses, loss, paused>>

\* handle_audio_player_events: the stream gets further and, after a while, is ready, or
\* it runs out of samples, or it fails.
Report(p) ==
  /\ session # NoSession
  /\ \E stream \in [status : {"Ready", "Buffering", "Failed"}, until : 0..Duration] :
       /\ streams[p].status # "Failed"
       /\ \/ /\ stream.until = streams[p].until + 1
             /\ stream.until <= position + ReadAhead
             /\ stream.status = IF \/ streams[p].status = "Ready"
                                   \/ stream.until >= Smaller(position + ReadyWindow, Duration)
                                THEN "Ready" ELSE "Buffering"
          \/ /\ stream.until = streams[p].until /\ stream.until <= position
             /\ stream.until < Duration
             /\ streams[p].status = "Ready" /\ stream.status = "Buffering"
          \/ stream.until = streams[p].until /\ stream.status = "Failed"
       /\ streams' = [streams EXCEPT ![p] = stream]
       /\ Publish(p, IF stream.status = "Failed" THEN [stream EXCEPT !.until = 0]
                     ELSE stream)
  /\ UNCHANGED <<room, due, history>>

\* WireMessage::PlaybackBufferHealth
Receive ==
  \E m \in messages :
    /\ messages' = messages \ {m}
    /\ tracked' = [tracked EXCEPT ![m.to] = m.session]
    /\ published' = [published EXCEPT ![m.to] = PublishedAt(m.to, m.session)]
    /\ IF m.to = Leader
       THEN /\ statuses' = [StatusesFor(m.session) EXCEPT ![m.from] =
                              [status |-> m.status, until |-> m.until, age |-> 0]]
            /\ loss' = LossFor(m.session)
            /\ paused' = PausedFor(m.session)
            /\ misled' = \/ misled \/ Forgets(m.session)
                         \/ /\ m.session = session /\ tracked[m.from] = session
                            /\ published[m.from] # Unknown
                            /\ \/ published[m.from].status # m.status
                               \/ published[m.from].until # m.until
            /\ remembered' = IF Forgets(m.session) THEN 0 ELSE remembered
            /\ forgot' = (forgot \/ Forgets(m.session))
            /\ UNCHANGED <<stalled, recovered>>
       ELSE UNCHANGED <<statuses, loss, paused, history>>
    /\ UNCHANGED <<room, streams, due>>

\* The network loses a message.
Lose ==
  \E m \in messages :
    /\ messages' = messages \ {m}
    /\ misled' = (misled \/ (m.to = Leader /\ m.session = session))
    /\ UNCHANGED <<room, streams, health, due, stalled, remembered, forgot, recovered>>

-----------------------------------------------------------------------------
(* maybe_pause_for_buffer_health_loss, at the leader's local tick *)

Healthy(known) == {p \in Peer : IsHealthy(known[p], position + LowWatermark)}

\* Whose streams in fact got as far as the leader wants, even if they failed then.
FarEnough == {p \in Peer : streams[p].until >= position + LowWatermark}

\* A majority is healthy, or is not and the grace goes on, or it is over.
Looks ==
  LET known == StatusesFor(session)
      since == IF LossFor(session) = NotLost THEN 0 ELSE LossFor(session)
      is_majority == IsMajority(Healthy(known))
      pauses == ~is_majority /\ ~PausedFor(session) /\ since >= LossGrace
  IN  /\ tracked' = [tracked EXCEPT ![Leader] = session]
      /\ published' = [published EXCEPT ![Leader] = PublishedAt(Leader, session)]
      /\ statuses' = known
      /\ loss' = IF is_majority THEN NotLost ELSE since
      /\ paused' = (~is_majority /\ (PausedFor(session) \/ pauses))
      /\ playing' = ~pauses /\ active' = pauses
      /\ recovered' = (is_majority \/ (recovered /\ ~pauses))
      /\ forgot' = (forgot /\ ~pauses)
      /\ remembered' = Smaller(remembered + 1, NotLost)
      /\ stalled' = IF IsMajority(FarEnough) \/ pauses THEN 0
                    ELSE Smaller(stalled + 1, NotLost)

LocalTick ==
  /\ due /\ due' = FALSE
  /\ IF active THEN UNCHANGED <<health, playing, active, history>>
     ELSE IF session = NoSession
     THEN /\ tracked' = [tracked EXCEPT ![Leader] = NoSession]
          /\ published' = [published EXCEPT ![Leader] = Unknown]
          /\ statuses' = Nothing /\ loss' = NotLost /\ paused' = FALSE
          /\ UNCHANGED <<playing, active, history>>
     ELSE IF ~playing THEN UNCHANGED <<health, playing, active, history>>
     ELSE Looks /\ UNCHANGED misled
  /\ UNCHANGED <<tracks, session, position, streams, messages>>

-----------------------------------------------------------------------------
(* The playback of the room, as the buffer operations have it (BufferRoom) *)

Operate(of, at, goes_on) ==
  /\ ~due /\ ~active /\ active' = TRUE
  /\ session' = of /\ position' = at /\ playing' = goes_on
  /\ UNCHANGED <<health, messages, due>>

\* Another track is prepared, with another session and new streams.
StartTrack ==
  /\ tracks < MaxSessions /\ tracks' = tracks + 1
  /\ Operate(tracks', 0, FALSE)
  /\ streams' = [p \in Peer |-> NewStream]
  /\ stalled' = 0 /\ remembered' = NotLost
  /\ forgot' = FALSE /\ recovered' = TRUE /\ misled' = FALSE

\* The room is to play on after a pause.
PlayOn ==
  /\ session # NoSession /\ ~playing
  /\ Operate(session, position, playing)
  /\ UNCHANGED <<tracks, streams, history>>

\* A majority is ready, or the operation comes to nothing.
OperationEnds ==
  /\ active /\ active' = FALSE
  /\ \/ /\ IsMajority({p \in Peer : streams[p].status = "Ready"})
        /\ playing' = TRUE
     \/ playing' = playing
  /\ UNCHANGED <<tracks, session, position, streams, health, messages, due, history>>

\* A vote pauses the room.
Pause ==
  /\ playing /\ playing' = FALSE /\ ~due /\ ~active
  /\ UNCHANGED <<tracks, session, position, active, streams, health, messages, due, history>>

\* The track is over, or skipped.
StopPlayback ==
  /\ session # NoSession /\ session' = NoSession /\ ~due /\ ~active
  /\ playing' = FALSE /\ position' = 0
  /\ streams' = [p \in Peer |-> NewStream]
  /\ UNCHANGED <<tracks, active, health, messages, due, history>>

Older(status, oldest) ==
  IF status = Unknown THEN Unknown
  ELSE [status EXCEPT !.age = Smaller(@ + 1, oldest)]

\* A second goes by.
Tick ==
  /\ ~due /\ due' = TRUE
  /\ playing => position < Duration
  /\ position' = IF playing THEN position + 1 ELSE position
  /\ published' = [p \in Peer |-> Older(published[p], PublishMinInterval)]
  /\ statuses' = [p \in Peer |-> Older(statuses[p], StaleAfter + 1)]
  /\ loss' = IF loss = NotLost THEN NotLost ELSE Smaller(loss + 1, LossGrace)
  /\ UNCHANGED <<tracks, session, playing, active, streams, tracked, paused, messages,
                 history>>

Next ==
  \/ \E p \in Peer : Report(p)
  \/ Receive \/ Lose \/ LocalTick
  \/ StartTrack \/ PlayOn \/ OperationEnds \/ Pause \/ StopPlayback \/ Tick

Spec == Init /\ [][Next]_vars

-----------------------------------------------------------------------------
Status ==
  {Unknown} \cup [status : {"Ready", "Buffering", "Failed"}, until : 0..Duration,
                  age : 0..StaleAfter + PublishMinInterval]

\* What the peers and the leader know is typed, and the leader remembers that it paused
\* for a loss only while it remembers since when the loss goes on (evaluate and
\* reset_session change loss_since and paused_for_loss together).
TypeOK ==
  /\ session \in {NoSession, tracks} /\ tracks \in 0..MaxSessions
  /\ position \in 0..Duration
  /\ {playing, active, paused, due, forgot, recovered, misled} \subseteq BOOLEAN
  /\ published \in [Peer -> Status] /\ statuses \in [Peer -> Status]
  /\ tracked \in [Peer -> 0..MaxSessions]
  /\ loss \in 0..NotLost /\ (paused => loss # NotLost)
  /\ {stalled, remembered} \subseteq 0..NotLost
  /\ \A m \in messages : m.from # m.to /\ m.session \in 1..tracks

\* It was paused for this loss already, and the leader still knows.
PausedBefore == ~recovered /\ ~forgot

\* A room that plays while no majority is far enough is paused as soon as the grace
\* period is over, unless it was paused for the same loss already: what a peer said once
\* holds only for so long (is_healthy, loss_since, paused_for_loss).  The grace period
\* begins anew when a message of another session, sent before the track began or late,
\* makes the leader forget the loss (reset_session); so the room is paused when the
\* leader looked at it for a grace period without such a message, and if one keeps
\* coming in every grace period, it never is.
StallsArePaused == stalled > LossGrace => PausedBefore \/ remembered <= LossGrace

\* What p published lets it count as healthy, however long ago that was.
WellBuffered(p) ==
  LET status == PublishedAt(p, session)
  IN  status # Unknown /\ status.status = "Ready"
        /\ status.until >= position + LowWatermark + StaleAfter

PausesForLoss == playing /\ ~playing' /\ active' /\ session' = session

\* The leader pauses the room only when no majority published buffers that are good for
\* the position, unless messages are on their way to it or it missed one.
PausesAreForLoss ==
  [][ PausesForLoss =>
        \/ misled \/ \E m \in messages : m.to = Leader /\ m.session = session
        \/ ~IsMajority({p \in Peer : WellBuffered(p)}) ]_vars

\* It pauses the room only once until there was a majority again, if no message of
\* another session made it forget that it did (paused_for_loss and reset_session).
OnePausePerLoss == [][PausesForLoss => recovered \/ forgot]_vars
=============================================================================
