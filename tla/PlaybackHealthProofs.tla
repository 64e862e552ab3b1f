------------------------ MODULE PlaybackHealthProofs ------------------------
(***************************************************************************)
(* Theorems about PlaybackHealth, for any number of peers and any lengths  *)
(* of time.  What a peer is known to have buffered of this session it has: *)
(* Known.  So the leader counts no more peers than there are far enough,   *)
(* its count of a loss goes on as long as they are too few and it does not *)
(* forget, and the grace period ends it: Counted.  And what a peer published the leader has      *)
(* heard, or the message is on its way: Informed.  So it counts everybody  *)
(* whose published buffers are good for the position, and pauses no room   *)
(* where these are a majority.                                             *)
(***************************************************************************)
EXTENDS PlaybackHealth, FiniteSetTheorems, TLAPS

Conditions == {"Ready", "Buffering", "Failed"}

Types ==
  /\ TypeOK
  /\ streams \in [Peer -> [status : Conditions, until : 0..Duration]]
  /\ tracked \in [Peer -> 0..tracks]
  /\ stalled \in Nat /\ remembered \in Nat
  /\ \A m \in messages :
       /\ m.to \in Peer /\ m.from \in Peer
       /\ m.to = Leader => m.status \in Conditions /\ m.until \in 0..Duration

(* A majority has others than its members on its side, too. *)
LEMMA LargerIsMajority ==
  ASSUME NEW more \in SUBSET Peer, NEW fewer \in SUBSET more, IsMajority(fewer)
  PROVE  IsMajority(more)
<1>1. IsFiniteSet(more) /\ IsFiniteSet(fewer)
  BY PeerAssumption, FS_Subset
<1>2. Cardinality(fewer) <= Cardinality(more)
  BY <1>1, FS_Subset
<1>3. Cardinality(fewer) \in Nat /\ Cardinality(more) \in Nat /\ Cardinality(Peer) \in Nat
  BY <1>1, PeerAssumption, FS_CardinalityType
<1>4. QED
  BY <1>2, <1>3 DEF IsMajority

(* What a peer tracks of a session is typed, also when it starts to track it. *)
LEMMA TrackedTypes ==
  ASSUME Types, NEW of \in Nat
  PROVE  /\ \A p \in Peer : PublishedAt(p, of) \in Status
         /\ StatusesFor(of) \in [Peer -> Status]
         /\ LossFor(of) \in 0..NotLost
         /\ PausedFor(of) \in BOOLEAN
         /\ PausedFor(of) => LossFor(of) # NotLost
<1>1. NotLost \in Nat
  BY TimeAssumption DEF NotLost
<1>2. Unknown \in Status /\ Nothing \in [Peer -> Status]
  BY DEF Status, Nothing
<1>3. QED
  BY <1>1, <1>2, PeerAssumption
  DEF Types, TypeOK, PublishedAt, StatusesFor, LossFor, PausedFor

(* An entry of a table of what is known is a status. *)
LEMMA StatusType ==
  ASSUME NEW status \in Conditions, NEW until \in 0..Duration
  PROVE  [status |-> status, until |-> until, age |-> 0] \in Status
<1>1. 0 \in 0..StaleAfter + PublishMinInterval
  BY TimeAssumption
<1>2. QED
  BY <1>1 DEF Status, Conditions

(* What a message of p's stream says. *)
LEMMA MessageFields ==
  ASSUME NEW q \in Peer, NEW p \in Peer,
         NEW stream \in [status : Conditions, until : 0..Duration]
  PROVE  LET m == Message(q, p, stream)
         IN  /\ m.to = q /\ m.from = p /\ m.session = session
             /\ q = Leader => m.status = stream.status /\ m.until = stream.until
  BY DEF Message

(* The sessions there are. *)
LEMMA SessionTypes ==
  ASSUME Types
  PROVE  /\ session \in Nat /\ tracks \in Nat /\ session <= tracks
         /\ \A m \in messages : m.session \in Nat /\ m.session <= tracks
         /\ \A p \in Peer : tracked[p] \in Nat /\ tracked[p] <= tracks
         /\ NotLost \in Nat /\ LossGrace \in Nat /\ NotLost = LossGrace + 1
<1>1. MaxSessions \in Nat /\ LossGrace \in Nat
  BY BoundsAssumption, TimeAssumption
<1>2. QED
  BY <1>1 DEF Types, TypeOK, NoSession, NotLost

StreamType == [status : Conditions, until : 0..Duration]

(* A stream says at most what it has. *)
LEMMA SaidOfStream ==
  ASSUME NEW stream \in StreamType
  PROVE  LET said == IF stream.status = "Failed" THEN [stream EXCEPT !.until = 0]
                     ELSE stream
         IN  /\ said \in StreamType
             /\ said.status = stream.status
             /\ said.status = "Ready" => said.until = stream.until
<1>1. 0 \in 0..Duration
  BY TimeAssumption
<1>2. QED
  BY <1>1 DEF StreamType

(* What publish_local_buffer_health does of the stream of p. *)
LEMMA PublishMoves ==
  ASSUME Types, NEW p \in Peer, session # NoSession, NEW said \in StreamType,
         Publish(p, said)
  PROVE  LET next == [status |-> said.status, until |-> said.until, age |-> 0]
         IN  /\ tracked' = [tracked EXCEPT ![p] = session]
             /\ published' \in [Peer -> Status]
             /\ messages' \subseteq messages \cup {Message(q, p, said) : q \in Peer \ {p}}
             /\ \/ /\ p = Leader
                   /\ statuses' = [StatusesFor(session) EXCEPT ![p] = next]
                   /\ loss' = LossFor(session)
                   /\ paused' = PausedFor(session)
                \/ p # Leader /\ UNCHANGED <<statuses, loss, paused>>
<1>1. [status |-> said.status, until |-> said.until, age |-> 0] \in Status
  BY StatusType DEF StreamType
<1>2. PublishedAt(p, session) \in Status
  BY TrackedTypes, SessionTypes
<1>3. published' \in [Peer -> Status]
  BY <1>1, <1>2 DEF Publish, Types, TypeOK
<1>4. QED
  BY <1>3 DEF Publish

(* A message of a stream is typed. *)
LEMMA MessageTypes ==
  ASSUME Types, NEW p \in Peer, NEW q \in Peer \ {p}, session # NoSession,
         NEW said \in StreamType
  PROVE  LET m == Message(q, p, said)
         IN  /\ m.from # m.to /\ m.session \in 1..tracks
             /\ m.to \in Peer /\ m.from \in Peer
             /\ m.to = Leader => m.status \in Conditions /\ m.until \in 0..Duration
<1>1. session \in 1..tracks
  BY SessionTypes DEF NoSession
<1>2. said \in [status : Conditions, until : 0..Duration]
  BY DEF StreamType
<1>3. QED
  BY <1>1, <1>2, MessageFields

(* The types of what the peers know survive a report. *)
LEMMA ReportTypes ==
  ASSUME Types, NEW p \in Peer, Report(p)
  PROVE  Types'
<1>1. PICK stream \in [status : {"Ready", "Buffering", "Failed"}, until : 0..Duration] :
         /\ streams' = [streams EXCEPT ![p] = stream]
         /\ Publish(p, IF stream.status = "Failed" THEN [stream EXCEPT !.until = 0]
                       ELSE stream)
  BY DEF Report
<1> DEFINE said == IF stream.status = "Failed" THEN [stream EXCEPT !.until = 0]
                   ELSE stream
<1>2. session # NoSession /\ UNCHANGED <<tracks, session, position, playing, active, due,
                                         stalled, remembered, forgot, recovered, misled>>
  BY DEF Report, room, history
<1>3. stream \in StreamType
  BY DEF StreamType, Conditions
<1>4. said \in StreamType
  BY <1>3, SaidOfStream
<1>5. Publish(p, said)
  BY <1>1
<1> HIDE DEF said
<1>6. /\ tracked' = [tracked EXCEPT ![p] = session]
      /\ published' \in [Peer -> Status]
      /\ messages' \subseteq messages \cup {Message(q, p, said) : q \in Peer \ {p}}
      /\ statuses' \in [Peer -> Status] /\ loss' \in 0..NotLost /\ paused' \in BOOLEAN
      /\ (paused' => loss' # NotLost)
  <2>1. [status |-> said.status, until |-> said.until, age |-> 0] \in Status
    BY <1>4, StatusType DEF StreamType
  <2>2. /\ StatusesFor(session) \in [Peer -> Status]
        /\ LossFor(session) \in 0..NotLost /\ PausedFor(session) \in BOOLEAN
        /\ (PausedFor(session) => LossFor(session) # NotLost)
    BY TrackedTypes, SessionTypes
  <2>3. statuses \in [Peer -> Status] /\ loss \in 0..NotLost /\ paused \in BOOLEAN
        /\ (paused => loss # NotLost)
    BY DEF Types, TypeOK
  <2>4. QED
    BY <1>2, <1>4, <1>5, <2>1, <2>2, <2>3, PublishMoves
<1>7. session \in 0..tracks /\ session \in 0..MaxSessions
  BY SessionTypes, <1>2 DEF Types, TypeOK, NoSession
<1>8. tracked' \in [Peer -> 0..tracks] /\ tracked' \in [Peer -> 0..MaxSessions]
  BY <1>6, <1>7 DEF Types, TypeOK
<1>9. streams' \in [Peer -> StreamType]
  BY <1>1, <1>3 DEF Types, StreamType
<1>10. \A m \in messages' :
         /\ m.from # m.to /\ m.session \in 1..tracks
         /\ m.to \in Peer /\ m.from \in Peer
         /\ m.to = Leader => m.status \in Conditions /\ m.until \in 0..Duration
  BY <1>2, <1>4, <1>6, MessageTypes DEF Types, TypeOK
<1>11. TypeOK'
  BY <1>2, <1>6, <1>8, <1>10 DEF Types, TypeOK, Status, NotLost
<1>12. QED
  BY <1>2, <1>8, <1>9, <1>10, <1>11 DEF Types, StreamType

(* And the arrival of a message. *)
LEMMA ReceiveTypes ==
  ASSUME Types, Receive
  PROVE  Types'
<1>1. PICK m \in messages :
         /\ messages' = messages \ {m}
         /\ tracked' = [tracked EXCEPT ![m.to] = m.session]
         /\ published' = [published EXCEPT ![m.to] = PublishedAt(m.to, m.session)]
         /\ IF m.to = Leader
            THEN /\ statuses' = [StatusesFor(m.session) EXCEPT ![m.from] =
                                   [status |-> m.status, until |-> m.until, age |-> 0]]
                 /\ loss' = LossFor(m.session)
                 /\ paused' = PausedFor(m.session)
                 /\ misled' \in BOOLEAN /\ forgot' \in BOOLEAN
                 /\ remembered' \in {0, remembered}
                 /\ UNCHANGED <<stalled, recovered>>
            ELSE UNCHANGED <<statuses, loss, paused, stalled, remembered, forgot,
                             recovered, misled>>
  BY DEF Receive, history, Types, TypeOK
<1>2. UNCHANGED <<tracks, session, position, playing, active, streams, due>>
  BY DEF Receive, room
<1>3. /\ m.to \in Peer /\ m.from \in Peer /\ m.session \in 0..tracks
      /\ m.session \in 0..MaxSessions /\ m.session \in Nat
      /\ m.to = Leader => m.status \in Conditions /\ m.until \in 0..Duration
  BY SessionTypes, BoundsAssumption DEF Types, TypeOK
<1>4. /\ PublishedAt(m.to, m.session) \in Status
      /\ StatusesFor(m.session) \in [Peer -> Status]
      /\ LossFor(m.session) \in 0..NotLost
      /\ PausedFor(m.session) \in BOOLEAN
      /\ (PausedFor(m.session) => LossFor(m.session) # NotLost)
  BY <1>3, TrackedTypes
<1>5. /\ statuses' \in [Peer -> Status] /\ loss' \in 0..NotLost /\ paused' \in BOOLEAN
      /\ (paused' => loss' # NotLost)
  <2>1. CASE m.to = Leader
    <3>1. [status |-> m.status, until |-> m.until, age |-> 0] \in Status
      BY <1>3, <2>1, StatusType
    <3>2. QED
      BY <1>1, <1>3, <1>4, <2>1, <3>1
  <2>2. CASE m.to # Leader
    BY <1>1, <2>2 DEF Types, TypeOK
  <2>3. QED
    BY <2>1, <2>2
<1>6. tracked' \in [Peer -> 0..tracks] /\ tracked' \in [Peer -> 0..MaxSessions]
  BY <1>1, <1>3 DEF Types, TypeOK
<1>7. published' \in [Peer -> Status]
  BY <1>1, <1>3, <1>4 DEF Types, TypeOK
<1>8. /\ {misled', forgot', recovered'} \subseteq BOOLEAN
      /\ stalled' \in Nat /\ remembered' \in Nat
      /\ {stalled', remembered'} \subseteq 0..NotLost
  <2>1. 0 \in 0..NotLost /\ 0 \in Nat
    BY SessionTypes
  <2>2. /\ {misled, forgot, recovered} \subseteq BOOLEAN
        /\ stalled \in Nat /\ remembered \in Nat
        /\ {stalled, remembered} \subseteq 0..NotLost
    BY DEF Types, TypeOK
  <2>3. /\ stalled' = stalled /\ remembered' \in {0, remembered} /\ recovered' = recovered
        /\ misled' \in BOOLEAN /\ forgot' \in BOOLEAN
    BY <1>1, <2>2
  <2>4. QED
    BY <2>1, <2>2, <2>3
<1>9. TypeOK'
  BY <1>1, <1>2, <1>5, <1>6, <1>7, <1>8 DEF Types, TypeOK, Status, NotLost
<1>10. QED
  BY <1>1, <1>2, <1>6, <1>8, <1>9 DEF Types

(* And what the leader does at its local tick. *)
LEMMA LocalTickTypes ==
  ASSUME Types, LocalTick
  PROVE  Types'
<1>0. UNCHANGED <<tracks, session, position, streams, messages>> /\ due' = FALSE
  BY DEF LocalTick
<1>1. /\ tracked \in [Peer -> 0..MaxSessions] /\ tracked \in [Peer -> 0..tracks]
      /\ published \in [Peer -> Status] /\ statuses \in [Peer -> Status]
      /\ loss \in 0..NotLost /\ paused \in BOOLEAN /\ playing \in BOOLEAN
      /\ active \in BOOLEAN /\ recovered \in BOOLEAN /\ forgot \in BOOLEAN
      /\ misled \in BOOLEAN /\ (paused => loss # NotLost)
      /\ stalled \in 0..NotLost /\ remembered \in 0..NotLost
  BY DEF Types, TypeOK
<1>2. /\ session \in 0..tracks /\ session \in 0..MaxSessions /\ session \in Nat
      /\ NoSession \in 0..tracks /\ NoSession \in 0..MaxSessions /\ NotLost \in Nat
      /\ LossGrace \in Nat
  BY SessionTypes, BoundsAssumption DEF Types, TypeOK, NoSession
<1>3. SUFFICES
        /\ tracked' \in [Peer -> 0..MaxSessions] /\ tracked' \in [Peer -> 0..tracks]
        /\ published' \in [Peer -> Status] /\ statuses' \in [Peer -> Status]
        /\ loss' \in 0..NotLost /\ paused' \in BOOLEAN /\ playing' \in BOOLEAN
        /\ active' \in BOOLEAN /\ recovered' \in BOOLEAN /\ forgot' \in BOOLEAN
        /\ misled' \in BOOLEAN /\ (paused' => loss' # NotLost)
        /\ stalled' \in 0..NotLost /\ remembered' \in 0..NotLost
  <2>1. Status' = Status /\ NotLost' = NotLost
    BY DEF Status, NotLost
  <2>2. TypeOK'
    BY <1>0, <1>3, <2>1 DEF Types, TypeOK
  <2>3. stalled' \in Nat /\ remembered' \in Nat
    BY <1>2, <1>3
  <2>4. QED
    BY <1>0, <1>3, <2>2, <2>3 DEF Types
<1>4. CASE UNCHANGED <<health, playing, active, history>>
  BY <1>1, <1>4 DEF health, history
<1>5. CASE /\ tracked' = [tracked EXCEPT ![Leader] = NoSession]
           /\ published' = [published EXCEPT ![Leader] = Unknown]
           /\ statuses' = Nothing /\ loss' = NotLost /\ paused' = FALSE
           /\ UNCHANGED <<playing, active, history>>
  <2>1. Unknown \in Status /\ Nothing \in [Peer -> Status] /\ NotLost \in 0..NotLost
    BY <1>2 DEF Status, Nothing
  <2>2. QED
    BY <1>1, <1>2, <1>5, <2>1 DEF history
<1>6. CASE Looks /\ UNCHANGED misled
  <2> DEFINE since == IF LossFor(session) = NotLost THEN 0 ELSE LossFor(session)
  <2>1. /\ PublishedAt(Leader, session) \in Status
        /\ StatusesFor(session) \in [Peer -> Status]
        /\ LossFor(session) \in 0..NotLost /\ PausedFor(session) \in BOOLEAN
    BY <1>2, TrackedTypes, PeerAssumption
  <2>2. since \in 0..NotLost /\ since # NotLost
    BY <1>2, <2>1, SessionTypes
  <2>3. /\ tracked' = [tracked EXCEPT ![Leader] = session]
        /\ published' = [published EXCEPT ![Leader] = PublishedAt(Leader, session)]
        /\ statuses' = StatusesFor(session)
        /\ loss' \in {NotLost, since}
        /\ paused' \in BOOLEAN /\ playing' \in BOOLEAN /\ active' \in BOOLEAN
        /\ stalled' \in {0, Smaller(stalled + 1, NotLost)}
        /\ remembered' = Smaller(remembered + 1, NotLost)
        /\ misled' = misled
    BY <1>6 DEF Looks
  <2>4. recovered' \in BOOLEAN /\ forgot' \in BOOLEAN
    BY <1>6, Zenon DEF Looks
  <2>5. paused' => loss' = since
    BY <1>6 DEF Looks
  <2> HIDE DEF since
  <2>6. tracked' \in [Peer -> 0..MaxSessions] /\ tracked' \in [Peer -> 0..tracks]
    BY <1>1, <1>2, <2>3
  <2>7. published' \in [Peer -> Status] /\ statuses' \in [Peer -> Status]
    BY <1>1, <2>1, <2>3
  <2>8. /\ loss' \in 0..NotLost /\ (paused' => loss' # NotLost)
        /\ stalled' \in 0..NotLost /\ remembered' \in 0..NotLost
    BY <1>1, <1>2, <2>2, <2>3, <2>5 DEF Smaller
  <2>9. misled' \in BOOLEAN
    BY <1>1, <2>3
  <2>10. QED
    BY <2>3, <2>4, <2>6, <2>7, <2>8, <2>9, Zenon
<1>7. QED
  BY <1>4, <1>5, <1>6 DEF LocalTick

(* And a second. *)
LEMMA TickTypes ==
  ASSUME Types, Tick
  PROVE  Types'
<1>1. ASSUME NEW status \in Status, NEW oldest \in 0..StaleAfter + PublishMinInterval
      PROVE  Older(status, oldest) \in Status
  <2>0. StaleAfter + PublishMinInterval \in Nat /\ oldest \in Nat
    BY TimeAssumption
  <2>1. CASE status = Unknown
    BY <2>1 DEF Older, Status
  <2>2. CASE status # Unknown
    <3>1. status \in [status : Conditions, until : 0..Duration,
                      age : 0..StaleAfter + PublishMinInterval]
      BY <2>2 DEF Status, Conditions
    <3>2. Smaller(status.age + 1, oldest) \in 0..StaleAfter + PublishMinInterval
      BY <2>0, <3>1 DEF Smaller
    <3>3. [status EXCEPT !.age = Smaller(@ + 1, oldest)] \in
            [status : Conditions, until : 0..Duration,
             age : 0..StaleAfter + PublishMinInterval]
      BY <3>1, <3>2
    <3>4. QED
      BY <2>2, <3>3 DEF Older, Status, Conditions
  <2>3. QED
    BY <2>1, <2>2
<1>2. /\ PublishMinInterval \in 0..StaleAfter + PublishMinInterval
      /\ StaleAfter + 1 \in 0..StaleAfter + PublishMinInterval
  BY TimeAssumption
<1>3. published' \in [Peer -> Status] /\ statuses' \in [Peer -> Status]
  BY <1>1, <1>2 DEF Tick, Types, TypeOK
<1>4. loss' \in 0..NotLost /\ (paused' => loss' # NotLost)
  BY SessionTypes DEF Tick, Types, TypeOK, Smaller
<1>5. position' \in 0..Duration
  BY TimeAssumption DEF Tick, Types, TypeOK
<1>6. due' = TRUE /\ UNCHANGED <<tracks, session, playing, active, streams, tracked, paused,
                                 messages, stalled, remembered, forgot, recovered, misled>>
  BY DEF Tick, history
<1>7. TypeOK'
  BY <1>3, <1>4, <1>5, <1>6 DEF Types, TypeOK, Status, NotLost
<1>8. QED
  BY <1>6, <1>7 DEF Types

(* And the steps of the room's playback and of the network. *)
LEMMA RoomTypes ==
  ASSUME Types, Lose \/ StartTrack \/ PlayOn \/ OperationEnds \/ Pause \/ StopPlayback
  PROVE  Types'
<1>0. 0 \in 0..Duration /\ MaxSessions \in Nat
  BY TimeAssumption, BoundsAssumption
<1>1. [p \in Peer |-> NewStream] \in [Peer -> [status : Conditions, until : 0..Duration]]
  BY <1>0 DEF NewStream, Conditions
<1>2. CASE Lose
  <2>1. PICK m \in messages : messages' = messages \ {m} /\ misled' \in BOOLEAN
    BY <1>2 DEF Lose, Types, TypeOK
  <2>2. UNCHANGED <<tracks, session, position, playing, active, streams, tracked, published,
                    statuses, loss, paused, due, stalled, remembered, forgot, recovered>>
    BY <1>2 DEF Lose, room, health
  <2>3. TypeOK'
    BY <2>1, <2>2 DEF Types, TypeOK, Status, NotLost
  <2>4. QED
    BY <2>1, <2>2, <2>3 DEF Types
<1>3. CASE StartTrack
  <2>1. /\ tracks' = tracks + 1 /\ tracks < MaxSessions
        /\ session' = tracks' /\ position' = 0 /\ playing' = FALSE /\ active' = TRUE
        /\ streams' = [p \in Peer |-> NewStream]
        /\ stalled' = 0 /\ remembered' = NotLost
        /\ forgot' = FALSE /\ recovered' = TRUE /\ misled' = FALSE
        /\ UNCHANGED <<tracked, published, statuses, loss, paused, messages, due>>
    BY <1>3 DEF StartTrack, Operate, health
  <2>2. tracks' \in 0..MaxSessions /\ 0..tracks \subseteq 0..tracks'
        /\ 1..tracks \subseteq 1..tracks'
    BY <1>0, <2>1, SessionTypes
  <2>3. tracked' \in [Peer -> 0..tracks'] /\ \A m \in messages' : m.session \in 1..tracks'
    BY <2>1, <2>2 DEF Types, TypeOK
  <2>4. NotLost \in Nat /\ {stalled', remembered'} \subseteq 0..NotLost
    BY <2>1, SessionTypes
  <2>5. TypeOK'
    BY <1>0, <2>1, <2>2, <2>3, <2>4 DEF Types, TypeOK, Status, NotLost
  <2>6. stalled' \in Nat /\ remembered' \in Nat
    BY <2>1, <2>4
  <2>7. QED
    BY <1>1, <2>1, <2>3, <2>5, <2>6 DEF Types
<1>4. CASE PlayOn \/ OperationEnds \/ Pause
  <2>1. /\ playing' \in BOOLEAN /\ active' \in BOOLEAN
        /\ UNCHANGED <<tracks, session, position, streams, tracked, published, statuses,
                       loss, paused, messages, due, stalled, remembered, forgot,
                       recovered, misled>>
    BY <1>4 DEF PlayOn, Operate, OperationEnds, Pause, health, history, Types, TypeOK
  <2>2. TypeOK'
    BY <2>1 DEF Types, TypeOK, Status, NotLost
  <2>3. QED
    BY <2>1, <2>2 DEF Types
<1>5. CASE StopPlayback
  <2>1. /\ session' = NoSession /\ position' = 0 /\ playing' = FALSE
        /\ streams' = [p \in Peer |-> NewStream]
        /\ UNCHANGED <<tracks, active, tracked, published, statuses, loss, paused,
                       messages, due, stalled, remembered, forgot, recovered, misled>>
    BY <1>5 DEF StopPlayback, health, history
  <2>2. TypeOK'
    BY <1>0, <2>1 DEF Types, TypeOK, Status, NotLost
  <2>3. QED
    BY <1>1, <2>1, <2>2 DEF Types
<1>6. QED
  BY <1>2, <1>3, <1>4, <1>5

LEMMA TypesStep == Types /\ [Next]_vars => Types'
<1>1. ASSUME Types, UNCHANGED vars PROVE Types'
  BY <1>1 DEF vars, room, health, history, Types, TypeOK, Status, NotLost
<1>2. ASSUME Types, Next PROVE Types'
  BY <1>2, ReportTypes, ReceiveTypes, LocalTickTypes, TickTypes, RoomTypes DEF Next
<1>3. QED
  BY <1>1, <1>2
-----------------------------------------------------------------------------
(* What the leader knows *)

\* What is known of a stream of this session as ready, or is on its way, the stream has.
KnownStatuses ==
  tracked[Leader] = session =>
    \A p \in Peer : statuses[p] # Unknown /\ statuses[p].status = "Ready" =>
                      statuses[p].until <= streams[p].until

KnownMessages ==
  \A m \in messages : m.to = Leader /\ m.session = session /\ m.status = "Ready" =>
                        m.until <= streams[m.from].until

Known == session # NoSession => KnownStatuses /\ KnownMessages

(* What the leader tracks of the session is known, whether it tracked it before. *)
LEMMA StatusesForKnown ==
  ASSUME Types, KnownStatuses, NEW p \in Peer,
         StatusesFor(session)[p] # Unknown, StatusesFor(session)[p].status = "Ready"
  PROVE  StatusesFor(session)[p].until <= streams[p].until
  BY DEF KnownStatuses, StatusesFor, Nothing

LEMMA ReportKnown ==
  ASSUME Types, Known, NEW p \in Peer, Report(p)
  PROVE  Known'
<1>1. PICK stream \in [status : {"Ready", "Buffering", "Failed"}, until : 0..Duration] :
         /\ stream.until \in {streams[p].until, streams[p].until + 1}
         /\ streams' = [streams EXCEPT ![p] = stream]
         /\ Publish(p, IF stream.status = "Failed" THEN [stream EXCEPT !.until = 0]
                       ELSE stream)
  BY DEF Report
<1> DEFINE said == IF stream.status = "Failed" THEN [stream EXCEPT !.until = 0]
                   ELSE stream
           next == [status |-> said.status, until |-> said.until, age |-> 0]
<1>2. session # NoSession /\ session' = session
  BY DEF Report, room
<1>3. stream \in StreamType
  BY DEF StreamType, Conditions
<1>4. said \in StreamType /\ (said.status = "Ready" => said.until = stream.until)
  BY <1>3, SaidOfStream
<1>5. Publish(p, said)
  BY <1>1
<1> HIDE DEF said
<1>6. streams \in [Peer -> StreamType] /\ streams' \in [Peer -> StreamType]
      /\ streams'[p] = stream
  BY <1>1, <1>3 DEF Types, StreamType
<1>7. \A q \in Peer : streams[q].until \in Nat /\ streams'[q].until \in Nat
                      /\ streams[q].until <= streams'[q].until
  <2>1. \A q \in Peer : streams[q].until \in Nat /\ streams'[q].until \in Nat
    BY <1>6, TimeAssumption DEF StreamType
  <2>2. \A q \in Peer : streams[q].until <= streams'[q].until
    BY <1>1, <1>6, <2>1
  <2>3. QED
    BY <2>1, <2>2
<1>8. said.status = "Ready" => said.until = streams'[p].until
  BY <1>4, <1>6
<1>9. /\ tracked' = [tracked EXCEPT ![p] = session]
      /\ messages' \subseteq messages \cup {Message(q, p, said) : q \in Peer \ {p}}
      /\ \/ p = Leader /\ statuses' = [StatusesFor(session) EXCEPT ![p] = next]
         \/ p # Leader /\ UNCHANGED statuses
  BY <1>2, <1>4, <1>5, PublishMoves
<1>10. StatusesFor(session) \in [Peer -> Status] /\ statuses \in [Peer -> Status]
  BY SessionTypes, TrackedTypes DEF Types, TypeOK
<1>11. \A status \in Status : status # Unknown => status.until \in Nat
  BY TimeAssumption DEF Status
<1>12. KnownStatuses'
  <2> SUFFICES ASSUME tracked'[Leader] = session', NEW q \in Peer,
                      statuses'[q] # Unknown, statuses'[q].status = "Ready"
               PROVE  statuses'[q].until <= streams'[q].until
    BY DEF KnownStatuses, Unknown
  <2>1. CASE p = Leader /\ q = p
    <3>1. statuses'[q] = next
      BY <1>9, <1>10, <2>1
    <3>2. QED
      BY <1>7, <1>8, <2>1, <3>1
  <2>2. CASE p = Leader /\ q # p
    <3>1. statuses'[q] = StatusesFor(session)[q]
      BY <1>9, <1>10, <2>2
    <3>2. statuses'[q].until <= streams[q].until
      BY <1>2, <3>1, StatusesForKnown DEF Known
    <3>3. QED
      BY <1>7, <1>10, <1>11, <3>1, <3>2
  <2>3. CASE p # Leader
    <3>1. tracked[Leader] = session /\ statuses'[q] = statuses[q]
      BY <1>2, <1>9, <2>3, PeerAssumption DEF Types, TypeOK
    <3>2. statuses[q].until <= streams[q].until
      BY <1>2, <3>1 DEF Known, KnownStatuses
    <3>3. QED
      BY <1>7, <1>10, <1>11, <3>1, <3>2
  <2>4. QED
    BY <2>1, <2>2, <2>3
<1>13. KnownMessages'
  <2> SUFFICES ASSUME NEW m \in messages', m.to = Leader, m.session = session',
                      m.status = "Ready"
               PROVE  m.until <= streams'[m.from].until
    BY DEF KnownMessages
  <2>1. CASE m \in messages
    <3>1. m.from \in Peer /\ m.until \in Nat
      BY <2>1, TimeAssumption DEF Types
    <3>2. m.until <= streams[m.from].until
      BY <1>2, <2>1 DEF Known, KnownMessages
    <3>3. QED
      BY <1>7, <3>1, <3>2
  <2>2. CASE m \notin messages
    <3>1. PICK q \in Peer : m = Message(q, p, said)
      BY <1>9, <2>2
    <3>2. said \in [status : Conditions, until : 0..Duration]
      BY <1>4 DEF StreamType
    <3>3. m.to = q /\ m.from = p /\ (q = Leader => m.status = said.status /\ m.until = said.until)
      BY <3>1, <3>2, MessageFields
    <3>4. QED
      BY <1>7, <1>8, <3>3
  <2>3. QED
    BY <2>1, <2>2
<1>14. QED
  BY <1>12, <1>13 DEF Known

LEMMA ReceiveKnown ==
  ASSUME Types, Known, Receive
  PROVE  Known'
<1>1. PICK m \in messages :
         /\ messages' = messages \ {m}
         /\ tracked' = [tracked EXCEPT ![m.to] = m.session]
         /\ IF m.to = Leader
            THEN statuses' = [StatusesFor(m.session) EXCEPT ![m.from] =
                                [status |-> m.status, until |-> m.until, age |-> 0]]
            ELSE UNCHANGED statuses
  BY DEF Receive
<1>2. UNCHANGED <<session, streams>>
  BY DEF Receive, room
<1>3. m.to \in Peer /\ m.from \in Peer /\ m.session \in Nat /\ tracked \in [Peer -> Nat]
  BY SessionTypes, BoundsAssumption DEF Types, TypeOK
<1>4. session # NoSession => KnownMessages'
  BY <1>1, <1>2 DEF Known, KnownMessages
<1>5. session # NoSession => KnownStatuses'
  <2> SUFFICES ASSUME session # NoSession, tracked'[Leader] = session, NEW q \in Peer,
                      statuses'[q] # Unknown, statuses'[q].status = "Ready"
               PROVE  statuses'[q].until <= streams[q].until
    BY <1>2 DEF KnownStatuses, Unknown
  <2>1. CASE m.to = Leader
    <3>1. m.session = session
      BY <1>1, <1>3, <2>1
    <3>2. StatusesFor(session) \in [Peer -> Status]
      BY <1>3, <3>1, TrackedTypes
    <3>3. CASE q = m.from
      <4>1. statuses'[q] = [status |-> m.status, until |-> m.until, age |-> 0]
        BY <1>1, <1>3, <2>1, <3>1, <3>2, <3>3
      <4>2. m.status = "Ready" /\ statuses'[q].until = m.until
        BY <4>1
      <4>3. QED
        BY <2>1, <3>1, <3>3, <4>2 DEF Known, KnownMessages
    <3>4. CASE q # m.from
      <4>1. statuses'[q] = StatusesFor(session)[q]
        BY <1>1, <2>1, <3>1, <3>2, <3>4
      <4>2. QED
        BY <4>1, StatusesForKnown DEF Known
    <3>5. QED
      BY <3>3, <3>4
  <2>2. CASE m.to # Leader
    <3>1. tracked[Leader] = session /\ statuses' = statuses
      BY <1>1, <1>3, <2>2, PeerAssumption
    <3>2. QED
      BY <3>1 DEF Known, KnownStatuses
  <2>3. QED
    BY <2>1, <2>2
<1>6. QED
  BY <1>2, <1>4, <1>5 DEF Known

LEMMA TickKnown ==
  ASSUME Types, Known, Tick
  PROVE  Known'
<1>1. UNCHANGED <<session, streams, tracked, messages>>
  BY DEF Tick
<1>2. \A p \in Peer : statuses'[p] = Older(statuses[p], StaleAfter + 1)
  BY DEF Tick
<1>3. ASSUME NEW p \in Peer, statuses'[p] # Unknown, statuses'[p].status = "Ready"
      PROVE  /\ statuses[p] # Unknown /\ statuses[p].status = "Ready"
             /\ statuses'[p].until = statuses[p].until
  <2>1. statuses[p] # Unknown
    BY <1>2, <1>3 DEF Older
  <2>2. statuses[p] \in [status : Conditions, until : 0..Duration,
                         age : 0..StaleAfter + PublishMinInterval]
    BY <2>1 DEF Types, TypeOK, Status, Conditions
  <2>3. statuses'[p] = [statuses[p] EXCEPT !.age = Smaller(@ + 1, StaleAfter + 1)]
    BY <1>2, <2>1 DEF Older
  <2>4. statuses'[p].status = statuses[p].status /\ statuses'[p].until = statuses[p].until
    BY <2>2, <2>3
  <2>5. QED
    BY <1>3, <2>1, <2>4
<1>4. session # NoSession => KnownStatuses'
  BY <1>1, <1>3 DEF Known, KnownStatuses, Unknown
<1>5. session # NoSession => KnownMessages'
  BY <1>1 DEF Known, KnownMessages
<1>6. QED
  BY <1>1, <1>4, <1>5 DEF Known

LEMMA LocalTickKnown ==
  ASSUME Types, Known, LocalTick
  PROVE  Known'
<1>1. UNCHANGED <<session, streams, messages>>
  BY DEF LocalTick
<1>2. session # NoSession =>
        \/ UNCHANGED <<tracked, statuses>>
        \/ statuses' = StatusesFor(session)
  BY DEF LocalTick, Looks, health
<1>3. ASSUME session # NoSession PROVE KnownStatuses'
  <2>1. CASE UNCHANGED <<tracked, statuses>>
    BY <1>1, <1>3, <2>1 DEF Known, KnownStatuses, Unknown
  <2>2. CASE statuses' = StatusesFor(session)
    BY <1>1, <1>3, <2>2, StatusesForKnown DEF Known, KnownStatuses, Unknown
  <2>3. QED
    BY <1>2, <1>3, <2>1, <2>2
<1>4. session # NoSession => KnownMessages'
  BY <1>1 DEF Known, KnownMessages
<1>5. QED
  BY <1>1, <1>3, <1>4 DEF Known

(* Nothing is known yet of the session of a new track. *)
LEMMA RoomKnown ==
  ASSUME Types, Known,
         Lose \/ StartTrack \/ PlayOn \/ OperationEnds \/ Pause \/ StopPlayback
  PROVE  Known'
<1>1. CASE StartTrack
  <2>1. session' = tracks + 1 /\ UNCHANGED <<tracked, messages>>
    BY <1>1 DEF StartTrack, Operate, health
  <2>2. tracked'[Leader] # session' /\ \A m \in messages' : m.session # session'
    BY <2>1, SessionTypes, PeerAssumption
  <2>3. QED
    BY <2>2 DEF Known, KnownStatuses, KnownMessages
<1>2. CASE StopPlayback
  BY <1>2 DEF StopPlayback, Known, NoSession
<1>3. CASE Lose \/ PlayOn \/ OperationEnds \/ Pause
  <2>1. UNCHANGED <<session, streams, tracked, statuses>> /\ messages' \subseteq messages
    BY <1>3 DEF Lose, PlayOn, Operate, OperationEnds, Pause, room, health
  <2>2. QED
    BY <2>1 DEF Known, KnownStatuses, KnownMessages, Unknown
<1>4. QED
  BY <1>1, <1>2, <1>3

(* The leader counts nobody as healthy who is not far enough. *)
LEMMA HealthyAreFar ==
  ASSUME Types, KnownStatuses
  PROVE  Healthy(StatusesFor(session)) \subseteq FarEnough
<1>1. SUFFICES ASSUME NEW p \in Peer, IsHealthy(StatusesFor(session)[p], position + LowWatermark)
               PROVE  p \in FarEnough
  BY DEF Healthy
<1> DEFINE status == StatusesFor(session)[p]
<1>2. status # Unknown /\ status.status = "Ready" /\ status.until >= position + LowWatermark
  BY <1>1 DEF IsHealthy
<1>3. status \in Status
  BY SessionTypes, TrackedTypes
<1> HIDE DEF status
<1>4. status.until \in Nat /\ position \in Nat /\ LowWatermark \in Nat
      /\ streams[p].until \in Nat
  BY <1>2, <1>3, TimeAssumption DEF Status, Types, TypeOK
<1>5. status.until <= streams[p].until
  BY <1>2, StatusesForKnown DEF status
<1>6. QED
  BY <1>2, <1>4, <1>5 DEF FarEnough
-----------------------------------------------------------------------------
(* The pause and the count *)

\* The leader knows of the pause unless there was a majority since or it forgot.
PausedOnce ==
  session # NoSession => ((tracked[Leader] = session /\ paused) <=> PausedBefore)

\* Looks in a row that found no majority far enough and that the leader remembers
Remembered == Smaller(stalled, remembered)

\* The leader counts at least as long as there is no majority and it does not forget.
Counted ==
  /\ Remembered <= LossGrace \/ PausedBefore
  /\ session # NoSession /\ Remembered > 0 /\ ~PausedBefore =>
       /\ tracked[Leader] = session
       /\ loss <= LossGrace
       /\ Remembered <= loss + (IF due THEN 0 ELSE 1)

(* What is counted of a stall is a number. *)
LEMMA RememberedType ==
  ASSUME Types
  PROVE  Remembered \in Nat /\ Remembered <= stalled /\ Remembered <= remembered
BY DEF Types, Remembered, Smaller

(* A step of the leader or a message to it that does not change the room's session
   starts to track the session with no count and no pause. *)
LEMMA TrackingKeeps ==
  ASSUME Types, PausedOnce, Counted, session # NoSession,
         tracked'[Leader] = session, loss' = LossFor(session), paused' = PausedFor(session),
         UNCHANGED <<session, due, stalled, remembered, forgot, recovered>>
  PROVE  PausedOnce' /\ Counted'
<1>0. Remembered' = Remembered /\ PausedBefore' = PausedBefore /\ LossGrace \in Nat
      /\ Remembered \in Nat
  BY SessionTypes, RememberedType DEF Remembered, PausedBefore
<1>1. CASE tracked[Leader] = session
  <2>1. loss' = loss /\ paused' = paused
    BY <1>1, Zenon DEF LossFor, PausedFor, Types, TypeOK
  <2>2. PausedOnce'
    BY <1>0, <1>1, <2>1 DEF PausedOnce
  <2>3. Counted'
    BY <1>0, <1>1, <2>1 DEF Counted
  <2>4. QED
    BY <2>2, <2>3
<1>2. CASE tracked[Leader] # session
  <2>1. ~PausedBefore /\ Remembered = 0
    BY <1>0, <1>2 DEF Counted, PausedOnce
  <2>2. paused' = FALSE
    BY <1>2 DEF PausedFor
  <2>3. PausedOnce'
    BY <1>0, <2>1, <2>2 DEF PausedOnce
  <2>4. Counted'
    BY <1>0, <2>1 DEF Counted
  <2>5. QED
    BY <2>3, <2>4
<1>3. QED
  BY <1>1, <1>2

(* What the leader does not take part in leaves it all as it was. *)
LEMMA CountKeeps ==
  ASSUME Types, PausedOnce, Counted, tracked'[Leader] = tracked[Leader],
         UNCHANGED <<session, due, loss, paused, stalled, remembered, forgot, recovered>>
  PROVE  PausedOnce' /\ Counted'
<1>1. Remembered' = Remembered /\ PausedBefore' = PausedBefore
  BY DEF Remembered, PausedBefore
<1>2. PausedOnce'
  BY <1>1 DEF PausedOnce
<1>3. Counted'
  BY <1>1 DEF Counted
<1>4. QED
  BY <1>2, <1>3

LEMMA ReportCounts ==
  ASSUME Types, PausedOnce, Counted, NEW p \in Peer, Report(p)
  PROVE  PausedOnce' /\ Counted'
<1>1. session # NoSession /\ UNCHANGED <<session, due, stalled, remembered, forgot, recovered>>
  BY DEF Report, room, history
<1>2. tracked' = [tracked EXCEPT ![p] = session]
      /\ \/ p = Leader /\ loss' = LossFor(session) /\ paused' = PausedFor(session)
         \/ p # Leader /\ UNCHANGED <<loss, paused>>
  BY DEF Report, Publish
<1>3. CASE p = Leader
  <2>1. tracked'[Leader] = session
    BY <1>2, <1>3 DEF Types, TypeOK
  <2>2. QED
    BY <1>1, <1>2, <1>3, <2>1, TrackingKeeps
<1>4. CASE p # Leader
  <2>1. tracked'[Leader] = tracked[Leader]
    BY <1>2, <1>4, PeerAssumption DEF Types, TypeOK
  <2>2. QED
    BY <1>1, <1>2, <1>4, <2>1, CountKeeps
<1>5. QED
  BY <1>3, <1>4

(* When the leader forgets, it has nothing more to remember and no pause that it knows. *)
LEMMA ReceiveCounts ==
  ASSUME Types, PausedOnce, Counted, Receive
  PROVE  PausedOnce' /\ Counted'
<1>1. PICK m \in messages :
         /\ tracked' = [tracked EXCEPT ![m.to] = m.session]
         /\ IF m.to = Leader
            THEN /\ loss' = LossFor(m.session)
                 /\ paused' = PausedFor(m.session)
                 /\ remembered' = IF Forgets(m.session) THEN 0 ELSE remembered
                 /\ forgot' = (forgot \/ Forgets(m.session))
                 /\ UNCHANGED <<stalled, recovered>>
            ELSE UNCHANGED <<loss, paused, stalled, remembered, forgot, recovered>>
  BY DEF Receive, history
<1>2. UNCHANGED <<session, due>>
  BY DEF Receive, room
<1>3. /\ m.to \in Peer /\ tracked \in [Peer -> Nat] /\ LossGrace \in Nat
      /\ stalled \in Nat /\ remembered \in Nat /\ forgot \in BOOLEAN
  BY SessionTypes, BoundsAssumption DEF Types, TypeOK
<1>4. CASE m.to # Leader
  <2>1. tracked'[Leader] = tracked[Leader]
        /\ UNCHANGED <<loss, paused, stalled, remembered, forgot, recovered>>
    BY <1>1, <1>3, <1>4, PeerAssumption
  <2>2. QED
    BY <1>2, <2>1, CountKeeps
<1>5. CASE m.to = Leader /\ ~Forgets(m.session)
  <2>1. forgot' = (forgot \/ FALSE)
    BY <1>1, <1>5, Zenon
  <2>2. forgot' = forgot
    BY <1>3, <2>1
  <2>3. /\ tracked'[Leader] = m.session /\ UNCHANGED <<stalled, remembered, recovered>>
        /\ loss' = LossFor(m.session) /\ paused' = PausedFor(m.session)
    BY <1>1, <1>3, <1>5
  <2>4. Remembered' = Remembered /\ PausedBefore' = PausedBefore
    BY <2>2, <2>3 DEF Remembered, PausedBefore
  <2>5. CASE session = NoSession
    BY <1>2, <2>4, <2>5 DEF PausedOnce, Counted
  <2>6. CASE session # NoSession /\ m.session = session
    BY <1>2, <2>2, <2>3, <2>6, TrackingKeeps
  <2>7. CASE session # NoSession /\ m.session # session
    <3>1. tracked[Leader] # session
      BY <1>5, <2>7 DEF Forgets
    <3>2. ~PausedBefore /\ Remembered = 0
      BY <2>7, <3>1, RememberedType DEF Counted, PausedOnce
    <3>3. PausedOnce'
      BY <1>2, <2>3, <2>4, <2>7, <3>2 DEF PausedOnce
    <3>4. Counted'
      BY <1>2, <1>3, <2>4, <3>2 DEF Counted
    <3>5. QED
      BY <3>3, <3>4
  <2>8. QED
    BY <2>5, <2>6, <2>7
<1>6. CASE m.to = Leader /\ Forgets(m.session)
  <2>1. m.session # session /\ tracked'[Leader] = m.session
    BY <1>1, <1>3, <1>6 DEF Forgets
  <2>2. remembered' = 0 /\ stalled' = stalled
    BY <1>1, <1>6
  <2>3. forgot' = (forgot \/ TRUE)
    BY <1>1, <1>6, Zenon
  <2>4. Remembered' = 0
    BY <1>3, <2>2 DEF Remembered, Smaller
  <2>5. ~PausedBefore'
    BY <2>3 DEF PausedBefore
  <2>6. PausedOnce'
    BY <1>2, <2>1, <2>5 DEF PausedOnce
  <2>7. Counted'
    BY <1>3, <2>4 DEF Counted
  <2>8. QED
    BY <2>6, <2>7
<1>7. QED
  BY <1>4, <1>5, <1>6

(* A look at the buffers counts on, or pauses the room and starts anew. *)
LEMMA LooksCount ==
  ASSUME Types, Known, PausedOnce, Counted, session # NoSession, due,
         session' = session, due' = FALSE, Looks
  PROVE  PausedOnce' /\ Counted'
<1> DEFINE since == IF LossFor(session) = NotLost THEN 0 ELSE LossFor(session)
           is_majority == IsMajority(Healthy(StatusesFor(session)))
           pauses == ~is_majority /\ ~PausedFor(session) /\ since >= LossGrace
<1>1. /\ tracked' = [tracked EXCEPT ![Leader] = session]
      /\ loss' = IF is_majority THEN NotLost ELSE since
      /\ paused' = (~is_majority /\ (PausedFor(session) \/ pauses))
      /\ recovered' = (is_majority \/ (recovered /\ ~pauses))
      /\ forgot' = (forgot /\ ~pauses)
      /\ remembered' = Smaller(remembered + 1, NotLost)
      /\ stalled' = IF IsMajority(FarEnough) \/ pauses THEN 0
                    ELSE Smaller(stalled + 1, NotLost)
  BY DEF Looks
<1>2. tracked'[Leader] = session
  BY <1>1, PeerAssumption DEF Types, TypeOK
<1>3. LossGrace \in Nat /\ NotLost = LossGrace + 1 /\ LossFor(session) \in 0..NotLost
      /\ stalled \in Nat /\ remembered \in Nat
  BY SessionTypes, TrackedTypes DEF Types
<1>4. since \in 0..LossGrace
  BY <1>3
<1>5. PausedFor(session) <=> PausedBefore
  BY DEF PausedOnce, PausedFor
<1>6. is_majority => IsMajority(FarEnough)
  <2>1. Healthy(StatusesFor(session)) \subseteq FarEnough /\ FarEnough \subseteq Peer
    BY HealthyAreFar DEF Known, FarEnough
  <2>2. QED
    BY <2>1, LargerIsMajority
<1>7. ~PausedBefore => Remembered <= since
  <2>1. ASSUME ~PausedBefore, Remembered > 0 PROVE Remembered <= since
    <3>1. tracked[Leader] = session /\ loss <= LossGrace /\ Remembered <= loss
      BY <1>3, <2>1, RememberedType DEF Counted, Types, TypeOK
    <3>2. LossFor(session) = loss /\ loss # NotLost
      BY <1>3, <3>1 DEF LossFor, Types, TypeOK
    <3>3. QED
      BY <3>1, <3>2
  <2>2. QED
    BY <1>4, <2>1, RememberedType
<1>8. Remembered' <= Remembered + 1 /\ Remembered' \in Nat /\ Remembered \in Nat
  <2>1. Remembered \in Nat
    BY RememberedType
  <2>2. stalled' \in {0, Smaller(stalled + 1, NotLost)}
    BY <1>1
  <2>3. QED
    BY <1>1, <1>3, <2>1, <2>2 DEF Remembered, Smaller
<1>9. IsMajority(FarEnough) \/ pauses => Remembered' = 0
  <2>1. ASSUME IsMajority(FarEnough) \/ pauses PROVE stalled' = 0
    BY <1>1, <2>1
  <2>2. QED
    BY <1>1, <1>3, <2>1 DEF Remembered, Smaller
<1> HIDE DEF since, is_majority
<1>10. paused' <=> PausedBefore'
  <2>1. PausedBefore' <=> ~recovered' /\ ~forgot'
    BY Zenon DEF PausedBefore
  <2>2. QED
    BY <1>1, <1>5, <2>1, Zenon DEF PausedBefore
<1>11. PausedOnce'
  BY <1>2, <1>10 DEF PausedOnce
<1>12. Counted'
  <2>1. CASE IsMajority(FarEnough) \/ pauses
    BY <1>3, <1>9, <2>1 DEF Counted
  <2>2. CASE PausedBefore'
    BY <2>2 DEF Counted
  <2>3. CASE ~(IsMajority(FarEnough) \/ pauses) /\ ~PausedBefore'
    <3>1. ~is_majority /\ ~pauses
      BY <1>6, <2>3
    <3>2. ~PausedBefore
      <4>1. ~PausedFor(session)
        BY <1>1, <1>10, <2>3, <3>1, Zenon
      <4>2. QED
        BY <1>5, <4>1
    <3>3. since < LossGrace
      BY <1>3, <1>4, <1>5, <3>1, <3>2
    <3>4. loss' = since
      BY <1>1, <3>1
    <3>5. Remembered' <= since + 1
      BY <1>3, <1>4, <1>7, <1>8, <3>2
    <3>6. QED
      BY <1>2, <1>3, <1>4, <1>8, <3>3, <3>4, <3>5 DEF Counted
  <2>4. QED
    BY <2>1, <2>2, <2>3
<1>13. QED
  BY <1>11, <1>12

LEMMA LocalTickCounts ==
  ASSUME Types, Known, PausedOnce, Counted, LocalTick
  PROVE  PausedOnce' /\ Counted'
<1>1. session' = session /\ due /\ due' = FALSE
  BY DEF LocalTick
<1>2. CASE session = NoSession
  <2>1. UNCHANGED history
    BY <1>2 DEF LocalTick
  <2>2. Remembered' = Remembered /\ PausedBefore' = PausedBefore
    BY <2>1 DEF history, Remembered, PausedBefore
  <2>3. QED
    BY <1>1, <1>2, <2>2 DEF PausedOnce, Counted
<1>3. CASE session # NoSession /\ UNCHANGED <<health, playing, active, history>>
  <2>1. UNCHANGED <<tracked, loss, paused, stalled, remembered, forgot, recovered>>
    BY <1>3 DEF health, history
  <2>2. Remembered' = Remembered /\ PausedBefore' = PausedBefore
    BY <2>1 DEF Remembered, PausedBefore
  <2>3. PausedOnce'
    BY <1>1, <2>1, <2>2 DEF PausedOnce
  <2>4. Counted'
    <3>1. loss \in Nat /\ Remembered \in Nat
      BY SessionTypes, RememberedType DEF Types, TypeOK
    <3>2. QED
      BY <1>1, <2>1, <2>2, <3>1 DEF Counted
  <2>5. QED
    BY <2>3, <2>4
<1>4. CASE session # NoSession /\ Looks
  BY <1>1, <1>4, LooksCount
<1>5. QED
  BY <1>2, <1>3, <1>4 DEF LocalTick

LEMMA TickCounts ==
  ASSUME Types, PausedOnce, Counted, Tick
  PROVE  PausedOnce' /\ Counted'
<1>1. /\ ~due /\ due' = TRUE
      /\ loss' = IF loss = NotLost THEN NotLost ELSE Smaller(loss + 1, LossGrace)
      /\ UNCHANGED <<session, tracked, paused, stalled, remembered, forgot, recovered>>
  BY DEF Tick, history
<1>2. Remembered' = Remembered /\ PausedBefore' = PausedBefore
  BY <1>1 DEF Remembered, PausedBefore
<1>3. PausedOnce'
  BY <1>1, <1>2 DEF PausedOnce
<1>4. loss \in Nat /\ Remembered \in Nat /\ LossGrace \in Nat /\ NotLost = LossGrace + 1
  BY SessionTypes, RememberedType DEF Types, TypeOK
<1>5. Counted'
  BY <1>1, <1>2, <1>4 DEF Counted, Smaller
<1>6. QED
  BY <1>3, <1>5

LEMMA RoomCounts ==
  ASSUME Types, PausedOnce, Counted,
         Lose \/ StartTrack \/ PlayOn \/ OperationEnds \/ Pause \/ StopPlayback
  PROVE  PausedOnce' /\ Counted'
<1>1. CASE StartTrack
  <2>1. /\ session' = tracks + 1 /\ stalled' = 0 /\ remembered' = NotLost
        /\ recovered' = TRUE /\ UNCHANGED tracked
    BY <1>1 DEF StartTrack, Operate, health
  <2>2. tracked'[Leader] # session' /\ LossGrace \in Nat /\ NotLost \in Nat
    BY <2>1, SessionTypes, PeerAssumption
  <2>3. Remembered' = 0 /\ ~PausedBefore'
    BY <2>1, <2>2 DEF Remembered, Smaller, PausedBefore
  <2>4. QED
    BY <2>2, <2>3 DEF PausedOnce, Counted
<1>2. CASE StopPlayback
  <2>1. UNCHANGED history /\ session' = NoSession
    BY <1>2 DEF StopPlayback
  <2>2. Remembered' = Remembered /\ PausedBefore' = PausedBefore
    BY <2>1 DEF history, Remembered, PausedBefore
  <2>3. QED
    BY <2>1, <2>2 DEF PausedOnce, Counted, NoSession
<1>3. CASE Lose \/ PlayOn \/ OperationEnds \/ Pause
  <2>1. UNCHANGED <<session, tracked, loss, paused, due, stalled, remembered, forgot, recovered>>
    BY <1>3 DEF Lose, PlayOn, Operate, OperationEnds, Pause, room, health, history
  <2>2. QED
    BY <2>1, CountKeeps
<1>4. QED
  BY <1>1, <1>2, <1>3
-----------------------------------------------------------------------------
Inv == Types /\ Known /\ PausedOnce /\ Counted

LEMMA InvInit == Init => Inv
<1> SUFFICES ASSUME Init PROVE Inv
  OBVIOUS
<1>1. 0 \in 0..Duration /\ MaxSessions \in Nat /\ 0 \in 0..MaxSessions
      /\ NotLost \in 0..NotLost /\ 0 \in 0..NotLost /\ LossGrace \in Nat /\ NotLost \in Nat
  BY TimeAssumption, BoundsAssumption DEF NotLost
<1>2. Nothing \in [Peer -> Status]
  BY DEF Nothing, Status
<1>3. TypeOK
  BY <1>1, <1>2 DEF Init, TypeOK, NoSession
<1>4. Types
  BY <1>1, <1>3 DEF Init, Types, NewStream, Conditions, NoSession
<1>5. Known /\ PausedOnce /\ Counted
  <2>1. stalled = 0 /\ remembered = NotLost /\ recovered = TRUE /\ session = NoSession
        /\ NotLost \in Nat
    BY <1>1 DEF Init, NotLost
  <2>2. Remembered = 0
    BY <2>1 DEF Remembered, Smaller
  <2>3. QED
    BY <1>1, <2>1, <2>2 DEF Known, PausedOnce, Counted
<1>6. QED
  BY <1>4, <1>5 DEF Inv

LEMMA InvStep == Inv /\ [Next]_vars => Inv'
<1> SUFFICES ASSUME Inv, [Next]_vars PROVE Inv'
  OBVIOUS
<1>1. Types'
  BY TypesStep DEF Inv
<1>2. CASE UNCHANGED vars
  <2>1. UNCHANGED <<session, tracked, statuses, streams, messages, loss, paused, due,
                    stalled, remembered, forgot, recovered>>
    BY <1>2 DEF vars, room, health, history
  <2>2. Known'
    BY <2>1 DEF Inv, Known, KnownStatuses, KnownMessages, Unknown
  <2>3. PausedOnce' /\ Counted'
    BY <2>1, CountKeeps DEF Inv
  <2>4. QED
    BY <1>1, <2>2, <2>3 DEF Inv
<1>3. CASE \E p \in Peer : Report(p)
  BY <1>1, <1>3, ReportKnown, ReportCounts DEF Inv
<1>4. CASE Receive
  BY <1>1, <1>4, ReceiveKnown, ReceiveCounts DEF Inv
<1>5. CASE LocalTick
  BY <1>1, <1>5, LocalTickKnown, LocalTickCounts DEF Inv
<1>6. CASE Tick
  BY <1>1, <1>6, TickKnown, TickCounts DEF Inv
<1>7. CASE Lose \/ StartTrack \/ PlayOn \/ OperationEnds \/ Pause \/ StopPlayback
  BY <1>1, <1>7, RoomKnown, RoomCounts DEF Inv
<1>8. QED
  BY <1>2, <1>3, <1>4, <1>5, <1>6, <1>7 DEF Next

(* What the peers know of each other and of themselves stays typed, for any number of
   peers, any lengths of time and any bounds. *)
THEOREM HealthTypeCorrect == Spec => []TypeOK
<1>1. Inv => TypeOK
  BY DEF Inv, Types
<1>2. QED
  BY <1>1, InvInit, InvStep, PTL DEF Spec

(* A room of any size whose streams are not far enough at a majority of its peers is
   paused when the grace period is over: for a grace period after the leader forgot the
   session for a message of another one it may go on, and no longer, and it is not paused
   again for a loss that the leader knows it paused it for. *)
THEOREM StalledRoomsPause == Spec => []StallsArePaused
<1>1. ASSUME Inv PROVE StallsArePaused
  <2>1. stalled \in Nat /\ remembered \in Nat /\ LossGrace \in Nat
    BY <1>1, SessionTypes DEF Inv, Types
  <2>2. Remembered <= LossGrace \/ PausedBefore
    BY <1>1 DEF Inv, Counted
  <2>3. QED
    BY <2>1, <2>2 DEF StallsArePaused, Remembered, Smaller
<1>2. QED
  BY <1>1, InvInit, InvStep, PTL DEF Spec

(* The leader pauses only at its local tick, and the step counts as one pause. *)
LEMMA PausesAreLooks ==
  ASSUME Inv, [Next]_vars, PausesForLoss
  PROVE  /\ session # NoSession /\ ~PausedFor(session)
         /\ ~IsMajority(Healthy(StatusesFor(session)))
<1>1. CASE UNCHANGED vars
  BY <1>1 DEF vars, room, PausesForLoss
<1>2. CASE (\E p \in Peer : Report(p)) \/ Receive \/ Lose \/ Tick
  BY <1>2 DEF Report, Receive, Lose, Tick, room, PausesForLoss
<1>3. CASE LocalTick
  <2>1. CASE UNCHANGED playing
    BY <2>1 DEF PausesForLoss
  <2>2. CASE session # NoSession /\ Looks
    <3> DEFINE pauses == /\ ~IsMajority(Healthy(StatusesFor(session)))
                         /\ ~PausedFor(session)
                         /\ (IF LossFor(session) = NotLost THEN 0 ELSE LossFor(session))
                              >= LossGrace
    <3>1. playing' = ~pauses
      BY <2>2 DEF Looks
    <3>2. ~playing'
      BY DEF PausesForLoss
    <3>3. QED
      BY <2>2, <3>1, <3>2
  <2>3. QED
    BY <1>3, <2>1, <2>2 DEF LocalTick
<1>4. CASE StartTrack
  <2>1. session' = tracks + 1
    BY <1>4 DEF StartTrack, Operate
  <2>2. QED
    BY <2>1, SessionTypes DEF Inv, PausesForLoss
<1>5. CASE PlayOn \/ OperationEnds \/ Pause \/ StopPlayback
  BY <1>5 DEF PlayOn, OperationEnds, Pause, StopPlayback, PausesForLoss, Inv, Types, TypeOK
<1>6. QED
  BY <1>1, <1>2, <1>3, <1>4, <1>5 DEF Next

(* Between two pauses for a loss there was a majority, or another track, or the leader
   forgot what it knew of the session for a message of another one: the leader does not
   pause again the room that was made to play on without a majority. *)
THEOREM OnePause == Spec => OnePausePerLoss
<1>1. Inv /\ [Next]_vars => (PausesForLoss => recovered \/ forgot)
  BY PausesAreLooks DEF Inv, PausedOnce, PausedFor, PausedBefore
<1>2. QED
  BY <1>1, InvInit, InvStep, PTL DEF Spec, OnePausePerLoss
-----------------------------------------------------------------------------
(* What the leader has been told *)

\* What p published of the room's session, and what the leader knows of it.
Said(p) == PublishedAt(p, session)
Told(p) == StatusesFor(session)[p]

OnItsWay(p) == \E m \in messages : m.to = Leader /\ m.from = p /\ m.session = session

Heard(p) ==
  Said(p) # Unknown =>
    \/ OnItsWay(p)
    \/ Told(p) # Unknown /\ Told(p).status = Said(p).status /\ Told(p).until = Said(p).until

\* The leader knows at least what it published of its own stream.
HeardItself ==
  Said(Leader) # Unknown /\ Said(Leader).status = "Ready" =>
    /\ Told(Leader) # Unknown /\ Told(Leader).status = "Ready"
    /\ Said(Leader).until <= Told(Leader).until
    /\ Said(Leader).until <= streams[Leader].until

\* Unless it missed a message, the leader knows of every peer what that one published, or
\* it is on its way.
Informed ==
  session # NoSession /\ ~misled =>
    HeardItself /\ \A p \in Peer \ {Leader} : Heard(p)

(* What is said and told are statuses. *)
LEMMA SaidTypes ==
  ASSUME Types, NEW p \in Peer
  PROVE  Said(p) \in Status /\ Told(p) \in Status
BY SessionTypes, TrackedTypes DEF Said, Told

(* What has been heard stays heard while nothing more is said and no message lost. *)
LEMMA HeardStill ==
  ASSUME NEW p \in Peer, Heard(p), Said(p)' \in {Unknown, Said(p)}, Told(p)' = Told(p),
         OnItsWay(p) => OnItsWay(p)'
  PROVE  Heard(p)'
BY DEF Heard, Unknown

LEMMA HeardItselfStill ==
  ASSUME HeardItself, Said(Leader)' \in {Unknown, Said(Leader)}, Told(Leader)' = Told(Leader),
         streams'[Leader] = streams[Leader]
  PROVE  HeardItself'
BY DEF HeardItself, Unknown

(* A table of another session tells nothing of this one, one of this session all. *)
LEMMA ToldAfter ==
  ASSUME Types, session' = session, tracked'[Leader] = session, NEW p \in Peer
  PROVE  Told(p)' = statuses'[p]
BY DEF Told, StatusesFor

LEMMA SaidAfter ==
  ASSUME Types, session' = session, NEW p \in Peer
  PROVE  /\ tracked'[p] = session => Said(p)' = published'[p]
         /\ tracked'[p] # session => Said(p)' = Unknown
         /\ tracked'[p] = tracked[p] /\ published'[p] = published[p] => Said(p)' = Said(p)
BY DEF Said, PublishedAt, Unknown

(* A report is sent to the leader when it is published, and told by itself. *)
LEMMA ReportInforms ==
  ASSUME Types, Informed, NEW p \in Peer, Report(p)
  PROVE  Informed'
<1>1. PICK stream \in [status : {"Ready", "Buffering", "Failed"}, until : 0..Duration] :
         /\ stream.until \in {streams[p].until, streams[p].until + 1}
         /\ streams' = [streams EXCEPT ![p] = stream]
         /\ Publish(p, IF stream.status = "Failed" THEN [stream EXCEPT !.until = 0]
                       ELSE stream)
  BY DEF Report
<1> DEFINE said == IF stream.status = "Failed" THEN [stream EXCEPT !.until = 0]
                   ELSE stream
           next == [status |-> said.status, until |-> said.until, age |-> 0]
<1>2. session # NoSession /\ session' = session /\ misled' = misled
  BY DEF Report, room, history
<1>3. stream \in StreamType
  BY DEF StreamType, Conditions
<1>4. said \in StreamType /\ (said.status = "Ready" => said.until = stream.until)
  BY <1>3, SaidOfStream
<1>5. Publish(p, said)
  BY <1>1
<1> HIDE DEF said
<1>6. SUFFICES ASSUME ~misled PROVE HeardItself' /\ \A q \in Peer \ {Leader} : Heard(q)'
  BY <1>2 DEF Informed
<1>7. HeardItself /\ \A q \in Peer \ {Leader} : Heard(q)
  BY <1>2, <1>6 DEF Informed
<1>8. /\ tracked' = [tracked EXCEPT ![p] = session]
      /\ published' = [published EXCEPT ![p] = IF ShouldPublish(Said(p), said) THEN next
                                               ELSE Said(p)]
      /\ messages' = IF ShouldPublish(Said(p), said)
                     THEN messages \cup {Message(q, p, said) : q \in Peer \ {p}}
                     ELSE messages
  BY <1>5 DEF Publish, Said
<1>9. /\ tracked'[p] = session
      /\ \A q \in Peer \ {p} : tracked'[q] = tracked[q] /\ published'[q] = published[q]
      /\ published'[p] = IF ShouldPublish(Said(p), said) THEN next ELSE Said(p)
  BY <1>8 DEF Types, TypeOK
<1>10. Said(p)' = IF ShouldPublish(Said(p), said) THEN next ELSE Said(p)
  BY <1>2, <1>9, SaidAfter
<1>11. \A q \in Peer \ {p} : Said(q)' = Said(q)
  BY <1>2, <1>9, SaidAfter
<1>12. \A q \in Peer : OnItsWay(q) => OnItsWay(q)'
  BY <1>2, <1>8 DEF OnItsWay
<1>13. CASE p = Leader
  <2>1. StatusesFor(session) \in [Peer -> Status]
    BY SessionTypes, TrackedTypes
  <2>2. statuses' = [StatusesFor(session) EXCEPT ![p] = next]
    BY <1>5, <1>13 DEF Publish
  <2>3. \A q \in Peer : Told(q)' = statuses'[q]
    BY <1>2, <1>9, <1>13, ToldAfter
  <2>4. Told(p)' = next
    BY <2>1, <2>2, <2>3
  <2>5. \A q \in Peer \ {p} : Told(q)' = Told(q)
    BY <2>1, <2>2, <2>3 DEF Told
  <2>6. \A q \in Peer \ {Leader} : Heard(q)'
    BY <1>7, <1>11, <1>12, <1>13, <2>5, HeardStill
  <2>7. streams'[p] = stream /\ stream.until \in Nat /\ streams[p].until \in Nat
        /\ streams[p].until <= stream.until
    <3>1. streams'[p] = stream
      BY <1>1 DEF Types
    <3>2. stream.until \in Nat /\ streams[p].until \in Nat
      BY <1>3, TimeAssumption DEF Types, StreamType
    <3>3. QED
      BY <1>1, <3>1, <3>2
  <2>8. next.status = said.status /\ next.until = said.until /\ next # Unknown
    BY DEF Unknown
  <2>9. HeardItself'
    <3> SUFFICES ASSUME Said(Leader)' # Unknown, Said(Leader)'.status = "Ready"
                 PROVE  /\ Told(Leader)' # Unknown /\ Told(Leader)'.status = "Ready"
                        /\ Said(Leader)'.until <= Told(Leader)'.until
                        /\ Said(Leader)'.until <= streams'[Leader].until
      BY DEF HeardItself, Unknown
    <3>1. CASE ShouldPublish(Said(p), said)
      <4>1. Said(p)' = next
        BY <1>10, <3>1
      <4>2. said.status = "Ready" /\ said.until = stream.until
        BY <1>4, <1>13, <2>8, <4>1
      <4>3. QED
        BY <1>13, <2>4, <2>7, <2>8, <4>1, <4>2
    <3>2. CASE ~ShouldPublish(Said(p), said)
      <4>1. Said(p)' = Said(p)
        BY <1>10, <3>2
      <4>2. Said(p).status = said.status
        BY <3>2 DEF ShouldPublish
      <4>3. Said(p).until <= streams[p].until
        BY <1>7, <1>13, <4>1 DEF HeardItself
      <4>4. Said(p).until \in Nat
        <5>1. Said(p) \in Status /\ Said(p) # Unknown
          BY <1>13, <4>1, SaidTypes
        <5>2. QED
          BY <5>1, TimeAssumption DEF Status
      <4>5. said.status = "Ready" /\ said.until = stream.until
        BY <1>4, <1>13, <4>1, <4>2
      <4>6. QED
        BY <1>13, <2>4, <2>7, <2>8, <4>1, <4>3, <4>4, <4>5
    <3>3. QED
      BY <3>1, <3>2
  <2>10. QED
    BY <2>6, <2>9
<1>14. CASE p # Leader
  <2>1. statuses' = statuses /\ tracked'[Leader] = tracked[Leader]
        /\ streams'[Leader] = streams[Leader]
    BY <1>1, <1>5, <1>9, <1>14, PeerAssumption DEF Publish, Types
  <2>2. \A q \in Peer : Told(q)' = Told(q)
    BY <1>2, <2>1 DEF Told, StatusesFor, Nothing, Unknown
  <2>3. HeardItself'
    BY <1>7, <1>11, <1>14, <2>1, <2>2, PeerAssumption, HeardItselfStill
  <2>4. ASSUME NEW q \in Peer \ {Leader} PROVE Heard(q)'
    <3>1. CASE q = p /\ ShouldPublish(Said(p), said)
      <4>1. said \in [status : Conditions, until : 0..Duration]
        BY <1>4 DEF StreamType
      <4>2. Message(Leader, p, said) \in messages'
        BY <1>8, <1>14, <3>1, PeerAssumption
      <4>3. /\ Message(Leader, p, said).to = Leader /\ Message(Leader, p, said).from = p
            /\ Message(Leader, p, said).session = session
        BY <4>1, PeerAssumption, MessageFields
      <4>4. OnItsWay(p)'
        BY <1>2, <4>2, <4>3 DEF OnItsWay
      <4>5. QED
        BY <3>1, <4>4 DEF Heard
    <3>2. CASE q # p \/ ~ShouldPublish(Said(p), said)
      <4>1. Said(q)' = Said(q)
        BY <1>10, <1>11, <3>2
      <4>2. QED
        BY <1>7, <1>12, <2>2, <4>1, HeardStill
    <3>3. QED
      BY <3>1, <3>2
  <2>5. QED
    BY <2>3, <2>4
<1>15. QED
  BY <1>13, <1>14

(* What arrives at the leader is what it is told; what it forgets misled it. *)
LEMMA ReceiveInforms ==
  ASSUME Types, Informed, Receive
  PROVE  Informed'
<1>1. PICK m \in messages :
         /\ messages' = messages \ {m}
         /\ tracked' = [tracked EXCEPT ![m.to] = m.session]
         /\ published' = [published EXCEPT ![m.to] = PublishedAt(m.to, m.session)]
         /\ IF m.to = Leader
            THEN /\ statuses' = [StatusesFor(m.session) EXCEPT ![m.from] =
                                   [status |-> m.status, until |-> m.until, age |-> 0]]
                 /\ misled' = \/ misled \/ Forgets(m.session)
                              \/ /\ m.session = session /\ tracked[m.from] = session
                                 /\ published[m.from] # Unknown
                                 /\ \/ published[m.from].status # m.status
                                    \/ published[m.from].until # m.until
            ELSE UNCHANGED <<statuses, misled>>
  BY DEF Receive, history
<1>2. UNCHANGED <<session, streams>>
  BY DEF Receive, room
<1>3. SUFFICES ASSUME session # NoSession, ~misled'
               PROVE  HeardItself' /\ \A q \in Peer \ {Leader} : Heard(q)'
  BY <1>2 DEF Informed
<1>4. ~misled
  BY <1>1, <1>3
<1>5. HeardItself /\ \A q \in Peer \ {Leader} : Heard(q)
  BY <1>3, <1>4 DEF Informed
<1>6. /\ m.to \in Peer /\ m.from \in Peer /\ m.from # m.to /\ m.session \in Nat
      /\ m.to = Leader => m.status \in Conditions /\ m.until \in 0..Duration
  BY SessionTypes DEF Types, TypeOK
<1>7. /\ tracked'[m.to] = m.session /\ published'[m.to] = PublishedAt(m.to, m.session)
      /\ \A q \in Peer \ {m.to} : tracked'[q] = tracked[q] /\ published'[q] = published[q]
  BY <1>1, <1>6 DEF Types, TypeOK
<1>8. \A q \in Peer \ {m.to} : Said(q)' = Said(q)
  BY <1>2, <1>7, SaidAfter
<1>9. Said(m.to)' \in {Unknown, Said(m.to)}
  <2>1. CASE m.session = session
    BY <1>2, <1>6, <1>7, <2>1, SaidAfter DEF Said
  <2>2. CASE m.session # session
    BY <1>2, <1>6, <1>7, <2>2, SaidAfter
  <2>3. QED
    BY <2>1, <2>2
<1>10. \A q \in Peer : Said(q)' \in {Unknown, Said(q)}
  BY <1>8, <1>9
<1>11. ASSUME NEW q \in Peer, m.to # Leader \/ m.session # session \/ m.from # q, OnItsWay(q)
       PROVE  OnItsWay(q)'
  BY <1>1, <1>2, <1>11 DEF OnItsWay
<1>12. CASE m.to # Leader
  <2>1. statuses' = statuses /\ tracked'[Leader] = tracked[Leader]
    BY <1>1, <1>7, <1>12, PeerAssumption
  <2>2. \A q \in Peer : Told(q)' = Told(q)
    BY <1>2, <2>1 DEF Told, StatusesFor, Nothing, Unknown
  <2>3. QED
    BY <1>2, <1>5, <1>10, <1>11, <1>12, <2>2, PeerAssumption, HeardStill, HeardItselfStill
<1>13. CASE m.to = Leader /\ m.session # session
  <2>1. tracked[Leader] # session
    BY <1>1, <1>3, <1>13 DEF Forgets
  <2>2. tracked'[Leader] # session
    BY <1>7, <1>13
  <2>3. \A q \in Peer : Told(q) = Unknown /\ Told(q)' = Unknown
    BY <1>2, <2>1, <2>2 DEF Told, StatusesFor, Nothing, Unknown
  <2>4. QED
    BY <1>2, <1>5, <1>10, <1>11, <1>13, <2>3, PeerAssumption, HeardStill, HeardItselfStill
<1>14. CASE m.to = Leader /\ m.session = session
  <2> DEFINE told == [status |-> m.status, until |-> m.until, age |-> 0]
  <2>1. StatusesFor(session) \in [Peer -> Status]
    BY SessionTypes, TrackedTypes
  <2>2. statuses' = [StatusesFor(session) EXCEPT ![m.from] = told]
    BY <1>1, <1>14
  <2>3. \A q \in Peer : Told(q)' = statuses'[q]
    BY <1>2, <1>7, <1>14, ToldAfter
  <2>4. \A q \in Peer \ {m.from} : Told(q)' = Told(q)
    BY <2>1, <2>2, <2>3 DEF Told
  <2>5. Told(m.from)' = told
    BY <1>6, <2>1, <2>2, <2>3
  <2>6. HeardItself'
    BY <1>2, <1>5, <1>6, <1>10, <1>14, <2>4, PeerAssumption, HeardItselfStill
  <2>7. ASSUME NEW q \in Peer \ {Leader} PROVE Heard(q)'
    <3>1. CASE q = m.from
      <4>1. SUFFICES ASSUME Said(q)' # Unknown
                     PROVE  /\ Told(q)' # Unknown /\ Told(q)'.status = Said(q)'.status
                            /\ Told(q)'.until = Said(q)'.until
        BY DEF Heard, Unknown
      <4>2. Said(q)' = Said(q) /\ Said(q) # Unknown
        BY <1>6, <1>8, <1>14, <3>1, <4>1
      <4>3. tracked[m.from] = session /\ published[m.from] = Said(q)
        BY <3>1, <4>2 DEF Said, PublishedAt
      <4>4. Said(q).status = m.status /\ Said(q).until = m.until
        BY <1>1, <1>3, <1>14, <4>2, <4>3
      <4>5. told # Unknown /\ told.status = m.status /\ told.until = m.until
        BY DEF Unknown
      <4>6. QED
        BY <2>5, <3>1, <4>2, <4>4, <4>5
    <3>2. CASE q # m.from
      BY <1>5, <1>10, <1>11, <2>4, <3>2, HeardStill
    <3>3. QED
      BY <3>1, <3>2
  <2>8. QED
    BY <2>6, <2>7
<1>15. QED
  BY <1>12, <1>13, <1>14

(* A look at the buffers begins to track the room's session, and knows what it knew. *)
LEMMA LocalTickInforms ==
  ASSUME Types, Informed, LocalTick
  PROVE  Informed'
<1>1. UNCHANGED <<session, streams, messages, misled>>
  BY DEF LocalTick, history
<1>2. SUFFICES ASSUME session # NoSession, ~misled
               PROVE  HeardItself' /\ \A q \in Peer \ {Leader} : Heard(q)'
  BY <1>1 DEF Informed
<1>3. HeardItself /\ \A q \in Peer \ {Leader} : Heard(q)
  BY <1>2 DEF Informed
<1>4. \A q \in Peer : OnItsWay(q) => OnItsWay(q)'
  BY <1>1 DEF OnItsWay
<1>5. \A q \in Peer : Said(q)' = Said(q) /\ Told(q)' = Told(q)
  <2>1. CASE UNCHANGED health
    BY <1>1, <2>1 DEF health, Said, Told, PublishedAt, StatusesFor, Nothing, Unknown
  <2>2. CASE Looks
    <3>1. /\ tracked' = [tracked EXCEPT ![Leader] = session]
          /\ published' = [published EXCEPT ![Leader] = Said(Leader)]
          /\ statuses' = StatusesFor(session)
      BY <2>2 DEF Looks, Said
    <3>2. /\ tracked'[Leader] = session /\ published'[Leader] = Said(Leader)
          /\ \A q \in Peer \ {Leader} :
               tracked'[q] = tracked[q] /\ published'[q] = published[q]
      BY <3>1, PeerAssumption DEF Types, TypeOK
    <3>3. \A q \in Peer : Said(q)' = Said(q)
      BY <1>1, <3>2, SaidAfter
    <3>4. \A q \in Peer : Told(q)' = Told(q)
      BY <1>1, <3>1, <3>2, ToldAfter DEF Told
    <3>5. QED
      BY <3>3, <3>4
  <2>3. QED
    BY <1>2, <2>1, <2>2 DEF LocalTick
<1>6. QED
  BY <1>1, <1>3, <1>4, <1>5, PeerAssumption, HeardStill, HeardItselfStill

(* What is said and told grows older and stays the same. *)
LEMMA OlderSays ==
  ASSUME NEW status \in Status, NEW oldest
  PROVE  /\ Older(status, oldest) # Unknown <=> status # Unknown
         /\ status # Unknown =>
              /\ Older(status, oldest).status = status.status
              /\ Older(status, oldest).until = status.until
<1>1. CASE status = Unknown
  BY <1>1 DEF Older
<1>2. CASE status # Unknown
  <2>1. status \in [status : Conditions, until : 0..Duration,
                    age : 0..StaleAfter + PublishMinInterval]
    BY <1>2 DEF Status, Conditions
  <2>2. Older(status, oldest) = [status EXCEPT !.age = Smaller(@ + 1, oldest)]
    BY <1>2 DEF Older
  <2>3. /\ Older(status, oldest).status = status.status
        /\ Older(status, oldest).until = status.until
    BY <2>1, <2>2
  <2>4. Older(status, oldest).status \in Conditions
    BY <2>1, <2>3
  <2>5. Older(status, oldest) # Unknown
    BY <2>4 DEF Unknown, Conditions
  <2>6. QED
    BY <1>2, <2>3, <2>5
<1>3. QED
  BY <1>1, <1>2

LEMMA TickInforms ==
  ASSUME Types, Informed, Tick
  PROVE  Informed'
<1>1. UNCHANGED <<session, streams, tracked, messages, misled>>
  BY DEF Tick, history
<1>2. SUFFICES ASSUME session # NoSession, ~misled
               PROVE  HeardItself' /\ \A q \in Peer \ {Leader} : Heard(q)'
  BY <1>1 DEF Informed
<1>3. HeardItself /\ \A q \in Peer \ {Leader} : Heard(q)
  BY <1>2 DEF Informed
<1>4. \A q \in Peer : OnItsWay(q) => OnItsWay(q)'
  BY <1>1 DEF OnItsWay
<1>5. \A q \in Peer : /\ published'[q] = Older(published[q], PublishMinInterval)
                      /\ statuses'[q] = Older(statuses[q], StaleAfter + 1)
  BY DEF Tick
<1>6. Older(Unknown, PublishMinInterval) = Unknown /\ Older(Unknown, StaleAfter + 1) = Unknown
  BY DEF Older
<1>7. \A q \in Peer : /\ Said(q)' = Older(Said(q), PublishMinInterval)
                      /\ Told(q)' = Older(Told(q), StaleAfter + 1)
  <2> TAKE q \in Peer
  <2>1. Said(q)' = Older(Said(q), PublishMinInterval)
    BY <1>1, <1>5, <1>6 DEF Said, PublishedAt, Unknown
  <2>2. Told(q)' = Older(Told(q), StaleAfter + 1)
    BY <1>1, <1>5, <1>6 DEF Told, StatusesFor, Nothing, Unknown
  <2>3. QED
    BY <2>1, <2>2
<1>8. \A q \in Peer :
        /\ Said(q)' # Unknown <=> Said(q) # Unknown
        /\ Said(q) # Unknown => Said(q)'.status = Said(q).status /\ Said(q)'.until = Said(q).until
        /\ Told(q)' # Unknown <=> Told(q) # Unknown
        /\ Told(q) # Unknown => Told(q)'.status = Told(q).status /\ Told(q)'.until = Told(q).until
  BY <1>7, SaidTypes, OlderSays
<1>9. ASSUME NEW q \in Peer \ {Leader} PROVE Heard(q)'
  <2>1. Heard(q)
    BY <1>3
  <2>2. QED
    BY <1>4, <1>8, <2>1 DEF Heard, Unknown
<1>10. HeardItself'
  BY <1>1, <1>3, <1>8, PeerAssumption DEF HeardItself, Unknown
<1>11. QED
  BY <1>9, <1>10

(* Nobody has said anything of the session of a new track. *)
LEMMA RoomInforms ==
  ASSUME Types, Informed,
         Lose \/ StartTrack \/ PlayOn \/ OperationEnds \/ Pause \/ StopPlayback
  PROVE  Informed'
<1>1. CASE StartTrack
  <2>1. session' = tracks + 1 /\ UNCHANGED tracked
    BY <1>1 DEF StartTrack, Operate, health
  <2>2. \A q \in Peer : tracked'[q] # session'
    BY <2>1, SessionTypes
  <2>3. \A q \in Peer : Said(q)' = Unknown
    BY <2>2 DEF Said, PublishedAt, Unknown
  <2>4. QED
    BY <2>3, PeerAssumption DEF Informed, Heard, HeardItself, Unknown
<1>2. CASE StopPlayback
  BY <1>2 DEF StopPlayback, Informed, NoSession
<1>3. CASE PlayOn \/ OperationEnds \/ Pause
  <2>1. UNCHANGED <<session, streams, tracked, published, statuses, messages, misled>>
    BY <1>3 DEF PlayOn, Operate, OperationEnds, Pause, health, history
  <2>2. \A q \in Peer : Said(q)' = Said(q) /\ Told(q)' = Told(q)
    BY <2>1 DEF Said, Told, PublishedAt, StatusesFor, Nothing, Unknown
  <2>3. \A q \in Peer : OnItsWay(q) => OnItsWay(q)'
    BY <2>1 DEF OnItsWay
  <2>4. QED
    BY <2>1, <2>2, <2>3, PeerAssumption, HeardStill, HeardItselfStill DEF Informed
<1>4. CASE Lose
  <2>1. PICK m \in messages :
          /\ messages' = messages \ {m}
          /\ misled' = (misled \/ (m.to = Leader /\ m.session = session))
    BY <1>4 DEF Lose
  <2>2. UNCHANGED <<session, streams, tracked, published, statuses>>
    BY <1>4 DEF Lose, room, health
  <2>3. \A q \in Peer : Said(q)' = Said(q) /\ Told(q)' = Told(q)
    BY <2>2 DEF Said, Told, PublishedAt, StatusesFor, Nothing, Unknown
  <2>4. ~misled' => ~misled /\ \A q \in Peer : OnItsWay(q) => OnItsWay(q)'
    BY <2>1, <2>2 DEF OnItsWay
  <2>5. QED
    BY <2>2, <2>3, <2>4, PeerAssumption, HeardStill, HeardItselfStill DEF Informed
<1>5. QED
  BY <1>1, <1>2, <1>3, <1>4

LEMMA InformedInit == Init => Informed
BY DEF Init, Informed

LEMMA InformedStep == Inv /\ Informed /\ [Next]_vars => Informed'
<1> SUFFICES ASSUME Inv, Informed, [Next]_vars PROVE Informed'
  OBVIOUS
<1>1. Types
  BY DEF Inv
<1>2. CASE UNCHANGED vars
  <2>1. UNCHANGED <<session, streams, tracked, published, statuses, messages, misled>>
    BY <1>2 DEF vars, room, health, history
  <2>2. QED
    BY <2>1 DEF Informed, HeardItself, Heard, Said, Told, OnItsWay, PublishedAt, StatusesFor,
                Nothing, Unknown
<1>3. CASE Next
  BY <1>1, <1>3, ReportInforms, ReceiveInforms, LocalTickInforms, TickInforms, RoomInforms
  DEF Next
<1>4. QED
  BY <1>2, <1>3

(* The leader counts everybody as healthy whose published buffers are good for the
   position, as long as it has heard all that was said. *)
LEMMA WellBufferedAreHealthy ==
  ASSUME Types, Informed, session # NoSession, ~misled,
         ~ \E m \in messages : m.to = Leader /\ m.session = session
  PROVE  {p \in Peer : WellBuffered(p)} \subseteq Healthy(StatusesFor(session))
<1>1. SUFFICES ASSUME NEW p \in Peer, WellBuffered(p)
               PROVE  IsHealthy(Told(p), position + LowWatermark)
  BY DEF Healthy, Told
<1>2. /\ Said(p) # Unknown /\ Said(p).status = "Ready"
      /\ Said(p).until >= position + LowWatermark + StaleAfter
  BY <1>1 DEF WellBuffered, Said
<1>3. /\ Told(p) # Unknown /\ Told(p).status = "Ready"
      /\ Said(p).until <= Told(p).until
  <2>1. CASE p = Leader
    BY <1>2, <2>1 DEF Informed, HeardItself
  <2>2. CASE p # Leader
    <3>1. Heard(p) /\ ~OnItsWay(p)
      BY <2>2 DEF Informed, OnItsWay
    <3>2. Told(p) # Unknown /\ Told(p).status = Said(p).status /\ Told(p).until = Said(p).until
      BY <1>2, <3>1 DEF Heard
    <3>3. Said(p).until \in Nat
      BY <1>2, SaidTypes, TimeAssumption DEF Status
    <3>4. QED
      BY <1>2, <3>2, <3>3
  <2>3. QED
    BY <2>1, <2>2
<1>4. Said(p).until \in Nat /\ Told(p).until \in Nat
  BY <1>2, <1>3, SaidTypes, TimeAssumption DEF Status
<1>5. position \in Nat /\ LowWatermark \in Nat /\ StaleAfter \in Nat
  BY TimeAssumption DEF Types, TypeOK
<1>6. Told(p).until >= position + LowWatermark + StaleAfter
  BY <1>2, <1>3, <1>4, <1>5
<1>7. QED
  BY <1>3, <1>4, <1>5, <1>6 DEF IsHealthy

(* Whatever the publish rate limit keeps back and however late and out of order messages
   come, the leader does not pause a room of any size that a majority's published buffers
   are good for, unless it has yet to hear of them or missed a message. *)
THEOREM PausesForLosses == Spec => PausesAreForLoss
<1>1. ASSUME Inv, Informed, [Next]_vars, PausesForLoss, ~misled,
             ~ \E m \in messages : m.to = Leader /\ m.session = session
      PROVE  ~IsMajority({p \in Peer : WellBuffered(p)})
  <2>1. session # NoSession /\ ~IsMajority(Healthy(StatusesFor(session)))
    BY <1>1, PausesAreLooks
  <2>2. {p \in Peer : WellBuffered(p)} \subseteq Healthy(StatusesFor(session))
    BY <1>1, <2>1, WellBufferedAreHealthy DEF Inv
  <2>3. Healthy(StatusesFor(session)) \subseteq Peer
    BY DEF Healthy
  <2>4. QED
    BY <2>1, <2>2, <2>3, LargerIsMajority
<1>2. Inv /\ Informed /\ [Next]_vars =>
        (PausesForLoss =>
           \/ misled \/ \E m \in messages : m.to = Leader /\ m.session = session
           \/ ~IsMajority({p \in Peer : WellBuffered(p)}))
  BY <1>1
<1>3. QED
  BY <1>2, InvInit, InvStep, InformedInit, InformedStep, PTL DEF Spec, PausesAreForLoss
=============================================================================
