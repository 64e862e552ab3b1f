-------------------------- MODULE BufferRoomProofs --------------------------
(***************************************************************************)
(* What holds in every room that starts, seeks and resumes together, for   *)
(* any number of peers, any queue, any links and any bounds.               *)
(*                                                                         *)
(* The invariant, Inv, says of everything that is kept or under way what   *)
(* the history must hold for it: of a ready status that its peer prepared, *)
(* of a playback state that its session was committed, of a queue that the *)
(* items it lacks are gone for a reason, and of an operation that its own  *)
(* leader still runs that it has not ended.                                *)
(*                                                                         *)
(* A second invariant, Answered, stands at the end of the module beside    *)
(* what follows from it: that rivals do not count each other.              *)
(*                                                                         *)
(* A handler is a composition of parts, and so is its proof.  Fits(p, h)   *)
(* is the invariant of a handling h of p, and Follows(p, h, g) says what   *)
(* the parts between h and g may do to the rest of the room.  There is one *)
(* lemma for each part, then one for each action.                          *)
(***************************************************************************)
EXTENDS BufferRoom, MusicStateProofs

Handler ==
  [music : Music, playback : PlaybackState \cup {NoPlayback},
   buffer : BufferOperation \cup {NoOperation}, stream : Stream \cup {NoOperation},
   events : Seq(Event), failed : SUBSET Id, alive : SUBSET Peer, clock : Nat,
   log : Log, begun : Nat, sent : SUBSET Message]

\* What the history tells.
Started(history, session, track) ==
  \E c \in history.committed : c.session = session /\ c.track = track

Gone(history, item) ==
  \/ item \in history.skipped
  \/ \E c \in history.committed : SameRequest(item, c.track)

Ended(history, operation) ==
  \/ operation \in history.cancelled
  \/ \E c \in history.committed : c.operation = operation

\* What the history must hold, with now the next time a stamp takes ...
HistoryFits(history, now) ==
  /\ \A c \in history.committed :
       /\ c.ready \subseteq c.expected
       /\ 2 * Cardinality(c.ready) > Cardinality(c.expected)
       /\ \A q \in c.ready : <<c.operation, q>> \in history.prepared
       /\ c.operation[2] < now
       /\ c.operation \notin history.cancelled
       /\ \A d \in history.committed : c.operation = d.operation => c = d
  /\ \A operation \in history.cancelled : operation[2] < now

\* ... for an operation, whoever leads it, ...
OperationFits(op, history) ==
  op # NoOperation =>
    \A q \in Peer :
      /\ op.statuses[q] # "None" => q \in op.expected
      /\ op.statuses[q] = "Ready" => <<op.operation, q>> \in history.prepared

\* ... for one that p leads, ...
LedFits(p, op, history, now) ==
  Leads(p, op) => op.operation[2] < now /\ ~Ended(history, op.operation)

\* ... for a playback state, a queue, player events of p and a message.
PlaybackFits(state, history, now) ==
  state # NoPlayback =>
    /\ state.issued_at < now
    /\ state.track # NoTrack => Started(history, state.session, state.track)
    /\ state.playing => state.track # NoTrack

QueueFits(queue, history) ==
  \A i \in DOMAIN InitQueue :
    InQueue(queue, InitQueue[i]) \/ Gone(history, InitQueue[i])

EventsFit(p, events, history) ==
  \A i \in DOMAIN events :
    events[i].kind = "Prepared" /\ events[i].operation # NoOperation =>
      <<events[i].operation, p>> \in history.prepared

MessageFits(m, history, now) ==
  /\ m.type = "BufferStatus" /\ m.status = "Ready" =>
       <<m.operation, m.peer>> \in history.prepared
  /\ m.type = "PlaybackState" => PlaybackFits(m.state, history, now)
  /\ m.type = "QueueState" => QueueFits(m.state.items, history)

\* s is the state of p, or a handling of it.
PeerFits(p, s, history, now) ==
  /\ OperationFits(s.buffer, history)
  /\ LedFits(p, s.buffer, history, now)
  /\ PlaybackFits(s.playback, history, now)
  /\ QueueFits(s.music.queue, history)
  /\ EventsFit(p, s.events, history)

Inv ==
  /\ Typed
  /\ HistoryFits(log, clock)
  /\ \A p \in Peer : PeerFits(p, peer[p], log, clock)
  /\ \A m \in messages : MessageFits(m, log, clock)

Fits(p, h) ==
  /\ h \in Handler
  /\ HistoryFits(h.log, h.clock)
  /\ PeerFits(p, h, h.log, h.clock)
  /\ \A m \in h.sent : MessageFits(m, h.log, h.clock)

\* Time goes on and the history only grows.
Extends(history, now, later, then) ==
  /\ now <= then
  /\ history.prepared \subseteq later.prepared
  /\ history.committed \subseteq later.committed
  /\ history.cancelled \subseteq later.cancelled
  /\ history.skipped \subseteq later.skipped

\* The operations that ended in between were p's own.
EndsOwn(p, history, later) ==
  /\ \A c \in later.committed \ history.committed : c.operation[1] = p
  /\ \A operation \in later.cancelled \ history.cancelled : operation[1] = p

NotOlder(old, new) ==
  old # NoPlayback => new # NoPlayback /\ new.issued_at >= old.issued_at

Follows(p, h, g) ==
  /\ Extends(h.log, h.clock, g.log, g.clock)
  /\ EndsOwn(p, h.log, g.log)
  /\ NotOlder(h.playback, g.playback)
-----------------------------------------------------------------------------
(* The history *)

(* Whatever the history held for it, it still holds when more is in it. *)
LEMMA HistoryGrows ==
  ASSUME NEW history, NEW now \in Nat, NEW later, NEW then \in Nat,
         Extends(history, now, later, then)
  PROVE  /\ \A op : OperationFits(op, history) => OperationFits(op, later)
         /\ \A state : (state # NoPlayback => state.issued_at \in Nat) =>
              (PlaybackFits(state, history, now) => PlaybackFits(state, later, then))
         /\ \A queue : QueueFits(queue, history) => QueueFits(queue, later)
         /\ \A p, events : EventsFit(p, events, history) => EventsFit(p, events, later)
<1> USE DEF Extends
<1>1. \A op : OperationFits(op, history) => OperationFits(op, later)
  BY DEF OperationFits
<1>2. \A session, track : Started(history, session, track)
                            => Started(later, session, track)
  BY DEF Started
<1>3. \A item : Gone(history, item) => Gone(later, item)
  BY DEF Gone
<1>4. \A state : (state # NoPlayback => state.issued_at \in Nat) =>
        (PlaybackFits(state, history, now) => PlaybackFits(state, later, then))
  BY <1>2 DEF PlaybackFits
<1>5. \A queue : QueueFits(queue, history) => QueueFits(queue, later)
  BY <1>3 DEF QueueFits
<1>6. \A p, events : EventsFit(p, events, history) => EventsFit(p, events, later)
  BY DEF EventsFit
<1>7. QED
  BY <1>1, <1>4, <1>5, <1>6

(* So is a message that fits. *)
LEMMA MessagesStayFit ==
  ASSUME NEW history, NEW now \in Nat, NEW later, NEW then \in Nat,
         Extends(history, now, later, then), NEW m \in Message,
         MessageFits(m, history, now)
  PROVE  MessageFits(m, later, then)
<1>1. m.type = "BufferStatus" /\ m.status = "Ready" =>
        <<m.operation, m.peer>> \in later.prepared
  BY DEF MessageFits, Extends
<1>2. m.type = "PlaybackState" => PlaybackFits(m.state, later, then)
  <2>1. m.type = "PlaybackState" => m.state.issued_at \in Nat
    BY DEF Message, PlaybackState
  <2>2. QED
    BY <2>1, HistoryGrows DEF MessageFits
<1>3. m.type = "QueueState" => QueueFits(m.state.items, later)
  BY HistoryGrows DEF MessageFits
<1>4. QED
  BY <1>1, <1>2, <1>3 DEF MessageFits

LEMMA FollowsItself ==
  ASSUME NEW p, NEW h \in Handler
  PROVE  Follows(p, h, h)
  BY DEF Follows, Extends, EndsOwn, NotOlder, Handler, PlaybackState

LEMMA FollowsOn ==
  ASSUME NEW p, NEW h, NEW g, NEW k, Fits(p, h), Fits(p, g), Fits(p, k),
         Follows(p, h, g), Follows(p, g, k)
  PROVE  Follows(p, h, k)
<1>1. h \in Handler /\ g \in Handler /\ k \in Handler
  BY DEF Fits
<1>2. Extends(h.log, h.clock, k.log, k.clock)
  BY <1>1 DEF Follows, Extends, Handler
<1>3. EndsOwn(p, h.log, k.log)
  BY DEF Follows, EndsOwn
<1>4. NotOlder(h.playback, k.playback)
  BY <1>1 DEF Follows, NotOlder, Handler, PlaybackState
<1>5. QED
  BY <1>2, <1>3, <1>4 DEF Follows

(* A part that changes a few fields leaves a handling that fits when those
   fields do. *)
LEMMA FitsLater ==
  ASSUME NEW p, NEW h, Fits(p, h), NEW g \in Handler,
         Extends(h.log, h.clock, g.log, g.clock), HistoryFits(g.log, g.clock),
         g.buffer = h.buffer \/ OperationFits(g.buffer, g.log),
         LedFits(p, g.buffer, g.log, g.clock),
         g.playback = h.playback \/ PlaybackFits(g.playback, g.log, g.clock),
         g.music.queue = h.music.queue \/ QueueFits(g.music.queue, g.log),
         g.events = h.events \/ EventsFit(p, g.events, g.log),
         \A m \in g.sent \ h.sent : MessageFits(m, g.log, g.clock)
  PROVE  Fits(p, g)
<1>1. /\ h \in Handler /\ h.clock \in Nat /\ g.clock \in Nat
      /\ h.sent \subseteq Message
      /\ h.playback # NoPlayback => h.playback.issued_at \in Nat
  BY DEF Fits, Handler, PlaybackState
<1>2. PeerFits(p, h, h.log, h.clock) /\ \A m \in h.sent : MessageFits(m, h.log, h.clock)
  BY DEF Fits
<1>3. OperationFits(g.buffer, g.log)
  BY <1>1, <1>2, HistoryGrows DEF PeerFits
<1>4. PlaybackFits(g.playback, g.log, g.clock)
  BY <1>1, <1>2, HistoryGrows DEF PeerFits
<1>5. QueueFits(g.music.queue, g.log)
  BY <1>1, <1>2, HistoryGrows DEF PeerFits
<1>6. EventsFit(p, g.events, g.log)
  BY <1>1, <1>2, HistoryGrows DEF PeerFits
<1>7. \A m \in g.sent : MessageFits(m, g.log, g.clock)
  BY <1>1, <1>2, MessagesStayFit
<1>8. QED
  BY <1>3, <1>4, <1>5, <1>6, <1>7 DEF Fits, PeerFits

LEMMA FitsNow ==
  ASSUME NEW p, NEW h, Fits(p, h), NEW g \in Handler,
         g.log = h.log, g.clock = h.clock,
         g.buffer = h.buffer \/ /\ OperationFits(g.buffer, h.log)
                                /\ LedFits(p, g.buffer, h.log, h.clock),
         g.playback = h.playback \/ /\ PlaybackFits(g.playback, h.log, h.clock)
                                    /\ NotOlder(h.playback, g.playback),
         g.music.queue = h.music.queue \/ QueueFits(g.music.queue, h.log),
         g.events = h.events \/ EventsFit(p, g.events, h.log),
         \A m \in g.sent \ h.sent : MessageFits(m, h.log, h.clock)
  PROVE  Fits(p, g) /\ Follows(p, h, g)
<1>1. /\ h \in Handler /\ HistoryFits(h.log, h.clock)
      /\ LedFits(p, h.buffer, h.log, h.clock)
  BY DEF Fits, PeerFits
<1>2. Follows(p, h, h)
  BY <1>1, FollowsItself
<1>3. Follows(p, h, g)
  BY <1>2 DEF Follows
<1>4. LedFits(p, g.buffer, g.log, g.clock)
  BY <1>1
<1>5. QED
  BY <1>1, <1>3, <1>4, FitsLater DEF Follows
-----------------------------------------------------------------------------
(* Publishing *)

LEMMA PublishFits ==
  ASSUME NEW p, NEW h, Fits(p, h), NEW m \in Message, MessageFits(m, h.log, h.clock)
  PROVE  Fits(p, Publish(h, m)) /\ Follows(p, h, Publish(h, m))
<1> DEFINE g == Publish(h, m)
<1>1. h \in Handler
  BY DEF Fits
<1>2. /\ g \in Handler /\ g.log = h.log /\ g.clock = h.clock /\ g.buffer = h.buffer
      /\ g.playback = h.playback /\ g.music = h.music /\ g.events = h.events
      /\ g.sent = h.sent \cup {m}
  BY <1>1 DEF Publish, Handler
<1> HIDE DEF g
<1>3. \A n \in g.sent \ h.sent : MessageFits(n, h.log, h.clock)
  BY <1>2
<1>4. QED
  BY <1>2, <1>3, FitsNow DEF g

(* A status fits unless it says ready for a peer that has not prepared. *)
LEMMA PublishStatusFits ==
  ASSUME NEW p \in Peer, NEW h, Fits(p, h), NEW operation \in Id, NEW session \in Id,
         NEW status \in Status,
         status = "Ready" => <<operation, p>> \in h.log.prepared
  PROVE  LET g == PublishStatus(p, h, operation, session, status)
         IN  /\ Fits(p, g) /\ Follows(p, h, g)
             /\ g.buffer = h.buffer /\ g.log = h.log /\ g.clock = h.clock
             /\ g.playback = h.playback /\ g.music = h.music /\ g.begun = h.begun
<1> DEFINE m == [type |-> "BufferStatus", operation |-> operation,
                 session |-> session, peer |-> p, status |-> status]
<1>1. m \in Message
  BY DEF Message
<1>2. MessageFits(m, h.log, h.clock)
  BY DEF MessageFits
<1>3. h \in Handler
  BY DEF Fits
<1>4. PublishStatus(p, h, operation, session, status) = Publish(h, m)
  BY DEF PublishStatus
<1> HIDE DEF m
<1>5. Fits(p, Publish(h, m)) /\ Follows(p, h, Publish(h, m))
  BY <1>1, <1>2, PublishFits
<1>6. /\ Publish(h, m).buffer = h.buffer /\ Publish(h, m).log = h.log
      /\ Publish(h, m).clock = h.clock /\ Publish(h, m).playback = h.playback
      /\ Publish(h, m).music = h.music /\ Publish(h, m).begun = h.begun
  BY <1>3 DEF Publish, Handler
<1>7. QED
  BY <1>4, <1>5, <1>6

(* The prepare of the active operation says nothing the history must hold. *)
LEMMA PublishPrepareFits ==
  ASSUME NEW p \in Peer, NEW h, Fits(p, h), NEW op \in BufferOperation
  PROVE  LET g == Publish(h, Prepare(op))
         IN  /\ Prepare(op) \in Message /\ MessageFits(Prepare(op), h.log, h.clock)
             /\ Fits(p, g) /\ Follows(p, h, g)
             /\ g.buffer = h.buffer /\ g.log = h.log /\ g.clock = h.clock
             /\ g.playback = h.playback /\ g.music = h.music /\ g.begun = h.begun
<1>1. Prepare(op) \in Message
  BY DEF Prepare, Message, BufferOperation
<1>2. MessageFits(Prepare(op), h.log, h.clock)
  BY DEF Prepare, MessageFits
<1>3. h \in Handler
  BY DEF Fits
<1>4. Fits(p, Publish(h, Prepare(op))) /\ Follows(p, h, Publish(h, Prepare(op)))
  BY <1>1, <1>2, PublishFits
<1> DEFINE m == Prepare(op)
<1> HIDE DEF m
<1>5. LET g == Publish(h, m)
      IN  /\ g.buffer = h.buffer /\ g.log = h.log /\ g.clock = h.clock
          /\ g.playback = h.playback /\ g.music = h.music /\ g.begun = h.begun
  BY <1>3 DEF Publish, Handler
<1>6. QED
  BY <1>1, <1>2, <1>4, <1>5 DEF m

(* A status marked on an operation that fits fits when it is not a ready of a
   peer that has not prepared (mark_status). *)
LEMMA MarkStatusFits ==
  ASSUME NEW history, NEW buffer \in BufferOperation \cup {NoOperation},
         OperationFits(buffer, history), NEW operation, NEW session,
         NEW q \in Peer, NEW status \in Status,
         status = "Ready" => <<operation, q>> \in history.prepared
  PROVE  LET marked == MarkStatus(buffer, operation, session, q, status)
         IN  /\ marked \in BufferOperation \cup {NoOperation}
             /\ OperationFits(marked, history)
             /\ buffer # NoOperation <=> marked # NoOperation
             /\ buffer # NoOperation =>
                  /\ marked.operation = buffer.operation
                  /\ marked.session = buffer.session
                  /\ marked.track = buffer.track
                  /\ marked.kind = buffer.kind
                  /\ marked.expected = buffer.expected
<1> DEFINE marked == [buffer EXCEPT !.statuses[q] = status]
<1>1. CASE IsFor(buffer, operation, session) /\ q \in buffer.expected
  <2>1. buffer \in BufferOperation /\ buffer.operation = operation
    BY <1>1 DEF IsFor
  <2>2. /\ marked \in BufferOperation
        /\ marked.operation = buffer.operation /\ marked.session = buffer.session
        /\ marked.track = buffer.track /\ marked.kind = buffer.kind
        /\ marked.expected = buffer.expected
    BY <2>1 DEF BufferOperation
  <2>3. \A r \in Peer : marked.statuses[r] = IF r = q THEN status ELSE buffer.statuses[r]
    BY <2>1 DEF BufferOperation
  <2>4. marked # NoOperation
    BY <2>2, BufferAssumption
  <2> HIDE DEF marked
  <2>5. OperationFits(marked, history)
    BY <1>1, <2>1, <2>2, <2>3 DEF OperationFits, IsFor
  <2>6. MarkStatus(buffer, operation, session, q, status) = marked
    BY <1>1 DEF MarkStatus, marked
  <2>7. QED
    BY <1>1, <2>2, <2>4, <2>5, <2>6 DEF IsFor
<1>2. CASE ~(IsFor(buffer, operation, session) /\ q \in buffer.expected)
  BY <1>2 DEF MarkStatus
<1>3. QED
  BY <1>1, <1>2

(* An operation keeps fitting its leader when only its answers change. *)
LEMMA LedStaysFit ==
  ASSUME NEW p, NEW old, NEW new, NEW history, NEW now,
         LedFits(p, old, history, now),
         new # NoOperation => old # NoOperation /\ new.operation = old.operation
  PROVE  LedFits(p, new, history, now)
  BY DEF LedFits, Leads, LeaderOf

(* A peer's own answer (mark_status, publish_playback_buffer_status). *)
LEMMA MarkOwnFits ==
  ASSUME NEW p \in Peer, NEW h, Fits(p, h), h.buffer # NoOperation,
         NEW status \in Status,
         status = "Ready" => <<h.buffer.operation, p>> \in h.log.prepared
  PROVE  LET g == MarkOwn(p, h, status)
         IN  /\ Fits(p, g) /\ Follows(p, h, g)
             /\ g.log = h.log /\ g.clock = h.clock
             /\ g.playback = h.playback /\ g.music = h.music /\ g.begun = h.begun
             /\ g.buffer \in BufferOperation /\ g.buffer # NoOperation
             /\ g.buffer.operation = h.buffer.operation
             /\ g.buffer.session = h.buffer.session /\ g.buffer.kind = h.buffer.kind
             /\ g.buffer.track = h.buffer.track
<1> DEFINE g == MarkOwn(p, h, status)
           op == MarkStatus(h.buffer, h.buffer.operation, h.buffer.session, p, status)
<1>1. /\ h \in Handler /\ OperationFits(h.buffer, h.log)
      /\ LedFits(p, h.buffer, h.log, h.clock)
  BY DEF Fits, PeerFits
<1>2. h.buffer \in BufferOperation
  BY <1>1 DEF Handler
<1>3. /\ op \in BufferOperation /\ op # NoOperation /\ OperationFits(op, h.log)
      /\ op.operation = h.buffer.operation /\ op.session = h.buffer.session
      /\ op.track = h.buffer.track /\ op.kind = h.buffer.kind
  BY <1>1, <1>2, MarkStatusFits
<1>4. g = [h EXCEPT !.buffer = op]
  BY <1>1 DEF MarkOwn, Handler
<1> HIDE DEF op, g
<1>5. /\ g \in Handler /\ g.log = h.log /\ g.clock = h.clock /\ g.buffer = op
      /\ g.playback = h.playback /\ g.music = h.music /\ g.events = h.events
      /\ g.sent = h.sent /\ g.begun = h.begun
  BY <1>1, <1>3, <1>4 DEF Handler
<1>6. LedFits(p, op, h.log, h.clock)
  BY <1>1, <1>3, LedStaysFit
<1>7. Fits(p, g) /\ Follows(p, h, g)
  BY <1>3, <1>5, <1>6, FitsNow
<1>8. QED
  BY <1>3, <1>5, <1>7 DEF g

LEMMA ReportFits ==
  ASSUME NEW p \in Peer, NEW h, Fits(p, h), h.buffer # NoOperation,
         NEW status \in Status,
         status = "Ready" => <<h.buffer.operation, p>> \in h.log.prepared
  PROVE  LET g == Report(p, h, status)
         IN  /\ Fits(p, g) /\ Follows(p, h, g)
             /\ g.log = h.log /\ g.clock = h.clock
             /\ g.playback = h.playback /\ g.music = h.music /\ g.begun = h.begun
             /\ g.buffer \in BufferOperation /\ g.buffer # NoOperation
             /\ g.buffer.operation = h.buffer.operation
             /\ g.buffer.session = h.buffer.session /\ g.buffer.kind = h.buffer.kind
             /\ g.buffer.track = h.buffer.track
<1> DEFINE marked == MarkOwn(p, h, status)
           g == Report(p, h, status)
<1>1. /\ Fits(p, marked) /\ Follows(p, h, marked)
      /\ marked.log = h.log /\ marked.clock = h.clock
      /\ marked.playback = h.playback /\ marked.music = h.music
      /\ marked.begun = h.begun
      /\ marked.buffer \in BufferOperation /\ marked.buffer # NoOperation
      /\ marked.buffer.operation = h.buffer.operation
      /\ marked.buffer.session = h.buffer.session
      /\ marked.buffer.kind = h.buffer.kind /\ marked.buffer.track = h.buffer.track
  BY MarkOwnFits
<1>2. h.buffer.operation \in Id /\ h.buffer.session \in Id
  BY DEF Fits, Handler, BufferOperation
<1>3. g = PublishStatus(p, marked, h.buffer.operation, h.buffer.session, status)
  BY DEF Report
<1> HIDE DEF marked, g
<1>4. /\ Fits(p, g) /\ Follows(p, marked, g)
      /\ g.buffer = marked.buffer /\ g.log = marked.log /\ g.clock = marked.clock
      /\ g.playback = marked.playback /\ g.music = marked.music
      /\ g.begun = marked.begun
  BY <1>1, <1>2, <1>3, PublishStatusFits
<1>5. Follows(p, h, g)
  BY <1>1, <1>4, FollowsOn
<1>6. QED
  BY <1>1, <1>4, <1>5 DEF g
-----------------------------------------------------------------------------
(* The queue, the clock and the player *)

(* Taking the item of an operation out of the queue leaves every other item there
   (remove_buffer_queue_item). *)
LEMMA RemovesOnlyItem ==
  ASSUME NEW m \in Music, NEW item, NEW now \in Nat
  PROVE  /\ RemoveBufferQueueItem(m, item, now) \in Music
         /\ \A x : InQueue(m.queue, x) /\ x # item =>
              InQueue(RemoveBufferQueueItem(m, item, now).queue, x)
<1>1. CASE ~InQueue(m.queue, item)
  BY <1>1 DEF RemoveBufferQueueItem
<1>2. CASE InQueue(m.queue, item)
  <2> DEFINE i == Position(m.queue, item)
             rest == WithoutIndex(m.queue, i)
             taken == [m EXCEPT !.queue = rest]
  <2>1. m.queue \in Seq(Item)
    BY DEF Music
  <2>2. i \in DOMAIN m.queue /\ m.queue[i] = item
    BY <1>2 DEF InQueue, Position
  <2>3. rest \in Seq(Item)
    BY <2>1, <2>2, WithoutIndexType
  <2>4. \A x : InQueue(m.queue, x) /\ x # item => InQueue(rest, x)
    BY <2>1, <2>2, WithoutIndexKeeps
  <2>5. RemoveBufferQueueItem(m, item, now) = MarkQueueChanged(taken, now)
    BY <1>2 DEF RemoveBufferQueueItem
  <2> HIDE DEF rest
  <2>6. taken \in Music /\ taken.queue = rest
    BY <2>3 DEF Music
  <2> HIDE DEF taken
  <2>7. MarkQueueChanged(taken, now) \in Music
    BY <2>6, MarkQueueChangedType
  <2>8. MarkQueueChanged(taken, now).queue = rest
    BY <2>6 DEF MarkQueueChanged, Music
  <2>9. QED
    BY <2>4, <2>5, <2>6, <2>7, <2>8
<1>3. QED
  BY <1>1, <1>2

LEMMA LeastIndex ==
  ASSUME NEW T \in SUBSET Nat, T # {}
  PROVE  \E n \in T : \A k \in T : n <= k
<1> DEFINE less == {ss \in Nat \X Nat : ss[1] < ss[2]}
<1>1. IsWellFoundedOn(less, Nat)
  BY NatLessThanWellFounded DEF OpToRel
<1>2. PICK n \in T : \A k \in T : <<k, n>> \notin less
  <2> HIDE DEF less
  <2>1. QED
    BY <1>1, WFMin
<1>3. n \in Nat
  OBVIOUS
<1>4. ASSUME NEW k \in T PROVE n <= k
  <2>1. k \in Nat /\ <<k, n>> \in Nat \X Nat
    BY <1>3
  <2>2. ~(<<k, n>>[1] < <<k, n>>[2])
    BY <1>2, <2>1
  <2>3. QED
    BY <1>3, <2>1, <2>2
<1>5. QED
  BY <1>4

(* A playback state takes an item of its own request out of the queue, and no other
   (remove_started_playback_queue_item). *)
LEMMA TakesItsRequest ==
  ASSUME NEW m \in Music, NEW state
  PROVE  /\ RemoveStartedItem(m, state) \in Music
         /\ \A x : InQueue(m.queue, x) /\ ~SameRequest(x, state.track) =>
              InQueue(RemoveStartedItem(m, state).queue, x)
<1> DEFINE fits == {i \in DOMAIN m.queue : /\ SameRequest(m.queue[i], state.track)
                                         /\ m.queue[i].added_at <= state.issued_at}
           first == CHOOSE i \in fits : \A j \in fits : i <= j
           rest == WithoutIndex(m.queue, first)
           taken == [m EXCEPT !.queue = rest]
<1>1. RemoveStartedItem(m, state) = IF fits = {} THEN m ELSE taken
  BY DEF RemoveStartedItem
<1>2. m.queue \in Seq(Item) /\ DOMAIN m.queue \subseteq Nat
  BY DEF Music
<1>3. CASE fits = {}
  <2> HIDE DEF fits, taken
  <2>1. QED
    BY <1>1, <1>3
<1>4. CASE fits # {}
  <2>1. first \in fits
    <3>1. fits \in SUBSET Nat
      BY <1>2
    <3> HIDE DEF fits
    <3>2. \E i \in fits : \A j \in fits : i <= j
      BY <1>4, <3>1, LeastIndex
    <3>3. QED
      BY <3>2
  <2>2. first \in DOMAIN m.queue /\ SameRequest(m.queue[first], state.track)
    BY <2>1
  <2> HIDE DEF fits, first
  <2>3. rest \in Seq(Item)
    BY <1>2, <2>2, WithoutIndexType
  <2>4. ASSUME NEW x, InQueue(m.queue, x), ~SameRequest(x, state.track)
        PROVE  InQueue(rest, x)
    <3>1. x # m.queue[first]
      BY <2>2, <2>4
    <3>2. QED
      BY <1>2, <2>2, <2>4, <3>1, WithoutIndexKeeps
  <2> HIDE DEF rest
  <2>5. taken \in Music /\ taken.queue = rest
    BY <2>3 DEF Music
  <2> HIDE DEF taken
  <2>6. QED
    BY <1>1, <1>4, <2>4, <2>5
<1>5. QED
  BY <1>3, <1>4

(* The published queue is the peer's own, counted up (publish_queue_state). *)
LEMMA PublishQueueFits ==
  ASSUME NEW h \in Handler
  PROVE  LET g == PublishQueue(h)
         IN  /\ g \in Handler /\ g.music.queue = h.music.queue
             /\ \A m \in g.sent \ h.sent :
                  m.type = "QueueState" /\ m.state.items = h.music.queue
             /\ h.sent \subseteq g.sent
             /\ g.playback = h.playback /\ g.buffer = h.buffer /\ g.log = h.log
             /\ g.clock = h.clock /\ g.events = h.events /\ g.stream = h.stream
             /\ g.failed = h.failed /\ g.alive = h.alive /\ g.begun = h.begun
<1> DEFINE m == MarkQueueChanged(h.music, h.clock)
           msg == [type |-> "QueueState", state |-> BuildQueueState(m)]
           changed == [h EXCEPT !.music = m]
<1>1. h.music \in Music /\ h.clock \in Nat
  BY DEF Handler
<1>2. m \in Music
  BY <1>1, MarkQueueChangedType
<1>3. m.queue = h.music.queue
  BY <1>1 DEF MarkQueueChanged, Music
<1> HIDE DEF m
<1>4. BuildQueueState(m) \in QueueState /\ BuildQueueState(m).items = m.queue
  BY <1>2 DEF BuildQueueState, QueueState, Music
<1>5. msg \in Message /\ msg.type = "QueueState" /\ msg.state.items = h.music.queue
  BY <1>3, <1>4 DEF Message
<1>6. /\ changed \in Handler /\ changed.music = m /\ changed.sent = h.sent
      /\ changed.playback = h.playback /\ changed.buffer = h.buffer
      /\ changed.log = h.log /\ changed.clock = h.clock
      /\ changed.events = h.events /\ changed.stream = h.stream
      /\ changed.failed = h.failed /\ changed.alive = h.alive
      /\ changed.begun = h.begun
  BY <1>2 DEF Handler
<1>7. PublishQueue(h) = Publish(changed, msg)
  BY DEF PublishQueue, m
<1> HIDE DEF msg, changed
<1>8. LET g == Publish(changed, msg)
      IN  /\ g \in Handler /\ g.music = m /\ g.sent = h.sent \cup {msg}
          /\ g.playback = h.playback /\ g.buffer = h.buffer
          /\ g.log = h.log /\ g.clock = h.clock
          /\ g.events = h.events /\ g.stream = h.stream
          /\ g.failed = h.failed /\ g.alive = h.alive
          /\ g.begun = h.begun
  BY <1>5, <1>6 DEF Publish, Handler
<1>9. QED
  BY <1>3, <1>5, <1>7, <1>8

(* What fits the history fits it later. *)
LEMMA StampedFits ==
  ASSUME NEW p, NEW h, Fits(p, h)
  PROVE  LET g == Stamped(h)
         IN  /\ Fits(p, g) /\ Follows(p, h, g) /\ g.clock = h.clock + 1
             /\ g.log = h.log /\ g.buffer = h.buffer /\ g.playback = h.playback
             /\ g.music = h.music /\ g.begun = h.begun
<1> DEFINE g == Stamped(h)
<1>1. h \in Handler /\ h.clock \in Nat
  BY DEF Fits, Handler
<1>2. /\ g \in Handler /\ g.clock = h.clock + 1
      /\ g.log = h.log /\ g.buffer = h.buffer /\ g.playback = h.playback
      /\ g.music = h.music /\ g.events = h.events /\ g.sent = h.sent
      /\ g.begun = h.begun
  BY <1>1 DEF Stamped, Handler
<1> HIDE DEF g
<1>3. HistoryFits(h.log, h.clock) /\ LedFits(p, h.buffer, h.log, h.clock)
  BY DEF Fits, PeerFits
<1>4. Extends(h.log, h.clock, g.log, g.clock)
  BY <1>1, <1>2 DEF Extends
<1>5. HistoryFits(g.log, g.clock)
  <2>1. \A c \in h.log.committed : c.operation[2] \in Nat
    BY <1>1 DEF Handler, Log, Commit, Id
  <2>2. \A operation \in h.log.cancelled : operation[2] \in Nat
    BY <1>1 DEF Handler, Log, Id
  <2>3. QED
    BY <1>1, <1>2, <1>3, <2>1, <2>2 DEF HistoryFits
<1>6. LedFits(p, g.buffer, g.log, g.clock)
  <2>1. h.buffer # NoOperation => h.buffer.operation[2] \in Nat
    BY <1>1 DEF Handler, BufferOperation, Id
  <2>2. QED
    BY <1>1, <1>2, <1>3, <2>1 DEF LedFits, Leads
<1>7. Fits(p, g)
  BY <1>2, <1>4, <1>5, <1>6, FitsLater
<1>8. Follows(p, h, g)
  <2>1. Follows(p, h, h)
    BY <1>1, FollowsItself
  <2>2. QED
    BY <1>2, <1>4, <2>1 DEF Follows
<1>9. QED
  BY <1>2, <1>7, <1>8 DEF g

(* Stopping the player, and noting a session that failed, change nothing that
   the invariant is about. *)
LEMMA StopPlayerFits ==
  ASSUME NEW p, NEW h, Fits(p, h), NEW failed \in SUBSET Id
  PROVE  /\ LET g == StopPlayer(h)
            IN  /\ Fits(p, g) /\ Follows(p, h, g)
                /\ g.log = h.log /\ g.clock = h.clock /\ g.buffer = h.buffer
                /\ g.playback = h.playback /\ g.music = h.music /\ g.begun = h.begun
         /\ LET g == [StopPlayer(h) EXCEPT !.failed = failed]
            IN  /\ Fits(p, g) /\ Follows(p, h, g)
                /\ g.log = h.log /\ g.clock = h.clock /\ g.buffer = h.buffer
                /\ g.playback = h.playback /\ g.music = h.music /\ g.begun = h.begun
<1> DEFINE g == StopPlayer(h)
           k == [g EXCEPT !.failed = failed]
<1>1. h \in Handler
  BY DEF Fits
<1>2. /\ g \in Handler /\ g.log = h.log /\ g.clock = h.clock /\ g.buffer = h.buffer
      /\ g.playback = h.playback /\ g.music = h.music /\ g.events = h.events
      /\ g.sent = h.sent /\ g.begun = h.begun
  BY <1>1 DEF StopPlayer, Handler
<1> HIDE DEF g
<1>3. /\ k \in Handler /\ k.log = h.log /\ k.clock = h.clock /\ k.buffer = h.buffer
      /\ k.playback = h.playback /\ k.music = h.music /\ k.events = h.events
      /\ k.sent = h.sent /\ k.begun = h.begun
  BY <1>2 DEF Handler
<1> HIDE DEF k
<1>4. Fits(p, g) /\ Follows(p, h, g)
  BY <1>2, FitsNow
<1>5. Fits(p, k) /\ Follows(p, h, k)
  BY <1>3, FitsNow
<1>6. QED
  BY <1>2, <1>3, <1>4, <1>5 DEF g, k
-----------------------------------------------------------------------------
(* How operations end *)

\* The active operation is cleared and cancelled.
Cancelled(h) ==
  PublishCancel([h EXCEPT !.buffer = NoOperation], h.buffer.operation)

(* The leader's own operation, which has not ended, ends cancelled. *)
LEMMA CancelledFits ==
  ASSUME NEW p \in Peer, NEW h, Fits(p, h), Leads(p, h.buffer)
  PROVE  LET g == Cancelled(h)
         IN  /\ Fits(p, g) /\ Follows(p, h, g) /\ g.buffer = NoOperation
             /\ g.clock = h.clock /\ g.playback = h.playback /\ g.music = h.music
             /\ g.begun = h.begun
<1> DEFINE id == h.buffer.operation
           m == [type |-> "BufferCancel", operation |-> id]
           g == Cancelled(h)
<1>1. h \in Handler /\ h.buffer \in BufferOperation /\ id \in Id /\ id[1] = p
  BY DEF Fits, Handler, Leads, LeaderOf, BufferOperation
<1>2. m \in Message /\ m.type = "BufferCancel"
  BY <1>1 DEF Message
<1>3. HistoryFits(h.log, h.clock) /\ id[2] < h.clock /\ ~Ended(h.log, id)
  BY DEF Fits, PeerFits, LedFits
<1>4. g = [[[h EXCEPT !.buffer = NoOperation] EXCEPT !.sent = @ \cup {m}]
             EXCEPT !.log.cancelled = @ \cup {id}]
  BY DEF Cancelled, PublishCancel, Publish
<1> HIDE DEF m, id, g
<1>5. /\ g \in Handler /\ g.buffer = NoOperation /\ g.clock = h.clock
      /\ g.playback = h.playback /\ g.music = h.music /\ g.events = h.events
      /\ g.sent = h.sent \cup {m} /\ g.begun = h.begun
      /\ g.log.cancelled = h.log.cancelled \cup {id}
      /\ g.log.committed = h.log.committed /\ g.log.prepared = h.log.prepared
      /\ g.log.skipped = h.log.skipped
  BY <1>1, <1>2, <1>4 DEF Handler, Log
<1>6. Extends(h.log, h.clock, g.log, g.clock)
  BY <1>1, <1>5 DEF Extends, Handler
<1>7. HistoryFits(g.log, g.clock)
  BY <1>3, <1>5 DEF HistoryFits, Ended
<1>8. OperationFits(g.buffer, g.log) /\ LedFits(p, g.buffer, g.log, g.clock)
  BY <1>5 DEF OperationFits, LedFits, Leads
<1>9. MessageFits(m, g.log, g.clock)
  BY <1>2 DEF MessageFits
<1>10. Fits(p, g)
  BY <1>5, <1>6, <1>7, <1>8, <1>9, FitsLater
<1>11. Follows(p, h, g)
  BY <1>1, <1>5, <1>6 DEF Follows, EndsOwn, NotOlder, Handler, PlaybackState
<1>12. QED
  BY <1>5, <1>10, <1>11 DEF g

(* A skipped operation is cancelled, and a Start takes its item along
   (skip_buffer_operation). *)
LEMMA SkipOperationFits ==
  ASSUME NEW p \in Peer, NEW h, Fits(p, h), Leads(p, h.buffer)
  PROVE  LET g == SkipOperation(h)
         IN  /\ Fits(p, g) /\ Follows(p, h, g) /\ g.buffer = NoOperation
             /\ g.playback = h.playback
<1> DEFINE op == h.buffer
           cleared == Cancelled(h)
           m == RemoveBufferQueueItem(cleared.music, op.track, h.clock)
           removed == [cleared EXCEPT !.music = m, !.log.skipped = @ \cup {op.track}]
<1>1. op \in BufferOperation /\ op.track \in Item /\ h \in Handler
  BY DEF Fits, Handler, Leads, BufferOperation
<1>2. /\ Fits(p, cleared) /\ Follows(p, h, cleared) /\ cleared.buffer = NoOperation
      /\ cleared.clock = h.clock /\ cleared.playback = h.playback
      /\ cleared \in Handler
  BY CancelledFits DEF Fits
<1>3. SkipOperation(h) = IF op.kind = "Start" THEN Stamped(PublishQueue(removed))
                         ELSE cleared
  BY DEF SkipOperation, Cancelled
<1> HIDE DEF cleared
<1>4. CASE op.kind = "Start"
  <2>1. /\ m \in Music
        /\ \A x : InQueue(cleared.music.queue, x) /\ x # op.track => InQueue(m.queue, x)
    <3>1. cleared.music \in Music /\ h.clock \in Nat
      BY <1>1, <1>2 DEF Handler
    <3>2. QED
      BY <3>1, RemovesOnlyItem
  <2> HIDE DEF m, op
  <2>2. /\ removed \in Handler /\ removed.music = m
        /\ removed.clock = cleared.clock /\ removed.buffer = cleared.buffer
        /\ removed.playback = cleared.playback /\ removed.events = cleared.events
        /\ removed.sent = cleared.sent
        /\ removed.log.skipped = cleared.log.skipped \cup {op.track}
        /\ removed.log.committed = cleared.log.committed
        /\ removed.log.cancelled = cleared.log.cancelled
        /\ removed.log.prepared = cleared.log.prepared
    BY <1>1, <1>2, <2>1 DEF Handler, Log
  <2> HIDE DEF removed
  <2>3. Extends(cleared.log, cleared.clock, removed.log, removed.clock)
    BY <1>2, <2>2 DEF Extends, Handler
  <2>4. Follows(p, cleared, removed)
    BY <1>2, <2>2, <2>3 DEF Follows, EndsOwn, NotOlder, Handler, PlaybackState
  <2>5. HistoryFits(removed.log, removed.clock)
    BY <1>2, <2>2 DEF Fits, HistoryFits
  <2>6. LedFits(p, removed.buffer, removed.log, removed.clock)
    BY <1>2, <2>2 DEF LedFits, Leads
  <2>7. QueueFits(removed.music.queue, removed.log)
    <3>1. QueueFits(cleared.music.queue, cleared.log)
      BY <1>2 DEF Fits, PeerFits
    <3>2. \A x : Gone(cleared.log, x) \/ x = op.track => Gone(removed.log, x)
      BY <2>2 DEF Gone
    <3>3. QED
      BY <2>1, <2>2, <3>1, <3>2 DEF QueueFits
  <2>8. Fits(p, removed)
    BY <1>2, <2>2, <2>3, <2>5, <2>6, <2>7, FitsLater
  <2> DEFINE published == PublishQueue(removed)
  <2>9. /\ published \in Handler /\ published.music.queue = removed.music.queue
        /\ \A n \in published.sent \ removed.sent :
             n.type = "QueueState" /\ n.state.items = removed.music.queue
        /\ published.playback = removed.playback /\ published.buffer = removed.buffer
        /\ published.log = removed.log /\ published.clock = removed.clock
        /\ published.events = removed.events
    BY <2>2, PublishQueueFits
  <2> HIDE DEF published
  <2>10. \A n \in published.sent \ removed.sent :
           MessageFits(n, removed.log, removed.clock)
    BY <2>7, <2>9 DEF MessageFits
  <2>11. Fits(p, published) /\ Follows(p, removed, published)
    BY <2>8, <2>9, <2>10, FitsNow
  <2>12. /\ Fits(p, Stamped(published)) /\ Follows(p, published, Stamped(published))
         /\ Stamped(published).buffer = published.buffer
         /\ Stamped(published).playback = published.playback
         /\ Stamped(published) \in Handler
    BY <2>11, StampedFits DEF Fits
  <2>13. Follows(p, h, removed)
    BY <1>2, <2>4, <2>8, FollowsOn
  <2>14. Follows(p, h, published)
    BY <2>8, <2>11, <2>13, FollowsOn
  <2>15. Follows(p, h, Stamped(published))
    BY <2>11, <2>12, <2>14, FollowsOn
  <2>16. QED
    BY <1>2, <1>3, <1>4, <2>2, <2>9, <2>12, <2>15 DEF published, op
<1>5. CASE op.kind # "Start"
  BY <1>2, <1>3, <1>5
<1>6. QED
  BY <1>4, <1>5
-----------------------------------------------------------------------------
(* A majority of those expected were ready (BufferOperation::quorum). *)
LEMMA ReadyQuorum ==
  ASSUME NEW op \in BufferOperation, Quorum(op) = "Ready"
  PROVE  2 * Cardinality(WithStatus(op, "Ready")) > Cardinality(op.expected)
<1> DEFINE ready == Cardinality(WithStatus(op, "Ready"))
           total == Cardinality(op.expected)
<1>1. ready \in Nat /\ total \in Nat
  <2>1. WithStatus(op, "Ready") \subseteq Peer /\ op.expected \subseteq Peer
    BY DEF WithStatus, BufferOperation
  <2>2. IsFiniteSet(WithStatus(op, "Ready")) /\ IsFiniteSet(op.expected)
    BY <2>1, PeerAssumption, FS_Subset
  <2>3. QED
    BY <2>2, FS_CardinalityType
<1>2. ready >= MajorityThreshold(total)
  BY DEF Quorum
<1> HIDE DEF ready, total
<1>3. 2 * ready > total
  BY <1>1, <1>2 DEF MajorityThreshold
<1>4. QED
  BY <1>3 DEF ready, total

(* A leader commits with a majority that is ready; the session then plays and a
   Start's item leaves the queue (commit_buffer_operation). *)
LEMMA CommitOperationFits ==
  ASSUME NEW p \in Peer, NEW h, Fits(p, h), Leads(p, h.buffer),
         Quorum(h.buffer) = "Ready"
  PROVE  Fits(p, CommitOperation(p, h)) /\ Follows(p, h, CommitOperation(p, h))
<1> DEFINE op == h.buffer
           state == [session |-> op.session, leader |-> p, track |-> op.track,
                     issued_at |-> h.clock, playing |-> TRUE]
           commit == [operation |-> op.operation, session |-> op.session,
                      track |-> op.track, expected |-> op.expected,
                      ready |-> WithStatus(op, "Ready")]
           m == RemoveBufferQueueItem(h.music, op.track, h.clock)
           removed == [h EXCEPT !.music = m]
           queued == IF op.kind = "Start" THEN PublishQueue(removed) ELSE h
           msg == [type |-> "PlaybackState", state |-> state]
           g == CommitOperation(p, h)
<1>1. /\ h \in Handler /\ h.music \in Music /\ h.clock \in Nat /\ h.log \in Log
      /\ h.playback \in PlaybackState \cup {NoPlayback} /\ h.begun \in Nat
  BY DEF Fits, Handler
<1>2. op \in BufferOperation
  BY <1>1 DEF Handler, Leads
<1>3. /\ op.operation \in Id /\ op.operation[1] = p /\ op.session \in Id
      /\ op.track \in Item /\ op.expected \subseteq Peer
  BY <1>2 DEF BufferOperation, Leads, LeaderOf
<1>4. /\ OperationFits(op, h.log) /\ op # NoOperation
      /\ op.operation[2] < h.clock /\ ~Ended(h.log, op.operation)
      /\ HistoryFits(h.log, h.clock) /\ QueueFits(h.music.queue, h.log)
      /\ PlaybackFits(h.playback, h.log, h.clock)
  BY DEF Fits, PeerFits, LedFits, Leads
<1>5. /\ commit \in Commit /\ commit.ready \subseteq commit.expected
      /\ \A q \in commit.ready : <<commit.operation, q>> \in h.log.prepared
  BY <1>2, <1>3, <1>4 DEF OperationFits, WithStatus, Commit
<1>6. 2 * Cardinality(commit.ready) > Cardinality(commit.expected)
  BY <1>2, ReadyQuorum
<1>7. /\ commit.operation = op.operation /\ commit.session = op.session
      /\ commit.track = op.track
  OBVIOUS
<1>8. /\ state \in PlaybackState /\ state.session = op.session
      /\ state.track = op.track /\ state.issued_at = h.clock
  BY <1>1, <1>3 DEF PlaybackState
<1>9. msg \in Message /\ msg.type = "PlaybackState" /\ msg.state = state
  BY <1>8 DEF Message
<1>10. g = [Publish([queued EXCEPT !.playback = state, !.buffer = NoOperation,
                                   !.log.committed = @ \cup {commit}], msg)
              EXCEPT !.clock = @ + 1]
  BY DEF CommitOperation, Stamped, PublishPlayback
<1>11. /\ queued \in Handler /\ queued.clock = h.clock /\ queued.log = h.log
       /\ queued.playback = h.playback /\ queued.events = h.events
       /\ queued.begun = h.begun
       /\ \A x : InQueue(h.music.queue, x) /\ x # op.track
                   => InQueue(queued.music.queue, x)
       /\ \A n \in queued.sent \ h.sent :
            n.type = "QueueState" /\ n.state.items = queued.music.queue
  <2>1. CASE op.kind = "Start"
    <3>1. /\ m \in Music
          /\ \A x : InQueue(h.music.queue, x) /\ x # op.track => InQueue(m.queue, x)
      <4>1. h.music \in Music /\ h.clock \in Nat
        BY <1>1
      <4>2. QED
        BY <4>1, RemovesOnlyItem
    <3> HIDE DEF m
    <3>2. /\ removed \in Handler /\ removed.music = m /\ removed.clock = h.clock
          /\ removed.log = h.log /\ removed.playback = h.playback
          /\ removed.events = h.events /\ removed.sent = h.sent
          /\ removed.begun = h.begun
      BY <1>1, <3>1 DEF Handler
    <3> HIDE DEF removed
    <3>3. LET k == PublishQueue(removed)
          IN  /\ k \in Handler /\ k.music.queue = m.queue
              /\ \A n \in k.sent \ h.sent :
                   n.type = "QueueState" /\ n.state.items = m.queue
              /\ k.playback = h.playback /\ k.log = h.log /\ k.clock = h.clock
              /\ k.events = h.events /\ k.begun = h.begun
      BY <3>2, PublishQueueFits
    <3>4. queued = PublishQueue(removed)
      BY <2>1
    <3> HIDE DEF queued
    <3>5. QED
      BY <3>1, <3>3, <3>4
  <2>2. CASE op.kind # "Start"
    BY <1>1, <2>2
  <2>3. QED
    BY <2>1, <2>2
<1> HIDE DEF queued, g, op, state, commit, msg
<1>12. /\ g \in Handler /\ g.buffer = NoOperation /\ g.clock = h.clock + 1
       /\ g.playback = state /\ g.music = queued.music /\ g.events = h.events
       /\ g.sent = queued.sent \cup {msg} /\ g.begun = h.begun
       /\ g.log.cancelled = h.log.cancelled
       /\ g.log.committed = h.log.committed \cup {commit}
       /\ g.log.prepared = h.log.prepared /\ g.log.skipped = h.log.skipped
  <2> DEFINE k == [queued EXCEPT !.playback = state, !.buffer = NoOperation,
                                 !.log.committed = @ \cup {commit}]
  <2>1. /\ k \in Handler /\ k.buffer = NoOperation /\ k.clock = h.clock
        /\ k.playback = state /\ k.music = queued.music /\ k.events = h.events
        /\ k.sent = queued.sent /\ k.begun = h.begun
        /\ k.log.cancelled = h.log.cancelled
        /\ k.log.committed = h.log.committed \cup {commit}
        /\ k.log.prepared = h.log.prepared /\ k.log.skipped = h.log.skipped
    BY <1>5, <1>8, <1>11 DEF Handler, Log
  <2>2. g = [Publish(k, msg) EXCEPT !.clock = @ + 1]
    BY <1>10
  <2> HIDE DEF k
  <2>3. /\ Publish(k, msg) \in Handler /\ Publish(k, msg).sent = k.sent \cup {msg}
        /\ Publish(k, msg).buffer = k.buffer /\ Publish(k, msg).clock = k.clock
        /\ Publish(k, msg).playback = k.playback /\ Publish(k, msg).log = k.log
        /\ Publish(k, msg).music = k.music /\ Publish(k, msg).events = k.events
        /\ Publish(k, msg).begun = k.begun
    BY <1>9, <2>1 DEF Publish, Handler
  <2>4. /\ g \in Handler /\ g.buffer = k.buffer /\ g.clock = k.clock + 1
        /\ g.playback = k.playback /\ g.music = k.music /\ g.events = k.events
        /\ g.sent = k.sent \cup {msg} /\ g.begun = k.begun /\ g.log = k.log
    BY <2>2, <2>3 DEF Handler
  <2>5. QED
    BY <2>1, <2>4
<1>13. Extends(h.log, h.clock, g.log, g.clock)
  BY <1>1, <1>12 DEF Extends
<1>14. HistoryFits(g.log, g.clock)
  <2>1. \A c \in h.log.committed : c.operation[2] \in Nat
    BY <1>1 DEF Log, Commit, Id
  <2>2. \A operation \in h.log.cancelled : operation[2] \in Nat
    BY <1>1 DEF Log, Id
  <2>3. op.operation[2] \in Nat
    BY <1>3 DEF Id
  <2>4. \A operation \in g.log.cancelled : operation[2] < g.clock
    BY <1>1, <1>4, <1>12, <2>2 DEF HistoryFits
  <2>5. ASSUME NEW c \in g.log.committed
        PROVE  /\ c.ready \subseteq c.expected
               /\ 2 * Cardinality(c.ready) > Cardinality(c.expected)
               /\ \A q \in c.ready : <<c.operation, q>> \in g.log.prepared
               /\ c.operation[2] < g.clock
               /\ c.operation \notin g.log.cancelled
    <3>1. CASE c = commit
      BY <1>1, <1>4, <1>5, <1>6, <1>7, <1>12, <2>3, <3>1 DEF Ended
    <3>2. CASE c \in h.log.committed
      BY <1>1, <1>4, <1>12, <2>1, <3>2 DEF HistoryFits
    <3>3. QED
      BY <1>12, <3>1, <3>2
  <2>6. \A c, d \in g.log.committed : c.operation = d.operation => c = d
    BY <1>4, <1>7, <1>12 DEF HistoryFits, Ended
  <2>7. QED
    BY <2>4, <2>5, <2>6 DEF HistoryFits
<1>15. OperationFits(g.buffer, g.log) /\ LedFits(p, g.buffer, g.log, g.clock)
  BY <1>12 DEF OperationFits, LedFits, Leads
<1>16. PlaybackFits(state, g.log, g.clock)
  <2>1. Started(g.log, state.session, state.track)
    BY <1>7, <1>8, <1>12 DEF Started
  <2>2. state.track # NoTrack /\ state.issued_at < g.clock
    BY <1>1, <1>3, <1>8, <1>12, BufferAssumption
  <2>3. QED
    BY <2>1, <2>2 DEF PlaybackFits
<1>17. QueueFits(g.music.queue, g.log)
  <2>1. \A x : Gone(h.log, x) \/ x = op.track => Gone(g.log, x)
    BY <1>7, <1>12 DEF Gone, SameRequest
  <2>2. QED
    BY <1>4, <1>11, <1>12, <2>1 DEF QueueFits
<1>18. \A n \in g.sent \ h.sent : MessageFits(n, g.log, g.clock)
  BY <1>9, <1>11, <1>12, <1>16, <1>17 DEF MessageFits
<1>19. Fits(p, g)
  BY <1>12, <1>13, <1>14, <1>15, <1>16, <1>17, <1>18, FitsLater
<1>20. EndsOwn(p, h.log, g.log)
  BY <1>3, <1>7, <1>12 DEF EndsOwn
<1>21. NotOlder(h.playback, g.playback)
  <2>1. h.playback # NoPlayback => h.playback.issued_at \in Nat
    BY <1>1 DEF PlaybackState
  <2>2. state # NoPlayback
    BY <1>8, BufferAssumption
  <2>3. QED
    BY <1>1, <1>4, <1>8, <1>12, <2>1, <2>2 DEF NotOlder, PlaybackFits
<1>22. QED
  BY <1>13, <1>19, <1>20, <1>21 DEF Follows, g
-----------------------------------------------------------------------------
(* Preparing a stream *)

(* Noting what the operation has at p: it holds for whatever fits. *)
LEMMA HasPreparedFits ==
  ASSUME NEW p \in Peer, NEW h, Fits(p, h), NEW operation \in Id
  PROVE  LET g == HasPrepared(p, h, operation)
         IN  /\ Fits(p, g) /\ Follows(p, h, g)
             /\ <<operation, p>> \in g.log.prepared
             /\ g.clock = h.clock /\ g.buffer = h.buffer /\ g.playback = h.playback
             /\ g.music = h.music /\ g.begun = h.begun /\ g.stream = h.stream
             /\ g.events = h.events
<1> DEFINE g == HasPrepared(p, h, operation)
<1>1. h \in Handler /\ h.clock \in Nat
  BY DEF Fits, Handler
<1>2. <<operation, p>> \in Id \X Peer
  OBVIOUS
<1>3. /\ g \in Handler
      /\ g.clock = h.clock /\ g.buffer = h.buffer /\ g.playback = h.playback
      /\ g.music = h.music /\ g.begun = h.begun /\ g.stream = h.stream
      /\ g.events = h.events /\ g.sent = h.sent
      /\ g.log.prepared = h.log.prepared \cup {<<operation, p>>}
      /\ g.log.committed = h.log.committed /\ g.log.cancelled = h.log.cancelled
      /\ g.log.skipped = h.log.skipped
  BY <1>1, <1>2 DEF HasPrepared, Handler, Log
<1> HIDE DEF g
<1>4. Extends(h.log, h.clock, g.log, g.clock)
  BY <1>1, <1>3 DEF Extends
<1>5. HistoryFits(g.log, g.clock) /\ LedFits(p, g.buffer, g.log, g.clock)
  BY <1>3 DEF Fits, PeerFits, HistoryFits, LedFits, Ended
<1>6. Fits(p, g)
  BY <1>3, <1>4, <1>5, FitsLater
<1>7. Follows(p, h, g)
  BY <1>1, <1>3, <1>4 DEF Follows, EndsOwn, NotOlder, Handler, PlaybackState
<1>8. QED
  BY <1>3, <1>6, <1>7 DEF g

(* The stream may change at any time; the player may report it, to be handled
   later: a prepared one only when its operation has what it needs. *)
LEMMA StreamFits ==
  ASSUME NEW p \in Peer, NEW h, Fits(p, h), NEW s \in Stream \cup {NoOperation}
  PROVE  LET g == [h EXCEPT !.stream = s]
         IN  /\ Fits(p, g) /\ Follows(p, h, g)
             /\ g.clock = h.clock /\ g.buffer = h.buffer /\ g.playback = h.playback
             /\ g.music = h.music /\ g.begun = h.begun /\ g.log = h.log
             /\ g.events = h.events
<1> DEFINE g == [h EXCEPT !.stream = s]
<1>1. h \in Handler
  BY DEF Fits
<1>2. /\ g \in Handler
      /\ g.clock = h.clock /\ g.buffer = h.buffer /\ g.playback = h.playback
      /\ g.music = h.music /\ g.begun = h.begun /\ g.log = h.log
      /\ g.sent = h.sent /\ g.events = h.events
  BY <1>1 DEF Handler
<1> HIDE DEF g
<1>3. Fits(p, g) /\ Follows(p, h, g)
  BY <1>2, FitsNow
<1>4. QED
  BY <1>2, <1>3 DEF g

LEMMA EventFits ==
  ASSUME NEW p \in Peer, NEW h, Fits(p, h), NEW e \in Event,
         e.kind = "Prepared" /\ e.operation # NoOperation =>
           <<e.operation, p>> \in h.log.prepared
  PROVE  LET g == [h EXCEPT !.events = Append(@, e)]
         IN  /\ Fits(p, g) /\ Follows(p, h, g)
             /\ g.clock = h.clock /\ g.buffer = h.buffer /\ g.playback = h.playback
             /\ g.music = h.music /\ g.begun = h.begun /\ g.log = h.log
             /\ g.stream = h.stream
<1> DEFINE es == Append(h.events, e)
           g == [h EXCEPT !.events = es]
<1>1. h \in Handler /\ h.events \in Seq(Event)
  BY DEF Fits, Handler
<1>2. es \in Seq(Event)
  BY <1>1
<1>3. /\ g \in Handler
      /\ g.clock = h.clock /\ g.buffer = h.buffer /\ g.playback = h.playback
      /\ g.music = h.music /\ g.begun = h.begun /\ g.log = h.log
      /\ g.stream = h.stream /\ g.sent = h.sent /\ g.events = es
  BY <1>1, <1>2 DEF Handler
<1> HIDE DEF g
<1>4. EventsFit(p, es, h.log)
  <2>1. EventsFit(p, h.events, h.log)
    BY DEF Fits, PeerFits
  <2>2. /\ Len(es) = Len(h.events) + 1 /\ es[Len(h.events) + 1] = e
        /\ \A j \in 1..Len(h.events) : es[j] = h.events[j]
    BY <1>1, AppendProperties
  <2>3. /\ Len(h.events) \in Nat /\ DOMAIN h.events = 1..Len(h.events)
        /\ DOMAIN es = 1..Len(es)
    BY <1>1, <1>2, LenProperties
  <2>4. \A i \in DOMAIN es :
          \/ i \in DOMAIN h.events /\ es[i] = h.events[i]
          \/ es[i] = e
    BY <2>2, <2>3
  <2>5. QED
    BY <2>1, <2>4 DEF EventsFit
<1>5. Fits(p, g) /\ Follows(p, h, g)
  BY <1>3, <1>4, FitsNow
<1>6. QED
  BY <1>3, <1>5 DEF g

(* A stream is started, goes on or is ready at once; the latter only for an
   operation, which then has what it needs (AudioPlayer::prepare_stream). *)
LEMMA PrepareStreamFits ==
  ASSUME NEW p \in Peer, NEW h, Fits(p, h), NEW operation \in Id \cup {NoOperation},
         NEW session \in Id, NEW track \in Item, NEW target,
         operation = NoOperation /\ target = "Buffered" =>
           h.stream = NoOperation \/ h.stream.session # session
  PROVE  LET g == PrepareStream(p, h, operation, session, track, target)
         IN  /\ Fits(p, g) /\ Follows(p, h, g)
             /\ g.clock = h.clock /\ g.buffer = h.buffer /\ g.playback = h.playback
             /\ g.music = h.music /\ g.begun = h.begun
<1> DEFINE s == h.stream
           fresh == [session |-> session, track |-> track, operation |-> operation,
                     phase |-> "Loading", reported |-> FALSE, broken |-> FALSE]
           prepared == [kind |-> "Prepared", operation |-> operation,
                        session |-> session, track |-> track]
           g == PrepareStream(p, h, operation, session, track, target)
           restarts == [h EXCEPT !.stream = fresh]
           goesOn == [h EXCEPT !.stream.phase = "Loading"]
           has == HasPrepared(p, h, operation)
           isReady == [has EXCEPT !.events = Append(@, prepared),
                                  !.stream.phase = "Ready"]
<1>1. h \in Handler /\ s \in Stream \cup {NoOperation}
  BY DEF Fits, Handler
<1>2. fresh \in Stream
  BY DEF Stream
<1>3. prepared \in Event /\ prepared.operation = operation
  BY DEF Event
<1>4. g = IF s = NoOperation \/ s.session # session THEN restarts
          ELSE IF target = "Buffered" /\ s.reported THEN isReady
          ELSE IF target = "Ahead" THEN goesOn ELSE restarts
  BY DEF PrepareStream
<1> HIDE DEF fresh, prepared, g
<1>5. /\ Fits(p, restarts) /\ Follows(p, h, restarts)
      /\ restarts.clock = h.clock /\ restarts.buffer = h.buffer
      /\ restarts.playback = h.playback /\ restarts.music = h.music
      /\ restarts.begun = h.begun
  BY <1>2, StreamFits
<1>6. CASE s # NoOperation /\ s.session = session /\ target = "Buffered" /\ s.reported
  <2>1. g = isReady /\ operation \in Id
    BY <1>4, <1>6
  <2>2. /\ Fits(p, has) /\ Follows(p, h, has)
        /\ <<operation, p>> \in has.log.prepared
        /\ has.clock = h.clock /\ has.buffer = h.buffer /\ has.playback = h.playback
        /\ has.music = h.music /\ has.begun = h.begun /\ has.stream = s
    BY <2>1, HasPreparedFits
  <2> HIDE DEF has
  <2>3. [has.stream EXCEPT !.phase = "Ready"] \in Stream
    BY <1>1, <1>6, <2>2 DEF Stream
  <2>4. /\ Fits(p, isReady) /\ Follows(p, has, isReady)
        /\ isReady.clock = has.clock /\ isReady.buffer = has.buffer
        /\ isReady.playback = has.playback /\ isReady.music = has.music
        /\ isReady.begun = has.begun
    <3> DEFINE told == [has EXCEPT !.events = Append(@, prepared)]
               ready == [has.stream EXCEPT !.phase = "Ready"]
    <3>1. /\ Fits(p, told) /\ Follows(p, has, told)
          /\ told.clock = has.clock /\ told.buffer = has.buffer
          /\ told.playback = has.playback /\ told.music = has.music
          /\ told.begun = has.begun /\ told.stream = has.stream
      BY <1>3, <2>2, EventFits
    <3>2. isReady = [told EXCEPT !.stream = ready]
      BY <2>2 DEF Fits, Handler
    <3>3. ready \in Stream \cup {NoOperation}
      BY <2>3
    <3> HIDE DEF told, isReady, ready
    <3>4. /\ Fits(p, isReady) /\ Follows(p, told, isReady)
          /\ isReady.clock = told.clock /\ isReady.buffer = told.buffer
          /\ isReady.playback = told.playback /\ isReady.music = told.music
          /\ isReady.begun = told.begun
      BY <3>1, <3>2, <3>3, StreamFits
    <3>5. QED
      BY <2>2, <3>1, <3>4, FollowsOn
  <2> HIDE DEF isReady
  <2>5. Follows(p, h, isReady)
    BY <2>2, <2>4, FollowsOn
  <2>6. QED
    BY <2>1, <2>2, <2>4, <2>5 DEF g
<1>7. CASE /\ s # NoOperation /\ s.session = session /\ target = "Ahead"
           /\ ~(target = "Buffered" /\ s.reported)
  <2>1. [h.stream EXCEPT !.phase = "Loading"] \in Stream
    BY <1>1, <1>7 DEF Stream
  <2>2. g = [h EXCEPT !.stream = [h.stream EXCEPT !.phase = "Loading"]]
    BY <1>4, <1>7
  <2>3. QED
    BY <2>1, <2>2, StreamFits DEF g
<1>8. CASE g = restarts
  <2> HIDE DEF restarts
  <2>1. QED
    BY <1>5, <1>8 DEF g
<1>9. QED
  BY <1>4, <1>6, <1>7, <1>8
-----------------------------------------------------------------------------
(* Deciding and beginning operations *)

(* Whatever the tally says, the leader decides on an operation that fits, and
   no one else decides (resolve_buffer_operation). *)
LEMMA ResolveFits ==
  ASSUME NEW p \in Peer, NEW h, Fits(p, h)
  PROVE  LET g == ResolveBufferOperation(p, h)
         IN  Fits(p, g) /\ Follows(p, h, g)
<1> DEFINE op == h.buffer
           waits == op.statuses[p] = "Buffering"
           extended == [h EXCEPT !.buffer = ExtendDeadline(@)]
           behind == IF waits THEN extended ELSE Report(p, extended, "Buffering")
           g == ResolveBufferOperation(p, h)
<1>1. h \in Handler
  BY DEF Fits
<1>2. CASE ~Leads(p, op)
  <2>1. g = h
    BY <1>2 DEF ResolveBufferOperation
  <2> HIDE DEF g
  <2>2. QED
    BY <1>1, <2>1, FollowsItself DEF g
<1>3. CASE Leads(p, op)
  <2>1. op \in BufferOperation /\ op # NoOperation
    BY <1>1, <1>3 DEF Handler, Leads
  <2>2. op.operation \in Id /\ op.session \in Id /\ op.track \in Item
    BY <2>1 DEF BufferOperation
  <2>3. /\ ExtendDeadline(op) \in BufferOperation
        /\ ExtendDeadline(op).operation = op.operation
        /\ ExtendDeadline(op).statuses = op.statuses
        /\ ExtendDeadline(op).expected = op.expected
        /\ ExtendDeadline(op).session = op.session
    BY <2>1 DEF ExtendDeadline, BufferOperation
  <2>4. ExtendDeadline(op) # NoOperation
    BY <2>3, BufferAssumption
  <2>5. /\ extended \in Handler /\ extended.buffer = ExtendDeadline(op)
        /\ extended.clock = h.clock /\ extended.log = h.log
        /\ extended.playback = h.playback /\ extended.music = h.music
        /\ extended.events = h.events /\ extended.sent = h.sent
    BY <1>1, <2>3 DEF Handler
  <2> HIDE DEF extended
  <2>6. OperationFits(extended.buffer, h.log) /\ LedFits(p, extended.buffer, h.log, h.clock)
    <3>1. OperationFits(op, h.log) /\ LedFits(p, op, h.log, h.clock)
      BY DEF Fits, PeerFits
    <3>2. OperationFits(extended.buffer, h.log)
      BY <2>1, <2>3, <2>5, <3>1 DEF OperationFits
    <3>3. LedFits(p, extended.buffer, h.log, h.clock)
      BY <2>1, <2>3, <2>5, <3>1, LedStaysFit
    <3>4. QED
      BY <3>2, <3>3
  <2>7. Fits(p, extended) /\ Follows(p, h, extended)
    BY <2>5, <2>6, FitsNow
  <2>8. Fits(p, behind) /\ Follows(p, h, behind)
    <3> DEFINE k == Report(p, extended, "Buffering")
    <3>1. Fits(p, k) /\ Follows(p, extended, k)
      BY <2>4, <2>5, <2>7, ReportFits DEF Status
    <3> HIDE DEF k
    <3>2. Follows(p, h, k)
      BY <2>7, <3>1, FollowsOn
    <3>3. QED
      BY <2>7, <3>1, <3>2 DEF k
  <2> HIDE DEF behind
  <2>9. CASE Quorum(op) = "Ready"
    <3>1. CASE p \in Audio /\ op.statuses[p] # "Ready"
      <4>1. g = behind
        BY <1>3, <2>9, <3>1 DEF ResolveBufferOperation, behind, extended
      <4> HIDE DEF g
      <4>2. QED
        BY <2>8, <4>1 DEF g
    <3>2. CASE p \in Audio /\ op.statuses[p] = "Ready" /\ ~HasPreparedStream(h)
      <4> DEFINE k == PrepareStream(p, behind, op.operation, op.session, op.track,
                                    "Outside")
      <4>1. g = k
        BY <1>3, <2>9, <3>2 DEF ResolveBufferOperation, behind, extended
      <4>2. Fits(p, k) /\ Follows(p, behind, k)
        BY <2>2, <2>8, PrepareStreamFits
      <4> HIDE DEF g, k
      <4>3. Follows(p, h, k)
        BY <2>8, <4>2, FollowsOn
      <4>4. QED
        BY <4>1, <4>2, <4>3 DEF g
    <3>3. CASE ~(p \in Audio /\ op.statuses[p] # "Ready")
               /\ ~(p \in Audio /\ ~HasPreparedStream(h))
      <4>1. g = CommitOperation(p, h)
        BY <1>3, <2>9, <3>3 DEF ResolveBufferOperation
      <4> HIDE DEF g
      <4>2. QED
        BY <1>3, <2>9, <4>1, CommitOperationFits DEF g
    <3>4. QED
      BY <3>1, <3>2, <3>3
  <2>10. CASE Quorum(op) = "Impossible"
    <3>1. g = SkipOperation(h)
      BY <1>3, <2>10 DEF ResolveBufferOperation
    <3> HIDE DEF g
    <3>2. QED
      BY <1>3, <3>1, SkipOperationFits DEF g
  <2>11. CASE Quorum(op) = "TimedOut"
    <3>1. CASE waits
      <4> DEFINE k == Publish(extended, Prepare(op))
                 r == PublishStatus(p, k, op.operation, op.session, "Buffering")
      <4>1. g = r
        BY <1>3, <2>11, <3>1 DEF ResolveBufferOperation, extended
      <4>2. Fits(p, k) /\ Follows(p, extended, k)
        BY <2>1, <2>7, PublishPrepareFits
      <4> HIDE DEF g, k
      <4>3. Fits(p, r) /\ Follows(p, k, r)
        BY <2>2, <4>2, PublishStatusFits DEF Status
      <4> HIDE DEF r
      <4>4. Follows(p, h, k)
        BY <2>7, <4>2, FollowsOn
      <4>5. Follows(p, h, r)
        BY <4>2, <4>3, <4>4, FollowsOn
      <4>6. QED
        BY <4>1, <4>3, <4>5 DEF g
    <3>2. CASE ~waits
      <4>1. g = SkipOperation(h)
        BY <1>3, <2>11, <3>2 DEF ResolveBufferOperation
      <4> HIDE DEF g
      <4>2. QED
        BY <1>3, <4>1, SkipOperationFits DEF g
    <3>3. QED
      BY <3>1, <3>2
  <2>12. CASE Quorum(op) = "Waiting"
    <3>1. g = Publish(h, Prepare(op))
      BY <1>3, <2>12 DEF ResolveBufferOperation
    <3> HIDE DEF g
    <3>2. QED
      BY <2>1, <3>1, PublishPrepareFits DEF g
  <2>13. Quorum(op) \in {"Ready", "Impossible", "TimedOut", "Waiting"}
    BY DEF Quorum
  <2>14. QED
    BY <2>9, <2>10, <2>11, <2>12, <2>13
<1>4. QED
  BY <1>2, <1>3
-----------------------------------------------------------------------------
\* A new operation of p, announced: its identifier is the time, which the stamp takes.
Begun(p, h, kind, track) ==
  LET id == <<p, h.clock>>
      session == IF kind = "Start" THEN id ELSE h.playback.session
      op == StartOperation(id, session, track, kind, connected[p] \cup {p})
  IN  Stamped(Report(p, Publish([h EXCEPT !.buffer = op, !.begun = @ + 1],
                                Prepare(op)), "Buffering"))

(* A new operation has an identifier that was never used, and no answer of
   another; all that is said is its prepare and p's own status. *)
LEMMA BegunFits ==
  ASSUME Typed, NEW p \in Peer, NEW h, Fits(p, h), NEW kind \in Kind,
         NEW track \in Item,
         kind # "Start" => h.playback # NoPlayback
  PROVE  LET g == Begun(p, h, kind, track)
         IN  /\ Fits(p, g) /\ Follows(p, h, g) /\ g.clock = h.clock + 1
             /\ g.buffer # NoOperation /\ g.buffer.operation = <<p, h.clock>>
             /\ \A q \in Peer \ {p} : g.buffer.statuses[q] = "None"
             /\ h.sent \subseteq g.sent
             /\ \A m \in g.sent \ h.sent :
                  /\ m.operation = <<p, h.clock>>
                  /\ m.type = "BufferPrepare" \/
                       (m.type = "BufferStatus" /\ m.peer = p /\ m.status = "Buffering")
<1> DEFINE id == <<p, h.clock>>
           session == IF kind = "Start" THEN id ELSE h.playback.session
           op == StartOperation(id, session, track, kind, connected[p] \cup {p})
           opened == [h EXCEPT !.buffer = op, !.begun = @ + 1]
           asked == Publish(opened, Prepare(op))
           marked == MarkOwn(p, asked, "Buffering")
           announced == Report(p, asked, "Buffering")
           begun == Begun(p, h, kind, track)
<1>1. /\ h \in Handler /\ h.clock \in Nat /\ h.begun \in Nat
      /\ h.playback \in PlaybackState \cup {NoPlayback}
  BY DEF Fits, Handler
<1>2. id \in Id /\ id[1] = p /\ id[2] = h.clock /\ id # NoOperation
  BY <1>1, BufferAssumption DEF Id
<1>3. session \in Id
  BY <1>1, <1>2 DEF PlaybackState
<1>4. connected[p] \cup {p} \subseteq Peer
  BY DEF Typed
<1> HIDE DEF id, session
<1>5. /\ op \in BufferOperation /\ op.operation = id /\ op.session = session
      /\ \A q \in Peer : op.statuses[q] = "None"
  BY <1>2, <1>3, <1>4 DEF StartOperation, BufferOperation, Status
<1>6. op # NoOperation
  BY <1>5, BufferAssumption
<1> HIDE DEF op
<1>7. /\ opened \in Handler /\ opened.buffer = op /\ opened.log = h.log
      /\ opened.clock = h.clock /\ opened.playback = h.playback
      /\ opened.music = h.music /\ opened.events = h.events /\ opened.sent = h.sent
  <2>1. h \in Handler /\ op \in BufferOperation /\ h.begun + 1 \in Nat
    BY <1>1, <1>5
  <2>2. QED
    BY <2>1 DEF Handler
<1> HIDE DEF opened
<1>8. Prepare(op) \in Message /\ MessageFits(Prepare(op), h.log, h.clock + 1)
  BY <1>5 DEF Prepare, Message, BufferOperation, MessageFits
<1>9. /\ asked \in Handler /\ asked.buffer = op /\ asked.log = h.log
      /\ asked.clock = h.clock /\ asked.playback = h.playback
      /\ asked.music = h.music /\ asked.events = h.events
      /\ asked.sent = h.sent \cup {Prepare(op)}
  <2> DEFINE m == Prepare(op)
  <2> HIDE DEF m
  <2>1. m \in Message
    BY <1>8 DEF m
  <2>2. /\ Publish(opened, m) \in Handler /\ Publish(opened, m).buffer = op
        /\ Publish(opened, m).log = h.log
        /\ Publish(opened, m).clock = h.clock
        /\ Publish(opened, m).playback = h.playback
        /\ Publish(opened, m).music = h.music
        /\ Publish(opened, m).events = h.events
        /\ Publish(opened, m).sent = h.sent \cup {m}
    BY <1>7, <2>1 DEF Publish, Handler
  <2>3. QED
    BY <2>2 DEF m
<1> HIDE DEF asked
<1>10. OperationFits(op, h.log)
  BY <1>5 DEF OperationFits
<1> DEFINE own == MarkStatus(op, id, session, p, "Buffering")
<1>11. /\ own \in BufferOperation /\ OperationFits(own, h.log) /\ own # NoOperation
       /\ own.operation = id /\ own.session = session
  <2> DEFINE answer == "Buffering"
  <2>1. /\ op \in BufferOperation \cup {NoOperation} /\ answer \in Status
        /\ answer = "Ready" => <<id, p>> \in h.log.prepared
    BY <1>5 DEF Status
  <2>2. /\ own \in BufferOperation \cup {NoOperation} /\ OperationFits(own, h.log)
        /\ own # NoOperation
        /\ own.operation = op.operation /\ own.session = op.session
    <3>1. own = MarkStatus(op, id, session, p, answer)
      OBVIOUS
    <3> HIDE DEF answer, own
    <3>2. QED
      BY <1>6, <1>10, <2>1, <3>1, MarkStatusFits
  <2> HIDE DEF own
  <2>3. QED
    BY <1>5, <2>2
<1>12. marked = [asked EXCEPT !.buffer = own]
  BY <1>5, <1>9 DEF MarkOwn, Handler
<1> HIDE DEF own, marked
<1>13. /\ marked \in Handler /\ marked.buffer = own /\ marked.log = h.log
       /\ marked.clock = h.clock /\ marked.playback = h.playback
       /\ marked.music = h.music /\ marked.events = h.events
       /\ marked.sent = h.sent \cup {Prepare(op)}
  BY <1>9, <1>11, <1>12 DEF Handler
<1> DEFINE status == [type |-> "BufferStatus", operation |-> id,
                      session |-> session, peer |-> p, status |-> "Buffering"]
<1>14. status \in Message /\ MessageFits(status, h.log, h.clock + 1)
  BY <1>2, <1>3 DEF Message, Status, MessageFits
<1>15. announced = Publish(marked, status)
  BY <1>5, <1>9 DEF Report, PublishStatus, marked
<1> HIDE DEF status, announced
<1>16. /\ announced \in Handler /\ announced.buffer = own /\ announced.log = h.log
       /\ announced.clock = h.clock /\ announced.playback = h.playback
       /\ announced.music = h.music /\ announced.events = h.events
       /\ announced.sent = h.sent \cup {Prepare(op), status}
  BY <1>13, <1>14, <1>15 DEF Publish, Handler
<1>17. /\ begun \in Handler /\ begun.buffer = own /\ begun.log = h.log
       /\ begun.clock = h.clock + 1 /\ begun.playback = h.playback
       /\ begun.music = h.music /\ begun.events = h.events
       /\ begun.sent = h.sent \cup {Prepare(op), status}
  <2>1. begun = Stamped(announced)
    BY DEF Begun, announced, asked, opened, op, id, session
  <2> HIDE DEF begun
  <2>2. QED
    BY <1>16, <2>1 DEF Stamped, Handler
<1> HIDE DEF begun
<1>18. Extends(h.log, h.clock, begun.log, begun.clock)
  BY <1>1, <1>17 DEF Extends
<1>19. HistoryFits(begun.log, begun.clock)
  <2>1. \A c \in h.log.committed : c.operation[2] \in Nat
    BY <1>1 DEF Handler, Log, Commit, Id
  <2>2. \A operation \in h.log.cancelled : operation[2] \in Nat
    BY <1>1 DEF Handler, Log, Id
  <2>3. HistoryFits(h.log, h.clock)
    BY DEF Fits
  <2>4. QED
    BY <1>1, <1>17, <2>1, <2>2, <2>3 DEF HistoryFits
<1>20. LedFits(p, begun.buffer, begun.log, begun.clock)
  <2>1. HistoryFits(h.log, h.clock)
    BY DEF Fits
  <2>2. ~Ended(h.log, id)
    BY <1>1, <1>2, <2>1 DEF Ended, HistoryFits
  <2>3. id[2] < begun.clock
    BY <1>1, <1>2, <1>17
  <2>4. QED
    BY <1>11, <1>17, <2>2, <2>3 DEF LedFits
<1>21. \A m \in begun.sent \ h.sent : MessageFits(m, begun.log, begun.clock)
  BY <1>8, <1>14, <1>17
<1>22. Fits(p, begun)
  BY <1>11, <1>17, <1>18, <1>20, <1>19, <1>21, FitsLater
<1>23. Follows(p, h, begun)
  BY <1>1, <1>17, <1>18 DEF Follows, EndsOwn, NotOlder, PlaybackState
<1>24. \A q \in Peer \ {p} : own.statuses[q] = "None"
  <2>1. own = op \/ own = [op EXCEPT !.statuses[p] = "Buffering"]
    BY DEF own, MarkStatus
  <2>2. QED
    BY <1>5, <2>1 DEF BufferOperation
<1>25. \A m \in begun.sent \ h.sent :
         /\ m.operation = id
         /\ m.type = "BufferPrepare" \/
              (m.type = "BufferStatus" /\ m.peer = p /\ m.status = "Buffering")
  <2>1. Prepare(op).operation = id /\ Prepare(op).type = "BufferPrepare"
    BY <1>5 DEF Prepare
  <2>2. /\ status.operation = id /\ status.type = "BufferStatus"
        /\ status.peer = p /\ status.status = "Buffering"
    BY DEF status
  <2>3. QED
    BY <1>17, <2>1, <2>2
<1>26. QED
  BY <1>11, <1>17, <1>22, <1>23, <1>24, <1>25 DEF begun, id

(* What follows in begin_buffer_operation, with an output and without one. *)
LEMMA BeginsBegun ==
  ASSUME NEW p, NEW h, NEW kind, NEW track, NEW target
  PROVE  LET id == <<p, h.clock>>
             begun == Begun(p, h, kind, track)
             session == IF kind = "Start" THEN id ELSE h.playback.session
         IN  BeginBufferOperation(p, h, kind, track, target) =
               IF p \notin Audio
               THEN ResolveBufferOperation(p,
                      MarkOwn(p, HasPrepared(p, begun, id), "Ready"))
               ELSE IF p \in MediaFails THEN begun
               ELSE PrepareStream(p, begun, id, session, track, target)
  BY DEF BeginBufferOperation, Begun

LEMMA BeginFits ==
  ASSUME Typed, NEW p \in Peer, NEW h, Fits(p, h), NEW kind \in Kind,
         NEW track \in Item, NEW target,
         kind # "Start" => h.playback # NoPlayback
  PROVE  LET g == BeginBufferOperation(p, h, kind, track, target)
         IN  Fits(p, g) /\ Follows(p, h, g)
<1> DEFINE id == <<p, h.clock>>
           session == IF kind = "Start" THEN id ELSE h.playback.session
           begun == Begun(p, h, kind, track)
           has == HasPrepared(p, begun, id)
           ready == MarkOwn(p, has, "Ready")
           resolved == ResolveBufferOperation(p, ready)
           prepares == PrepareStream(p, begun, id, session, track, target)
           g == BeginBufferOperation(p, h, kind, track, target)
<1>1. id \in Id /\ id # NoOperation /\ session \in Id
  BY BufferAssumption DEF Fits, Handler, Id, PlaybackState
<1>2. g = IF p \notin Audio THEN resolved
          ELSE IF p \in MediaFails THEN begun ELSE prepares
  BY BeginsBegun
<1>3. /\ Fits(p, begun) /\ Follows(p, h, begun)
      /\ begun.buffer # NoOperation /\ begun.buffer.operation = id
  BY BegunFits
<1> HIDE DEF id, session, begun, g
<1>4. CASE g = resolved
  <2>1. /\ Fits(p, has) /\ Follows(p, begun, has) /\ has.buffer = begun.buffer
        /\ <<id, p>> \in has.log.prepared
    BY <1>1, <1>3, HasPreparedFits
  <2> HIDE DEF has
  <2>2. Fits(p, ready) /\ Follows(p, has, ready)
    BY <1>3, <2>1, MarkOwnFits DEF Status
  <2> HIDE DEF ready
  <2>3. Fits(p, resolved) /\ Follows(p, ready, resolved)
    BY <2>2, ResolveFits
  <2> HIDE DEF resolved
  <2>4. Follows(p, h, has)
    BY <1>3, <2>1, FollowsOn
  <2>5. Follows(p, h, ready)
    BY <2>1, <2>2, <2>4, FollowsOn
  <2>6. Follows(p, h, resolved)
    BY <2>2, <2>3, <2>5, FollowsOn
  <2>7. QED
    BY <1>4, <2>3, <2>6 DEF g
<1>5. CASE g = prepares
  <2>1. Fits(p, prepares) /\ Follows(p, begun, prepares)
    BY <1>1, <1>3, PrepareStreamFits
  <2> HIDE DEF prepares
  <2>2. Follows(p, h, prepares)
    BY <1>3, <2>1, FollowsOn
  <2>3. QED
    BY <1>5, <2>1, <2>2 DEF g
<1>6. CASE g = begun
  BY <1>3, <1>6 DEF g
<1>7. QED
  BY <1>2, <1>4, <1>5, <1>6

(* The next item is started by a peer that is idle. *)
LEMMA StartNextFits ==
  ASSUME Typed, NEW p \in Peer, NEW h, Fits(p, h)
  PROVE  /\ Fits(p, StartNextIfIdle(p, h)) /\ Follows(p, h, StartNextIfIdle(p, h))
         /\ Fits(p, StartNextOrDie(p, h)) /\ Follows(p, h, StartNextOrDie(p, h))
<1> DEFINE next == StartNextIfIdle(p, h)
           last == [next EXCEPT !.alive = @ \ {p}]
<1>1. h \in Handler /\ h.music \in Music
  BY DEF Fits, Handler
<1>2. Fits(p, next) /\ Follows(p, h, next)
  <2>1. CASE next = h
    BY <1>1, <2>1, FollowsItself
  <2>2. CASE next # h
    <3> DEFINE track == Head(h.music.queue)
               begun == BeginBufferOperation(p, h, "Start", track, "Outside")
    <3>1. h.music.queue # <<>> /\ next = begun
      BY <2>2 DEF StartNextIfIdle
    <3>2. track \in Item
      BY <1>1, <3>1 DEF Music
    <3>3. Fits(p, begun) /\ Follows(p, h, begun)
      BY <3>2, BeginFits DEF Kind
    <3>4. QED
      BY <3>1, <3>3
  <2>3. QED
    BY <2>1, <2>2
<1> HIDE DEF next
<1>3. next \in Handler
  BY <1>2 DEF Fits
<1>4. /\ last \in Handler /\ last.log = next.log /\ last.clock = next.clock
      /\ last.buffer = next.buffer /\ last.playback = next.playback
      /\ last.music = next.music /\ last.events = next.events
      /\ last.sent = next.sent
  BY <1>3 DEF Handler
<1> HIDE DEF last
<1>5. Fits(p, last) /\ Follows(p, next, last)
  BY <1>2, <1>4, FitsNow
<1>6. Follows(p, h, last)
  BY <1>2, <1>5, FollowsOn
<1>7. StartNextOrDie(p, h) \in {next, last}
  BY DEF StartNextOrDie, next, last
<1>8. QED
  BY <1>2, <1>5, <1>6, <1>7 DEF next
-----------------------------------------------------------------------------
(* Playback states and operations of others *)

LEMMA IdleStateType ==
  ASSUME NEW p \in Peer, NEW now \in Nat
  PROVE  /\ IdleState(p, now) \in PlaybackState
         /\ IdleState(p, now).issued_at = now /\ IdleState(p, now).track = NoTrack
         /\ ~IdleState(p, now).playing
  BY DEF IdleState, PlaybackState, Id

(* A playback state issued now is the newest there is. *)
LEMMA IssueFits ==
  ASSUME NEW p \in Peer, NEW h, Fits(p, h), NEW state \in PlaybackState,
         state.issued_at = h.clock,
         state.track # NoTrack => Started(h.log, state.session, state.track),
         state.playing => state.track # NoTrack
  PROVE  LET k == [h EXCEPT !.playback = state]
         IN  /\ Fits(p, Stamped(k)) /\ Follows(p, h, Stamped(k))
             /\ LET g == Stamped(PublishPlayback(k, state))
                IN  /\ Fits(p, g) /\ Follows(p, h, g)
                    /\ g.playback = state /\ g.buffer = h.buffer /\ g.log = h.log
                    /\ g.music = h.music /\ g.begun = h.begun
<1> DEFINE k == [h EXCEPT !.playback = state]
           m == [type |-> "PlaybackState", state |-> state]
           stamped == [h EXCEPT !.clock = @ + 1]
           silent == [stamped EXCEPT !.playback = state]
           g == Publish(silent, m)
<1>1. h \in Handler /\ h.clock \in Nat
  BY DEF Fits, Handler
<1>2. /\ Fits(p, stamped) /\ Follows(p, h, stamped) /\ stamped.clock = h.clock + 1
      /\ stamped.log = h.log /\ stamped.buffer = h.buffer
      /\ stamped.playback = h.playback /\ stamped.music = h.music
      /\ stamped.begun = h.begun /\ stamped \in Handler
  BY StampedFits DEF Stamped, Fits
<1>3. /\ Stamped(k) = silent
      /\ Stamped(PublishPlayback(k, state)) = g
  BY <1>1 DEF Stamped, PublishPlayback, Publish, Handler
<1> HIDE DEF stamped
<1>4. /\ silent \in Handler /\ silent.playback = state
      /\ silent.log = stamped.log /\ silent.clock = stamped.clock
      /\ silent.buffer = stamped.buffer /\ silent.music = stamped.music
      /\ silent.events = stamped.events /\ silent.sent = stamped.sent
      /\ silent.begun = stamped.begun
  BY <1>2 DEF Handler
<1> HIDE DEF silent
<1>5. PlaybackFits(state, stamped.log, stamped.clock)
  BY <1>1, <1>2 DEF PlaybackFits
<1>6. NotOlder(stamped.playback, state)
  <2>1. h.playback # NoPlayback => h.playback.issued_at \in Nat
    BY <1>1 DEF Handler, PlaybackState
  <2>2. PlaybackFits(h.playback, h.log, h.clock) /\ state # NoPlayback
    BY BufferAssumption DEF Fits, PeerFits
  <2>3. QED
    BY <1>1, <1>2, <2>1, <2>2 DEF NotOlder, PlaybackFits
<1>7. Fits(p, silent) /\ Follows(p, stamped, silent)
  BY <1>2, <1>4, <1>5, <1>6, FitsNow
<1>8. Follows(p, h, silent)
  BY <1>2, <1>7, FollowsOn
<1>9. m \in Message /\ MessageFits(m, silent.log, silent.clock)
  BY <1>2, <1>4, <1>5 DEF Message, MessageFits
<1> HIDE DEF m
<1>10. /\ Fits(p, g) /\ Follows(p, silent, g)
       /\ g.playback = silent.playback /\ g.buffer = silent.buffer
       /\ g.log = silent.log /\ g.music = silent.music /\ g.begun = silent.begun
  <2>1. Fits(p, g) /\ Follows(p, silent, g)
    BY <1>7, <1>9, PublishFits
  <2>2. /\ g.playback = silent.playback /\ g.buffer = silent.buffer
        /\ g.log = silent.log /\ g.music = silent.music /\ g.begun = silent.begun
    BY <1>4 DEF Publish, Handler
  <2>3. QED
    BY <2>1, <2>2
<1> HIDE DEF g
<1>11. Follows(p, h, g)
  BY <1>7, <1>8, <1>10, FollowsOn
<1>12. QED
  BY <1>2, <1>3, <1>4, <1>7, <1>8, <1>10, <1>11

(* Stopping the track for everyone (stop_current_playback). *)
LEMMA StopCurrentFits ==
  ASSUME NEW p \in Peer, NEW h, Fits(p, h)
  PROVE  Fits(p, StopCurrentPlayback(p, h)) /\ Follows(p, h, StopCurrentPlayback(p, h))
<1> DEFINE stopped == StopPlayer(h)
           idle == IdleState(p, h.clock)
           g == StopCurrentPlayback(p, h)
<1>1. Fits(p, stopped) /\ Follows(p, h, stopped) /\ stopped.clock = h.clock
  BY StopPlayerFits
<1>2. h.clock \in Nat
  BY DEF Fits, Handler
<1>3. /\ idle \in PlaybackState /\ idle.issued_at = h.clock /\ idle.track = NoTrack
      /\ ~idle.playing
  BY <1>2, IdleStateType
<1>4. g = Stamped(PublishPlayback([stopped EXCEPT !.playback = idle], idle))
  BY DEF StopCurrentPlayback
<1> HIDE DEF stopped, idle, g
<1>5. Fits(p, g) /\ Follows(p, stopped, g)
  BY <1>1, <1>3, <1>4, IssueFits
<1>6. QED
  BY <1>1, <1>5, FollowsOn DEF g

(* A pause keeps the session and its track (pause_playback_for_vote). *)
LEMMA PauseFits ==
  ASSUME NEW p \in Peer, NEW h, Fits(p, h), h.playback # NoPlayback
  PROVE  LET g == PausePlayback(p, h)
         IN  /\ Fits(p, g) /\ Follows(p, h, g)
             /\ g.playback # NoPlayback /\ g.playback.track = h.playback.track
             /\ g.buffer = h.buffer
<1> DEFINE state == Paused(h.playback, p, h.clock)
           g == PausePlayback(p, h)
<1>1. h.playback \in PlaybackState /\ h.clock \in Nat
  BY DEF Fits, Handler
<1>2. /\ state \in PlaybackState /\ state.issued_at = h.clock /\ ~state.playing
      /\ state.session = h.playback.session /\ state.track = h.playback.track
  BY <1>1 DEF Paused, PlaybackState
<1>3. state.track # NoTrack => Started(h.log, state.session, state.track)
  BY <1>2 DEF Fits, PeerFits, PlaybackFits
<1>4. g = Stamped(PublishPlayback([h EXCEPT !.playback = state], state))
  BY DEF PausePlayback
<1>5. state # NoPlayback
  BY <1>2, BufferAssumption
<1> HIDE DEF state, g
<1>6. Fits(p, g) /\ Follows(p, h, g) /\ g.playback = state /\ g.buffer = h.buffer
  BY <1>2, <1>3, <1>4, IssueFits
<1>7. QED
  BY <1>2, <1>5, <1>6 DEF g

(* Without an operation there is nothing to fit. *)
LEMMA ClearFits ==
  ASSUME NEW p \in Peer, NEW h, Fits(p, h), NEW b \in {h.buffer, NoOperation}
  PROVE  LET g == [h EXCEPT !.buffer = b]
         IN  /\ Fits(p, g) /\ Follows(p, h, g)
             /\ g.buffer = b /\ g.clock = h.clock /\ g.log = h.log
             /\ g.playback = h.playback /\ g.music = h.music /\ g.begun = h.begun
             /\ g.stream = h.stream
<1> DEFINE g == [h EXCEPT !.buffer = b]
<1>1. h \in Handler /\ b \in BufferOperation \cup {NoOperation}
  BY DEF Fits, Handler
<1>2. /\ g \in Handler /\ g.buffer = b /\ g.clock = h.clock /\ g.log = h.log
      /\ g.playback = h.playback /\ g.music = h.music /\ g.begun = h.begun
      /\ g.stream = h.stream /\ g.events = h.events /\ g.sent = h.sent
  BY <1>1 DEF Handler
<1> HIDE DEF g
<1>3. b = h.buffer \/ (OperationFits(b, h.log) /\ LedFits(p, b, h.log, h.clock))
  BY DEF OperationFits, LedFits, Leads
<1>4. Fits(p, g) /\ Follows(p, h, g)
  BY <1>2, <1>3, FitsNow
<1>5. QED
  BY <1>2, <1>4 DEF g

(* p's own operation gives way to another's (abandon_local_buffer_operation). *)
LEMMA AbandonLocalFits ==
  ASSUME NEW p \in Peer, NEW h, Fits(p, h)
  PROVE  LET g == AbandonLocalOperation(p, h)
         IN  /\ Fits(p, g) /\ Follows(p, h, g)
             /\ g.playback = h.playback /\ g.clock = h.clock /\ g.music = h.music
<1>1. h \in Handler
  BY DEF Fits
<1>2. CASE Leads(p, h.buffer)
  <2>1. AbandonLocalOperation(p, h) = Cancelled(h)
    BY <1>2 DEF AbandonLocalOperation, Cancelled
  <2>2. QED
    BY <1>2, <2>1, CancelledFits
<1>3. CASE ~Leads(p, h.buffer)
  <2>1. AbandonLocalOperation(p, h) = h
    BY <1>3 DEF AbandonLocalOperation
  <2>2. QED
    BY <1>1, <2>1, FollowsItself
<1>4. QED
  BY <1>2, <1>3

(* The leader skips an operation it cannot prepare, a follower answers failed
   (handle_buffer_prepare_failure). *)
LEMMA PrepareFailureFits ==
  ASSUME NEW p \in Peer, NEW h, Fits(p, h), h.buffer # NoOperation
  PROVE  Fits(p, HandlePrepareFailure(p, h)) /\ Follows(p, h, HandlePrepareFailure(p, h))
<1> DEFINE sessions == h.failed \cup {h.buffer.session}
           stopped == [StopPlayer(h) EXCEPT !.failed = sessions]
           g == HandlePrepareFailure(p, h)
<1>1. h \in Handler
  BY DEF Fits
<1>2. sessions \in SUBSET Id
  BY <1>1 DEF Handler, BufferOperation
<1>3. StopPlayer(h).failed = h.failed
  BY <1>1 DEF StopPlayer, Handler
<1>4. g = IF Leads(p, h.buffer) THEN SkipOperation(stopped)
          ELSE [Report(p, stopped, "Failed") EXCEPT !.buffer = NoOperation]
  BY <1>3 DEF HandlePrepareFailure
<1> HIDE DEF sessions
<1>5. Fits(p, stopped) /\ Follows(p, h, stopped) /\ stopped.buffer = h.buffer
  BY <1>2, StopPlayerFits
<1> HIDE DEF stopped, g
<1>6. CASE Leads(p, h.buffer)
  <2>1. Fits(p, g) /\ Follows(p, stopped, g)
    BY <1>4, <1>5, <1>6, SkipOperationFits
  <2>2. QED
    BY <1>5, <2>1, FollowsOn DEF g
<1>7. CASE ~Leads(p, h.buffer)
  <2> DEFINE answered == Report(p, stopped, "Failed")
  <2>1. Fits(p, answered) /\ Follows(p, stopped, answered)
    <3>1. "Failed" \in Status /\ "Failed" # "Ready"
      BY DEF Status
    <3>2. QED
      BY <1>5, <3>1, ReportFits
  <2>2. g = [answered EXCEPT !.buffer = NoOperation]
    BY <1>4, <1>7
  <2> HIDE DEF answered
  <2>3. Fits(p, g) /\ Follows(p, answered, g)
    BY <2>1, <2>2, ClearFits
  <2>4. Follows(p, stopped, g)
    BY <1>5, <2>1, <2>3, FollowsOn
  <2>5. QED
    BY <1>5, <2>3, <2>4, FollowsOn DEF g
<1>8. QED
  BY <1>6, <1>7
-----------------------------------------------------------------------------
(* The tick *)

(* The player failed at what plays (AudioPlayerEvent::Failed). *)
LEMMA StreamFailureFits ==
  ASSUME Typed, NEW p \in Peer, NEW h, Fits(p, h), NEW e \in Event
  PROVE  Fits(p, HandleStreamFailure(p, h, e)) /\ Follows(p, h, HandleStreamFailure(p, h, e))
<1> DEFINE sessions == h.failed \cup {e.session}
           stopped == [StopPlayer(h) EXCEPT !.failed = sessions]
           idle == StopCurrentPlayback(p, stopped)
           next == StartNextIfIdle(p, idle)
           g == HandleStreamFailure(p, h, e)
<1>1. h \in Handler
  BY DEF Fits
<1>2. sessions \in SUBSET Id
  BY <1>1 DEF Handler, Event
<1>3. StopPlayer(h).failed = h.failed
  BY <1>1 DEF StopPlayer, Handler
<1>4. g \in {h, stopped, next}
  BY <1>3 DEF HandleStreamFailure
<1> HIDE DEF sessions
<1>5. Fits(p, stopped) /\ Follows(p, h, stopped)
  BY <1>2, StopPlayerFits
<1> HIDE DEF stopped, g
<1>6. Fits(p, idle) /\ Follows(p, stopped, idle)
  BY <1>5, StopCurrentFits
<1> HIDE DEF idle
<1>7. Fits(p, next) /\ Follows(p, idle, next)
  BY <1>6, StartNextFits
<1> HIDE DEF next
<1>8. Follows(p, h, idle)
  BY <1>5, <1>6, FollowsOn
<1>9. Follows(p, h, next)
  BY <1>6, <1>7, <1>8, FollowsOn
<1>10. Follows(p, h, h)
  BY <1>1, FollowsItself
<1>11. QED
  BY <1>4, <1>5, <1>7, <1>9, <1>10 DEF g

(* A waiting event is for the active operation or stale; a prepared one that is
   for it makes p ready (handle_audio_player_events). *)
LEMMA PlayerEventFits ==
  ASSUME Typed, NEW p \in Peer, NEW h, Fits(p, h)
  PROVE  Fits(p, HandlePlayerEvent(p, h)) /\ Follows(p, h, HandlePlayerEvent(p, h))
<1> DEFINE e == Head(h.events)
           g == [h EXCEPT !.events = Tail(@)]
           failure == HandleStreamFailure(p, g, e)
           reported == Report(p, g, "Ready")
           resolved == ResolveBufferOperation(p, reported)
           skipped == HandlePrepareFailure(p, g)
           k == HandlePlayerEvent(p, h)
<1>1. h \in Handler /\ h.events \in Seq(Event)
  BY DEF Fits, Handler
<1>2. CASE h.events = <<>>
  <2>1. k = h
    BY <1>2 DEF HandlePlayerEvent
  <2> HIDE DEF k
  <2>2. QED
    BY <1>1, <2>1, FollowsItself DEF k
<1>3. CASE h.events # <<>>
  <2>1. /\ e \in Event /\ Tail(h.events) \in Seq(Event)
        /\ e = h.events[1] /\ 1 \in DOMAIN h.events
        /\ \A i \in DOMAIN Tail(h.events) :
             i + 1 \in DOMAIN h.events /\ Tail(h.events)[i] = h.events[i + 1]
    BY <1>1, <1>3
  <2>2. /\ g \in Handler /\ g.log = h.log /\ g.clock = h.clock /\ g.buffer = h.buffer
        /\ g.playback = h.playback /\ g.music = h.music /\ g.sent = h.sent
        /\ g.events = Tail(h.events)
    BY <1>1, <2>1 DEF Handler
  <2>3. k \in {g, failure, skipped} \/
          (/\ k = resolved /\ e.kind = "Prepared" /\ e.operation # NoOperation
           /\ IsFor(g.buffer, e.operation, e.session))
    BY <1>3, <2>1 DEF HandlePlayerEvent, Event
  <2>4. k = skipped /\ k # g /\ k # failure => g.buffer # NoOperation
    BY <1>3 DEF HandlePlayerEvent, IsFor
  <2> HIDE DEF g, e, k
  <2>5. EventsFit(p, h.events, h.log)
    BY DEF Fits, PeerFits
  <2>6. EventsFit(p, g.events, h.log)
    BY <2>1, <2>2, <2>5 DEF EventsFit
  <2>7. Fits(p, g) /\ Follows(p, h, g)
    BY <2>2, <2>6, FitsNow
  <2>8. CASE k = g
    BY <2>7, <2>8 DEF k
  <2>9. CASE k = failure
    <3>1. Fits(p, failure) /\ Follows(p, g, failure)
      BY <2>1, <2>7, StreamFailureFits
    <3> HIDE DEF failure
    <3>2. QED
      BY <2>7, <2>9, <3>1, FollowsOn DEF k
  <2>10. CASE k = skipped /\ k # g /\ k # failure
    <3>1. Fits(p, skipped) /\ Follows(p, g, skipped)
      BY <2>4, <2>7, <2>10, PrepareFailureFits
    <3> HIDE DEF skipped
    <3>2. QED
      BY <2>7, <2>10, <3>1, FollowsOn DEF k
  <2>11. CASE /\ k = resolved /\ e.kind = "Prepared" /\ e.operation # NoOperation
              /\ IsFor(g.buffer, e.operation, e.session)
    <3>1. g.buffer # NoOperation /\ <<g.buffer.operation, p>> \in g.log.prepared
      BY <2>1, <2>2, <2>5, <2>11 DEF EventsFit, IsFor
    <3>2. Fits(p, reported) /\ Follows(p, g, reported)
      <4>1. "Ready" \in Status
        BY DEF Status
      <4>2. QED
        BY <2>7, <3>1, <4>1, ReportFits
    <3> HIDE DEF reported
    <3>3. Fits(p, resolved) /\ Follows(p, reported, resolved)
      BY <3>2, ResolveFits
    <3> HIDE DEF resolved
    <3>4. Follows(p, h, reported)
      BY <2>7, <3>2, FollowsOn
    <3>5. QED
      BY <2>11, <3>2, <3>3, <3>4, FollowsOn DEF k
  <2>12. QED
    BY <2>3, <2>8, <2>9, <2>10, <2>11
<1>4. QED
  BY <1>2, <1>3

LEMMA PlayerEventsFit ==
  ASSUME Typed, NEW p \in Peer, NEW h, Fits(p, h)
  PROVE  Fits(p, HandlePlayerEvents(p, h)) /\ Follows(p, h, HandlePlayerEvents(p, h))
<1> DEFINE g == HandlePlayerEvent(p, h)
           k == HandlePlayerEvent(p, g)
<1>1. Fits(p, g) /\ Follows(p, h, g)
  BY PlayerEventFits
<1> HIDE DEF g
<1>2. Fits(p, k) /\ Follows(p, g, k)
  BY <1>1, PlayerEventFits
<1>3. HandlePlayerEvents(p, h) = k
  BY DEF HandlePlayerEvents, g
<1> HIDE DEF k
<1>4. QED
  BY <1>1, <1>2, <1>3, FollowsOn

(* The leader that lost the healthy majority pauses and resumes
   (maybe_pause_for_buffer_health_loss). *)
LEMMA LoseBufferHealthFits ==
  ASSUME Typed, NEW p \in Peer, NEW h, Fits(p, h), NEW target
  PROVE  /\ Fits(p, LoseBufferHealth(p, h, target))
         /\ Follows(p, h, LoseBufferHealth(p, h, target))
<1> DEFINE paused == PausePlayback(p, h)
           track == h.playback.track
           begun == BeginBufferOperation(p, paused, "Resume", track, target)
           g == LoseBufferHealth(p, h, target)
<1>1. h \in Handler /\ h.playback \in PlaybackState \cup {NoPlayback}
  BY DEF Fits, Handler
<1>2. g = h \/ (g = begun /\ HasTrack(h.playback))
  BY DEF LoseBufferHealth
<1> HIDE DEF g
<1>3. CASE HasTrack(h.playback) /\ g = begun
  <2>1. h.playback # NoPlayback /\ track \in Item
    BY <1>1, <1>3 DEF HasTrack, PlaybackState
  <2>2. Fits(p, paused) /\ Follows(p, h, paused) /\ paused.playback # NoPlayback
    BY <2>1, PauseFits
  <2> HIDE DEF paused, track
  <2>3. Fits(p, begun) /\ Follows(p, paused, begun)
    BY <2>1, <2>2, BeginFits DEF Kind
  <2> HIDE DEF begun
  <2>4. QED
    BY <1>3, <2>2, <2>3, FollowsOn DEF g
<1>4. CASE g = h
  BY <1>1, <1>4, FollowsItself DEF g
<1>5. QED
  BY <1>2, <1>3, <1>4

(* The track has played to its end (finished_playback_role). *)
LEMMA FinishFits ==
  ASSUME Typed, NEW p \in Peer, NEW h, Fits(p, h)
  PROVE  Fits(p, FinishPlayback(p, h)) /\ Follows(p, h, FinishPlayback(p, h))
<1> DEFINE idle == StopCurrentPlayback(p, h)
           next == StartNextOrDie(p, idle)
           stopped == StopPlayer(h)
           state == IdleState(p, h.clock)
           silent == Stamped([stopped EXCEPT !.playback = state])
           g == FinishPlayback(p, h)
<1>1. h \in Handler /\ h.clock \in Nat
  BY DEF Fits, Handler
<1>2. g \in {h, next, silent}
  BY DEF FinishPlayback
<1>3. Fits(p, idle) /\ Follows(p, h, idle)
  BY StopCurrentFits
<1> HIDE DEF idle, g
<1>4. Fits(p, next) /\ Follows(p, idle, next)
  BY <1>3, StartNextFits
<1> HIDE DEF next
<1>5. Follows(p, h, next)
  BY <1>3, <1>4, FollowsOn
<1>6. Fits(p, stopped) /\ Follows(p, h, stopped) /\ stopped.clock = h.clock
  BY StopPlayerFits
<1>7. /\ state \in PlaybackState /\ state.issued_at = h.clock /\ state.track = NoTrack
      /\ ~state.playing
  BY <1>1, IdleStateType
<1> HIDE DEF stopped, state
<1>8. Fits(p, silent) /\ Follows(p, stopped, silent)
  BY <1>6, <1>7, IssueFits
<1> HIDE DEF silent
<1>9. Follows(p, h, silent)
  BY <1>6, <1>8, FollowsOn
<1>10. Follows(p, h, h)
  BY <1>1, FollowsItself
<1>11. QED
  BY <1>2, <1>4, <1>5, <1>8, <1>9, <1>10 DEF g
-----------------------------------------------------------------------------
(* Messages *)

(* A playback state of another peer that fits, and is newer than p's own, is
   applied; it takes the item that its session started (WireMessage::PlaybackState). *)
LEMMA PlaybackStateFits ==
  ASSUME NEW p \in Peer, NEW h, Fits(p, h), NEW state \in PlaybackState,
         PlaybackFits(state, h.log, h.clock), NEW target
  PROVE  /\ Fits(p, HandlePlaybackState(p, h, state, target))
         /\ Follows(p, h, HandlePlaybackState(p, h, state, target))
<1> DEFINE g == IF state.track = NoTrack THEN [h EXCEPT !.failed = {}] ELSE h
           yields == AbandonLocalOperation(p, g)
           applied == [yields EXCEPT !.playback = state]
           m == RemoveStartedItem(yields.music, state)
           started == [applied EXCEPT !.music = m]
           loaded == /\ started.stream # NoOperation
                     /\ started.stream.session = state.session
           b == ClearMatchingPlaybackState(yields.buffer, state)
           cleared == [started EXCEPT !.buffer = b]
           idle == StopPlayer([applied EXCEPT !.buffer = b])
           sessions == started.failed \cup {state.session}
           fails == [StopPlayer(started) EXCEPT !.failed = sessions]
           prepares == PrepareStream(p, cleared, NoOperation, state.session,
                                     state.track, target)
           k == HandlePlaybackState(p, h, state, target)
<1>1. h \in Handler
  BY DEF Fits
<1>2. Fits(p, g) /\ Follows(p, h, g) /\ g.log = h.log /\ g.clock = h.clock
  <2> DEFINE forgets == [h EXCEPT !.failed = {}]
  <2>1. /\ forgets \in Handler /\ forgets.log = h.log /\ forgets.clock = h.clock
        /\ forgets.buffer = h.buffer /\ forgets.playback = h.playback
        /\ forgets.music = h.music /\ forgets.events = h.events
        /\ forgets.sent = h.sent
    BY <1>1 DEF Handler
  <2> HIDE DEF forgets
  <2>2. Fits(p, forgets) /\ Follows(p, h, forgets)
    BY <2>1, FitsNow
  <2>3. Follows(p, h, h)
    BY <1>1, FollowsItself
  <2>4. g \in {h, forgets}
    BY DEF forgets
  <2> HIDE DEF g
  <2>5. QED
    BY <2>1, <2>2, <2>3, <2>4
<1> HIDE DEF g
<1>3. /\ Fits(p, yields) /\ Follows(p, g, yields) /\ yields.playback = g.playback
      /\ yields.clock = g.clock
  BY <1>2, AbandonLocalFits
<1> HIDE DEF yields
<1>4. Follows(p, h, yields)
  BY <1>2, <1>3, FollowsOn
<1>5. yields \in Handler /\ yields.clock \in Nat /\ h.clock \in Nat /\ yields.music \in Music
  BY <1>1, <1>3 DEF Fits, Handler
<1>6. PlaybackFits(state, yields.log, yields.clock)
  <2>1. Extends(h.log, h.clock, yields.log, yields.clock)
    BY <1>4 DEF Follows
  <2>2. state.issued_at \in Nat
    BY DEF PlaybackState
  <2>3. QED
    BY <1>5, <2>1, <2>2, HistoryGrows
<1>7. CASE ~ShouldApplyPlaybackState(g.playback, state)
           \/ (state.track # NoTrack /\ state.session \in g.failed)
  <2>1. k = g
    BY <1>7 DEF HandlePlaybackState, g
  <2> HIDE DEF k
  <2>2. QED
    BY <1>2, <2>1 DEF k
<1>8. CASE ShouldApplyPlaybackState(g.playback, state)
  <2>1. NotOlder(yields.playback, state)
    <3>1. g.playback # NoPlayback => g.playback.issued_at \in Nat
      BY <1>2 DEF Fits, Handler, PlaybackState
    <3>2. state # NoPlayback /\ state.issued_at \in Nat
      BY BufferAssumption DEF PlaybackState
    <3>3. QED
      BY <1>3, <1>8, <3>1, <3>2 DEF ShouldApplyPlaybackState, NotOlder
  <2>2. /\ applied \in Handler /\ applied.log = yields.log
        /\ applied.clock = yields.clock /\ applied.buffer = yields.buffer
        /\ applied.playback = state /\ applied.music = yields.music
        /\ applied.events = yields.events /\ applied.sent = yields.sent
        /\ applied.stream = yields.stream
    BY <1>5 DEF Handler
  <2> HIDE DEF applied
  <2>3. Fits(p, applied) /\ Follows(p, yields, applied)
    BY <1>3, <1>6, <2>1, <2>2, FitsNow
  <2>4. Follows(p, h, applied)
    BY <1>3, <1>4, <2>3, FollowsOn
  <2>5. b \in {yields.buffer, NoOperation}
    BY DEF ClearMatchingPlaybackState
  <2> HIDE DEF b
  <2>6. CASE state.track = NoTrack
    <3> DEFINE emptied == [applied EXCEPT !.buffer = b]
    <3>1. Fits(p, emptied) /\ Follows(p, applied, emptied)
      BY <2>2, <2>3, <2>5, ClearFits
    <3>2. k \in {g, idle}
      BY <2>2, <2>6 DEF HandlePlaybackState, applied, yields, g, b
    <3>3. idle = StopPlayer(emptied)
      OBVIOUS
    <3> HIDE DEF emptied, k, idle
    <3>4. Fits(p, idle) /\ Follows(p, emptied, idle)
      BY <3>1, <3>3, StopPlayerFits
    <3>5. Follows(p, h, emptied)
      BY <2>3, <2>4, <3>1, FollowsOn
    <3>6. Follows(p, h, idle)
      BY <3>1, <3>4, <3>5, FollowsOn
    <3>7. QED
      BY <1>2, <3>2, <3>4, <3>6 DEF k
  <2>7. CASE state.track # NoTrack
    <3>1. /\ m \in Music
          /\ \A x : InQueue(yields.music.queue, x) /\ ~SameRequest(x, state.track)
                      => InQueue(m.queue, x)
      BY <1>5, TakesItsRequest
    <3>2. QueueFits(m.queue, yields.log)
      <4>1. QueueFits(yields.music.queue, yields.log)
        BY <1>3 DEF Fits, PeerFits
      <4>2. \A x : SameRequest(x, state.track) => Gone(yields.log, x)
        BY <1>6, <2>7, BufferAssumption DEF PlaybackFits, Started, Gone
      <4> HIDE DEF m
      <4>3. QED
        BY <3>1, <4>1, <4>2 DEF QueueFits
    <3> HIDE DEF m
    <3>3. /\ started \in Handler /\ started.log = applied.log
          /\ started.clock = applied.clock /\ started.buffer = applied.buffer
          /\ started.playback = applied.playback /\ started.music = m
          /\ started.events = applied.events /\ started.sent = applied.sent
          /\ started.stream = applied.stream
      BY <2>2, <3>1 DEF Handler
    <3>4. k \in {g, cleared, fails} \/
            (k = prepares /\ ~(loaded /\ target = "Buffered"))
      <4>1. applied.music = yields.music /\ started.buffer = yields.buffer
        BY <2>2, <3>3
      <4>2. StopPlayer(started).failed = started.failed
        BY <3>3 DEF StopPlayer, Handler
      <4>3. QED
        BY <2>7, <4>1, <4>2 DEF HandlePlaybackState, applied, yields, g, b, m
    <3>5. loaded <=> started.stream # NoOperation /\ started.stream.session = state.session
      OBVIOUS
    <3> HIDE DEF started, k, loaded
    <3>6. Fits(p, started) /\ Follows(p, applied, started)
      BY <2>2, <2>3, <3>2, <3>3, FitsNow
    <3>7. Follows(p, h, started)
      BY <2>3, <2>4, <3>6, FollowsOn
    <3>8. Fits(p, cleared) /\ Follows(p, started, cleared) /\ cleared.stream = started.stream
      <4>1. b \in {started.buffer, NoOperation}
        BY <2>2, <2>5, <3>3
      <4>2. QED
        BY <3>6, <4>1, ClearFits
    <3> HIDE DEF cleared
    <3>9. Follows(p, h, cleared)
      BY <3>6, <3>7, <3>8, FollowsOn
    <3>10. CASE k = g
      BY <1>2, <3>10 DEF k
    <3>11. CASE k = cleared
      BY <3>8, <3>9, <3>11 DEF k
    <3>12. CASE k = fails
      <4>1. sessions \in SUBSET Id
        BY <3>3 DEF Handler, PlaybackState
      <4> HIDE DEF sessions
      <4>2. Fits(p, fails) /\ Follows(p, started, fails)
        BY <3>6, <4>1, StopPlayerFits
      <4> HIDE DEF fails
      <4>3. QED
        BY <3>6, <3>7, <3>12, <4>2, FollowsOn DEF k
    <3>13. CASE k = prepares /\ ~(loaded /\ target = "Buffered")
      <4>1. state.session \in Id /\ state.track \in Item
        BY <2>7 DEF PlaybackState
      <4>2. target = "Buffered" =>
              cleared.stream = NoOperation \/ cleared.stream.session # state.session
        BY <3>5, <3>8, <3>13
      <4>3. Fits(p, prepares) /\ Follows(p, cleared, prepares)
        BY <3>8, <4>1, <4>2, PrepareStreamFits
      <4> HIDE DEF prepares
      <4>4. QED
        BY <3>8, <3>9, <3>13, <4>3, FollowsOn DEF k
    <3>14. QED
      BY <3>4, <3>10, <3>11, <3>12, <3>13
  <2>8. QED
    BY <2>6, <2>7
<1>9. QED
  BY <1>7, <1>8
-----------------------------------------------------------------------------
(* p takes up the other's operation, of which it knows no answer unless it has it
   already, and which it cannot lead (receive_remote_operation). *)
LEMMA TakenFits ==
  ASSUME NEW p \in Peer, NEW h, Fits(p, h), NEW m \in Message,
         m.type = "BufferPrepare", m.operation[1] # p
  PROVE  LET g == [h EXCEPT !.buffer = ReceiveRemoteOperation(@, m)]
         IN  /\ Fits(p, g) /\ Follows(p, h, g) /\ g.sent = h.sent /\ g.clock = h.clock
             /\ g.buffer # NoOperation /\ g.buffer.operation = m.operation
             /\ h.buffer = g.buffer \/ \A q \in Peer : g.buffer.statuses[q] = "None"
<1> DEFINE op == ReceiveRemoteOperation(h.buffer, m)
           new == StartOperation(m.operation, m.session, m.track, m.kind, m.expected)
           g == [h EXCEPT !.buffer = op]
<1>1. h \in Handler /\ h.buffer \in BufferOperation \cup {NoOperation}
  BY DEF Fits, Handler
<1>2. /\ m.operation \in Id /\ m.session \in Id /\ m.track \in Item /\ m.kind \in Kind
      /\ m.expected \in SUBSET Peer
  BY DEF Message
<1>3. /\ new \in BufferOperation /\ new.operation = m.operation
      /\ \A q \in Peer : new.statuses[q] = "None"
  BY <1>2 DEF StartOperation, BufferOperation, Status
<1>4. op = new \/ (/\ op = h.buffer /\ op # NoOperation
                   /\ op.operation = m.operation)
  BY DEF ReceiveRemoteOperation
<1> HIDE DEF new, op
<1>5. OperationFits(new, h.log)
  BY <1>3 DEF OperationFits
<1>6. OperationFits(h.buffer, h.log)
  BY DEF Fits, PeerFits
<1>7. /\ op \in BufferOperation /\ op.operation = m.operation
      /\ OperationFits(op, h.log)
      /\ h.buffer = op \/ \A q \in Peer : op.statuses[q] = "None"
  BY <1>1, <1>3, <1>4, <1>5, <1>6
<1>8. op # NoOperation /\ LedFits(p, op, h.log, h.clock)
  BY <1>7, BufferAssumption DEF LedFits, Leads, LeaderOf
<1>9. /\ g \in Handler /\ g.buffer = op /\ g.log = h.log
      /\ g.clock = h.clock /\ g.playback = h.playback
      /\ g.music = h.music /\ g.events = h.events /\ g.sent = h.sent
  BY <1>1, <1>7 DEF Handler
<1> HIDE DEF g
<1>10. Fits(p, g) /\ Follows(p, h, g)
  BY <1>7, <1>8, <1>9, FitsNow
<1>11. QED
  BY <1>7, <1>8, <1>9, <1>10 DEF g, op

(* p drops its own operation for the other's and answers with its first status, or
   with what it can say at once. *)
LEMMA JoinFits ==
  ASSUME NEW p \in Peer, NEW h, Fits(p, h), NEW m \in Message,
         m.type = "BufferPrepare", m.operation[1] # p, NEW target
  PROVE  Fits(p, JoinOperation(p, h, m, target)) /\ Follows(p, h, JoinOperation(p, h, m, target))
<1> DEFINE yields == AbandonLocalOperation(p, h)
           taken == [yields EXCEPT !.buffer = ReceiveRemoteOperation(@, m)]
           joined == Report(p, taken, "Buffering")
           has == HasPrepared(p, joined, m.operation)
           ready == Report(p, has, "Ready")
           failed == Report(p, joined, "Failed")
           prepares == PrepareStream(p, joined, m.operation, m.session, m.track, target)
           g == JoinOperation(p, h, m, target)
<1>1. g \in {ready, failed, prepares}
  BY DEF JoinOperation
<1> HIDE DEF g
<1>2. Fits(p, yields) /\ Follows(p, h, yields)
  BY AbandonLocalFits
<1> HIDE DEF yields
<1>3. m.operation \in Id /\ m.session \in Id /\ m.track \in Item
  BY DEF Message
<1>4. m.operation # NoOperation
  BY <1>3, BufferAssumption
<1>5. /\ Fits(p, taken) /\ Follows(p, yields, taken)
      /\ taken.buffer # NoOperation /\ taken.buffer.operation = m.operation
  BY <1>2, TakenFits
<1> HIDE DEF taken
<1>6. Follows(p, h, taken)
  BY <1>2, <1>5, FollowsOn
<1>7. /\ Fits(p, joined) /\ Follows(p, taken, joined)
      /\ joined.buffer # NoOperation /\ joined.buffer.operation = m.operation
  <2>1. "Buffering" \in Status /\ "Buffering" # "Ready"
    BY DEF Status
  <2>2. QED
    BY <1>5, <2>1, ReportFits
<1> HIDE DEF joined
<1>8. Follows(p, h, joined)
  BY <1>5, <1>6, <1>7, FollowsOn
<1>9. CASE g = ready
  <2>1. /\ Fits(p, has) /\ Follows(p, joined, has) /\ has.buffer = joined.buffer
        /\ <<m.operation, p>> \in has.log.prepared
    BY <1>3, <1>7, HasPreparedFits
  <2> HIDE DEF has
  <2>2. Fits(p, ready) /\ Follows(p, has, ready)
    <3>1. "Ready" \in Status
      BY DEF Status
    <3>2. QED
      BY <1>7, <2>1, <3>1, ReportFits
  <2> HIDE DEF ready
  <2>3. Follows(p, h, has)
    BY <1>7, <1>8, <2>1, FollowsOn
  <2>4. QED
    BY <1>9, <2>1, <2>2, <2>3, FollowsOn DEF g
<1>10. CASE g = failed
  <2>1. "Failed" \in Status /\ "Failed" # "Ready"
    BY DEF Status
  <2>2. Fits(p, failed) /\ Follows(p, joined, failed)
    BY <1>7, <2>1, ReportFits
  <2> HIDE DEF failed
  <2>3. QED
    BY <1>7, <1>8, <1>10, <2>2, FollowsOn DEF g
<1>11. CASE g = prepares
  <2>1. Fits(p, prepares) /\ Follows(p, joined, prepares)
    BY <1>3, <1>4, <1>7, PrepareStreamFits
  <2> HIDE DEF prepares
  <2>2. QED
    BY <1>7, <1>8, <1>11, <2>1, FollowsOn DEF g
<1>12. QED
  BY <1>1, <1>9, <1>10, <1>11

(* A prepare is answered with what p knows, or joined
   (WireMessage::PlaybackBufferPrepare). *)
LEMMA PrepareFits ==
  ASSUME NEW p \in Peer, NEW h, Fits(p, h), NEW m \in Message,
         m.type = "BufferPrepare", m.operation[1] # p, NEW target
  PROVE  Fits(p, HandlePrepare(p, h, m, target)) /\ Follows(p, h, HandlePrepare(p, h, m, target))
<1> DEFINE known == StatusFor(h.buffer, m.operation, m.session, p)
           answered == PublishStatus(p, h, m.operation, m.session, known)
           failed == PublishStatus(p, h, m.operation, m.session, "Failed")
           joins == JoinOperation(p, h, m, target)
           g == HandlePrepare(p, h, m, target)
<1>1. h \in Handler /\ h.buffer \in BufferOperation \cup {NoOperation}
  BY DEF Fits, Handler
<1>2. m.operation \in Id /\ m.session \in Id
  BY DEF Message
<1>3. g \in {h, failed, joins} \/ (g = answered /\ known # "None")
  BY DEF HandlePrepare
<1>4. known # "None" =>
        /\ known \in Status
        /\ known = "Ready" => <<m.operation, p>> \in h.log.prepared
  <2>1. OperationFits(h.buffer, h.log)
    BY DEF Fits, PeerFits
  <2>2. CASE IsFor(h.buffer, m.operation, m.session)
    <3>1. /\ known = h.buffer.statuses[p] /\ h.buffer # NoOperation
          /\ h.buffer.operation = m.operation
      BY <2>2 DEF StatusFor, IsFor
    <3>2. known \in Status \cup {"None"}
      BY <1>1, <3>1 DEF BufferOperation
    <3>3. QED
      BY <2>1, <3>1, <3>2 DEF OperationFits
  <2>3. CASE ~IsFor(h.buffer, m.operation, m.session)
    BY <2>3 DEF StatusFor
  <2>4. QED
    BY <2>2, <2>3
<1> HIDE DEF known, g
<1>5. CASE g = h
  BY <1>1, <1>5, FollowsItself DEF g
<1>6. CASE g = answered /\ known # "None"
  <2>1. Fits(p, answered) /\ Follows(p, h, answered)
    BY <1>2, <1>4, <1>6, PublishStatusFits
  <2> HIDE DEF answered
  <2>2. QED
    BY <1>6, <2>1 DEF g
<1>7. CASE g = failed
  <2>1. "Failed" \in Status /\ "Failed" # "Ready"
    BY DEF Status
  <2>2. Fits(p, failed) /\ Follows(p, h, failed)
    BY <1>2, <2>1, PublishStatusFits
  <2> HIDE DEF failed
  <2>3. QED
    BY <1>7, <2>2 DEF g
<1>8. CASE g = joins
  <2>1. Fits(p, joins) /\ Follows(p, h, joins)
    BY JoinFits
  <2> HIDE DEF joins
  <2>2. QED
    BY <1>8, <2>1 DEF g
<1>9. QED
  BY <1>3, <1>5, <1>6, <1>7, <1>8

(* A tally with one more answer, or one peer less, is a tally that fits. *)
LEMMA TallyFits ==
  ASSUME NEW p \in Peer, NEW h, Fits(p, h),
         NEW b \in BufferOperation \cup {NoOperation}, OperationFits(b, h.log),
         b # NoOperation => h.buffer # NoOperation /\ b.operation = h.buffer.operation
  PROVE  LET g == [h EXCEPT !.buffer = b]
         IN  /\ Fits(p, g) /\ Follows(p, h, g)
             /\ Fits(p, ResolveBufferOperation(p, g))
             /\ Follows(p, h, ResolveBufferOperation(p, g))
<1> DEFINE g == [h EXCEPT !.buffer = b]
           k == ResolveBufferOperation(p, g)
<1>1. h \in Handler /\ LedFits(p, h.buffer, h.log, h.clock)
  BY DEF Fits, PeerFits
<1>2. /\ g \in Handler /\ g.buffer = b /\ g.log = h.log /\ g.clock = h.clock
      /\ g.playback = h.playback /\ g.music = h.music /\ g.events = h.events
      /\ g.sent = h.sent
  BY <1>1 DEF Handler
<1> HIDE DEF g
<1>3. LedFits(p, b, h.log, h.clock)
  BY <1>1, LedStaysFit
<1>4. Fits(p, g) /\ Follows(p, h, g)
  BY <1>2, <1>3, FitsNow
<1>5. Fits(p, k) /\ Follows(p, g, k)
  BY <1>4, ResolveFits
<1> HIDE DEF k
<1>6. Follows(p, h, k)
  BY <1>4, <1>5, FollowsOn
<1>7. QED
  BY <1>4, <1>5, <1>6 DEF g, k

(* A status of another peer fits the tally when its message fits
   (WireMessage::PlaybackBufferStatus). *)
LEMMA StatusFits ==
  ASSUME NEW p \in Peer, NEW h, Fits(p, h), NEW m \in Message,
         m.type = "BufferStatus", MessageFits(m, h.log, h.clock)
  PROVE  LET marked == [h EXCEPT !.buffer = MarkStatus(@, m.operation, m.session, m.peer,
                                                       m.status)]
             g == ResolveBufferOperation(p, marked)
         IN  Fits(p, g) /\ Follows(p, h, g)
<1> DEFINE b == MarkStatus(h.buffer, m.operation, m.session, m.peer, m.status)
<1>1. m.peer \in Peer /\ m.status \in Status
  BY DEF Message
<1>2. m.status = "Ready" => <<m.operation, m.peer>> \in h.log.prepared
  BY DEF MessageFits
<1>3. /\ h.buffer \in BufferOperation \cup {NoOperation}
      /\ OperationFits(h.buffer, h.log)
  BY DEF Fits, Handler, PeerFits
<1>4. CASE IsFor(h.buffer, m.operation, m.session)
  <2> DEFINE operation == m.operation
             session == m.session
             q == m.peer
             status == m.status
  <2>1. status = "Ready" => <<operation, q>> \in h.log.prepared
    BY <1>2
  <2>2. q \in Peer /\ status \in Status
    BY <1>1
  <2>3. b = MarkStatus(h.buffer, operation, session, q, status)
    OBVIOUS
  <2> HIDE DEF operation, session, q, status, b
  <2>4. /\ b \in BufferOperation \cup {NoOperation} /\ OperationFits(b, h.log)
        /\ b # NoOperation => h.buffer # NoOperation /\ b.operation = h.buffer.operation
    BY <1>3, <2>1, <2>2, <2>3, MarkStatusFits
  <2>5. QED
    BY <2>4, TallyFits DEF b
<1>5. CASE ~IsFor(h.buffer, m.operation, m.session)
  <2>1. b = h.buffer
    BY <1>5 DEF MarkStatus
  <2> HIDE DEF b
  <2>2. /\ b \in BufferOperation \cup {NoOperation} /\ OperationFits(b, h.log)
        /\ b # NoOperation => h.buffer # NoOperation /\ b.operation = h.buffer.operation
    BY <1>3, <2>1
  <2>3. QED
    BY <2>2, TallyFits DEF b
<1>6. QED
  BY <1>4, <1>5

(* A peer that is no longer expected leaves with its answer
   (remove_expected_peer). *)
LEMMA LeftFits ==
  ASSUME NEW p \in Peer, NEW h, Fits(p, h), NEW q \in Peer
  PROVE  LET left == [h EXCEPT !.buffer = RemoveExpectedPeer(@, q)]
             g == ResolveBufferOperation(p, left)
         IN  Fits(p, g) /\ Follows(p, h, g)
<1> DEFINE b == RemoveExpectedPeer(h.buffer, q)
<1>1. /\ h.buffer \in BufferOperation \cup {NoOperation}
      /\ OperationFits(h.buffer, h.log)
  BY DEF Fits, Handler, PeerFits
<1>2. CASE h.buffer = NoOperation
  <2>1. b = NoOperation
    BY <1>2 DEF RemoveExpectedPeer
  <2> HIDE DEF b
  <2>2. b \in BufferOperation \cup {NoOperation} /\ OperationFits(b, h.log)
    BY <2>1 DEF OperationFits
  <2>3. QED
    BY <2>1, <2>2, TallyFits DEF b
<1>3. CASE h.buffer # NoOperation
  <2>1. h.buffer \in BufferOperation
    BY <1>1, <1>3
  <2>2. /\ b \in BufferOperation /\ b.operation = h.buffer.operation
        /\ b.expected = h.buffer.expected \ {q}
        /\ \A r \in Peer : b.statuses[r] = IF r = q THEN "None" ELSE h.buffer.statuses[r]
    BY <1>3, <2>1 DEF RemoveExpectedPeer, BufferOperation
  <2> HIDE DEF b
  <2>3. OperationFits(b, h.log)
    BY <1>1, <1>3, <2>2 DEF OperationFits
  <2>4. QED
    BY <1>3, <2>2, <2>3, TallyFits DEF b
<1>4. QED
  BY <1>2, <1>3

(* An adopted queue lacks only what is gone (WireMessage::QueueState). *)
LEMMA QueueStateFits ==
  ASSUME NEW p \in Peer, NEW h, Fits(p, h), NEW m \in Message,
         m.type = "QueueState", MessageFits(m, h.log, h.clock)
  PROVE  LET g == [h EXCEPT !.music = ApplyRemoteQueueState(@, m.state)]
         IN  Fits(p, g) /\ Follows(p, h, g)
<1> DEFINE music == ApplyRemoteQueueState(h.music, m.state)
           g == [h EXCEPT !.music = music]
<1>1. h \in Handler /\ h.music \in Music
  BY DEF Fits, Handler
<1>2. m.state \in QueueState
  BY DEF Message
<1>3. music \in Music
  BY <1>1, <1>2, ApplyType
<1>4. music.queue = m.state.items
  BY <1>1, <1>2 DEF ApplyRemoteQueueState, InvalidateStaleQueueVote, Music, QueueState
<1>5. QueueFits(music.queue, h.log)
  <2>1. QueueFits(m.state.items, h.log)
    BY DEF MessageFits
  <2> HIDE DEF music
  <2>2. QED
    BY <1>4, <2>1
<1> HIDE DEF music
<1>6. /\ g \in Handler /\ g.buffer = h.buffer /\ g.log = h.log /\ g.clock = h.clock
      /\ g.playback = h.playback /\ g.music = music /\ g.events = h.events
      /\ g.sent = h.sent
  BY <1>1, <1>3 DEF Handler
<1> HIDE DEF g
<1>7. Fits(p, g) /\ Follows(p, h, g)
  BY <1>5, <1>6, FitsNow
<1>8. QED
  BY <1>7 DEF g, music
-----------------------------------------------------------------------------
(* From a handling to the room *)

KeepsTime == \A q \in Peer : NotOlder(peer[q].playback, peer'[q].playback)

(* A handler starts from what fits. *)
LEMMA HandlingFits ==
  ASSUME Inv, NEW p \in Peer
  PROVE  /\ Fits(p, Handling(p))
         /\ LET h == Handling(p)
            IN  /\ h.playback = peer[p].playback /\ h.buffer = peer[p].buffer
                /\ h.music = peer[p].music /\ h.events = peer[p].events
                /\ h.stream = peer[p].stream /\ h.failed = peer[p].failed
                /\ h.log = log /\ h.clock = clock /\ h.alive = alive
                /\ h.sent = {}
<1> DEFINE h == Handling(p)
           s == peer[p]
<1>1. /\ s \in PeerState /\ clock \in Nat /\ log \in Log /\ alive \subseteq Peer
      /\ bounds["operations"] \in Nat
  BY DEF Inv, Typed
<1>2. /\ s.music \in Music /\ s.playback \in PlaybackState \cup {NoPlayback}
      /\ s.buffer \in BufferOperation \cup {NoOperation}
      /\ s.stream \in Stream \cup {NoOperation}
      /\ s.events \in Seq(Event) /\ s.failed \subseteq Id
  BY <1>1 DEF PeerState
<1> HIDE DEF s
<1>3. h \in Handler
  BY <1>1, <1>2 DEF Handling, Handler, s
<1>4. /\ h.playback = s.playback /\ h.buffer = s.buffer /\ h.music = s.music
      /\ h.events = s.events /\ h.stream = s.stream /\ h.failed = s.failed
      /\ h.log = log /\ h.clock = clock /\ h.alive = alive /\ h.sent = {}
  BY DEF Handling, s
<1> HIDE DEF h
<1>5. HistoryFits(log, clock) /\ PeerFits(p, s, log, clock)
  BY DEF Inv, s
<1>6. PeerFits(p, h, log, clock)
  BY <1>4, <1>5 DEF PeerFits
<1>7. Fits(p, h)
  BY <1>3, <1>4, <1>5, <1>6 DEF Fits
<1>8. QED
  BY <1>4, <1>7 DEF h, s

(* What a handler of p leaves behind fits the rest of the room, of which it has
   ended no operation. *)
LEMMA HandledFits ==
  ASSUME Inv, NEW p \in Peer, NEW h, Fits(p, h), Follows(p, Handling(p), h),
         Handled(p, h), connected' \in [Peer -> SUBSET Peer],
         bounds' \in [{"operations", "finishes", "refreshes", "churn"} -> Nat]
  PROVE  Inv' /\ KeepsTime
<1> DEFINE new == [music |-> h.music, playback |-> h.playback, buffer |-> h.buffer,
                   stream |-> h.stream, events |-> h.events, failed |-> h.failed]
<1>1. /\ h \in Handler /\ h.log \in Log /\ h.clock \in Nat /\ h.alive \subseteq Peer
      /\ h.sent \subseteq Message
  BY DEF Fits, Handler
<1>2. /\ peer \in [Peer -> PeerState] /\ clock \in Nat /\ messages \subseteq Message
  BY DEF Inv, Typed
<1>3. /\ Extends(log, clock, h.log, h.clock) /\ EndsOwn(p, log, h.log)
      /\ NotOlder(peer[p].playback, h.playback)
  BY HandlingFits DEF Follows
<1>4. /\ peer' = [peer EXCEPT ![p] = new] /\ messages' = messages \cup h.sent
      /\ alive' = h.alive /\ clock' = h.clock /\ log' = h.log
  BY DEF Handled
<1>5. new \in PeerState
  BY <1>1 DEF Handler, PeerState
<1>6. /\ new.music = h.music /\ new.playback = h.playback /\ new.buffer = h.buffer
      /\ new.events = h.events
  OBVIOUS
<1> HIDE DEF new
<1>7. \A q \in Peer : peer'[q] = IF q = p THEN new ELSE peer[q]
  BY <1>2, <1>4
<1>8. Typed'
  BY <1>1, <1>2, <1>4, <1>5 DEF Typed
<1>9. HistoryFits(log', clock')
  BY <1>4 DEF Fits
<1>10. ASSUME NEW q \in Peer PROVE PeerFits(q, peer'[q], log', clock')
  <2>1. CASE q = p
    <3>1. PeerFits(p, h, h.log, h.clock)
      BY DEF Fits
    <3>2. PeerFits(p, new, h.log, h.clock)
      BY <1>6, <3>1 DEF PeerFits
    <3>3. QED
      BY <1>4, <1>7, <2>1, <3>2
  <2>2. CASE q # p
    <3> DEFINE s == peer[q]
    <3>1. s \in PeerState /\ PeerFits(q, s, log, clock)
      BY <1>2 DEF Inv
    <3>2. /\ s.playback # NoPlayback => s.playback.issued_at \in Nat
          /\ s.buffer # NoOperation => s.buffer.operation[2] \in Nat
      BY <3>1 DEF PeerState, PlaybackState, BufferOperation, Id
    <3> HIDE DEF s
    <3>3. /\ OperationFits(s.buffer, log) /\ LedFits(q, s.buffer, log, clock)
          /\ PlaybackFits(s.playback, log, clock) /\ QueueFits(s.music.queue, log)
          /\ EventsFit(q, s.events, log)
      BY <3>1 DEF PeerFits
    <3>4. OperationFits(s.buffer, h.log)
      BY <1>1, <1>2, <1>3, <3>3, HistoryGrows
    <3>5. LedFits(q, s.buffer, h.log, h.clock)
      <4>1. SUFFICES ASSUME Leads(q, s.buffer)
                     PROVE  /\ s.buffer.operation[2] < h.clock
                            /\ ~Ended(h.log, s.buffer.operation)
        BY DEF LedFits
      <4>2. /\ s.buffer.operation[2] < clock /\ ~Ended(log, s.buffer.operation)
            /\ s.buffer.operation[2] \in Nat /\ s.buffer.operation[1] = q
        BY <3>2, <3>3, <4>1 DEF LedFits, Leads, LeaderOf
      <4>3. clock <= h.clock
        BY <1>3 DEF Extends
      <4>4. ~Ended(h.log, s.buffer.operation)
        BY <1>3, <2>2, <4>2 DEF Ended, EndsOwn
      <4>5. QED
        BY <1>1, <1>2, <4>2, <4>3, <4>4
    <3>6. PlaybackFits(s.playback, h.log, h.clock)
      BY <1>1, <1>2, <1>3, <3>2, <3>3, HistoryGrows
    <3>7. QueueFits(s.music.queue, h.log) /\ EventsFit(q, s.events, h.log)
      BY <1>1, <1>2, <1>3, <3>3, HistoryGrows
    <3>8. PeerFits(q, s, h.log, h.clock)
      BY <3>4, <3>5, <3>6, <3>7 DEF PeerFits
    <3>9. QED
      BY <1>4, <1>7, <2>2, <3>8 DEF s
  <2>3. QED
    BY <2>1, <2>2
<1>11. ASSUME NEW m \in messages' PROVE MessageFits(m, log', clock')
  <2>1. CASE m \in h.sent
    BY <1>4, <2>1 DEF Fits
  <2>2. CASE m \in messages
    <3>1. m \in Message /\ MessageFits(m, log, clock)
      BY <1>2, <2>2 DEF Inv
    <3>2. QED
      BY <1>1, <1>2, <1>3, <1>4, <3>1, MessagesStayFit
  <2>3. QED
    BY <1>4, <2>1, <2>2
<1>12. Inv'
  BY <1>8, <1>9, <1>10, <1>11 DEF Inv
<1>13. KeepsTime
  <2>1. ASSUME NEW q \in Peer PROVE NotOlder(peer[q].playback, peer'[q].playback)
    <3>1. CASE q = p
      BY <1>3, <1>6, <1>7, <3>1
    <3>2. CASE q # p
      <4>1. peer[q].playback \in PlaybackState \cup {NoPlayback}
        BY <1>2 DEF PeerState
      <4>2. QED
        BY <1>7, <3>2, <4>1 DEF NotOlder, PlaybackState
    <3>3. QED
      BY <3>1, <3>2
  <2>2. QED
    BY <2>1 DEF KeepsTime
<1>14. QED
  BY <1>12, <1>13
-----------------------------------------------------------------------------
(* The actions *)

BoundsType == bounds \in [{"operations", "finishes", "refreshes", "churn"} -> Nat]

(* Whoever ends with its event loop leaves what it did. *)
LEMMA DieFits ==
  ASSUME NEW p, NEW h, Fits(p, h)
  PROVE  LET g == [h EXCEPT !.alive = @ \ {p}]
         IN  Fits(p, g) /\ Follows(p, h, g)
<1> DEFINE g == [h EXCEPT !.alive = @ \ {p}]
<1>1. h \in Handler
  BY DEF Fits
<1>2. /\ g \in Handler /\ g.log = h.log /\ g.clock = h.clock /\ g.buffer = h.buffer
      /\ g.playback = h.playback /\ g.music = h.music /\ g.events = h.events
      /\ g.sent = h.sent
  BY <1>1 DEF Handler
<1> HIDE DEF g
<1>3. QED
  BY <1>2, FitsNow DEF g

(* music_local.tick() *)
LEMMA TickKeeps ==
  ASSUME Inv, NEW p \in Peer, NEW loses \in BOOLEAN, NEW finishes \in BOOLEAN,
         NEW target, MusicLocalTick(p, loses, finishes, target)
  PROVE  Inv' /\ KeepsTime
<1> DEFINE h == Handling(p)
           handled == HandlePlayerEvents(p, h)
           resolved == ResolveBufferOperation(p, handled)
           next == StartNextIfIdle(p, resolved)
           lost == LoseBufferHealth(p, next, target)
           healthy == IF loses THEN lost ELSE next
           finished == FinishPlayback(p, healthy)
           done == IF finishes THEN finished ELSE healthy
<1>1. /\ Handled(p, done)
      /\ bounds' = [bounds EXCEPT !["operations"] = done.begun,
                                  !["finishes"] = IF finishes THEN @ + 1 ELSE @]
      /\ connected' = connected
  BY DEF MusicLocalTick
<1>2. Typed
  BY DEF Inv
<1>3. Fits(p, h)
  BY HandlingFits
<1> HIDE DEF h
<1>4. Fits(p, handled) /\ Follows(p, h, handled)
  BY <1>2, <1>3, PlayerEventsFit
<1> HIDE DEF handled
<1>5. Fits(p, resolved) /\ Follows(p, handled, resolved)
  BY <1>4, ResolveFits
<1> HIDE DEF resolved
<1>6. Follows(p, h, resolved)
  BY <1>3, <1>4, <1>5, FollowsOn
<1>7. Fits(p, next) /\ Follows(p, resolved, next)
  BY <1>2, <1>5, StartNextFits
<1> HIDE DEF next
<1>8. Follows(p, h, next)
  BY <1>3, <1>5, <1>6, <1>7, FollowsOn
<1>9. Fits(p, lost) /\ Follows(p, next, lost)
  BY <1>2, <1>7, LoseBufferHealthFits
<1> HIDE DEF lost
<1>10. Follows(p, h, lost)
  BY <1>3, <1>7, <1>8, <1>9, FollowsOn
<1>11. Fits(p, healthy) /\ Follows(p, h, healthy)
  BY <1>7, <1>8, <1>9, <1>10
<1> HIDE DEF healthy
<1>12. Fits(p, finished) /\ Follows(p, healthy, finished)
  BY <1>2, <1>11, FinishFits
<1> HIDE DEF finished
<1>13. Follows(p, h, finished)
  BY <1>3, <1>11, <1>12, FollowsOn
<1>14. Fits(p, done) /\ Follows(p, h, done)
  BY <1>11, <1>12, <1>13
<1> HIDE DEF done
<1>15. done.begun \in Nat
  BY <1>14 DEF Fits, Handler
<1>16. BoundsType' /\ connected' \in [Peer -> SUBSET Peer]
  BY <1>1, <1>2, <1>15 DEF Typed, BoundsType
<1>17. QED
  BY <1>1, <1>14, <1>16, HandledFits DEF h, BoundsType

(* music_sync.tick(): the session and its track stay what they are. *)
LEMMA SyncKeeps ==
  ASSUME Inv, NEW p \in Peer, MusicSyncTick(p)
  PROVE  Inv' /\ KeepsTime
<1> DEFINE h == Handling(p)
           state == [peer[p].playback EXCEPT !.issued_at = clock]
           g == Stamped(PublishPlayback([h EXCEPT !.playback = state], state))
<1>1. /\ Handled(p, g) /\ HasTrack(peer[p].playback)
      /\ bounds' = [bounds EXCEPT !["refreshes"] = @ + 1] /\ connected' = connected
  BY DEF MusicSyncTick
<1>2. Typed
  BY DEF Inv
<1>3. Fits(p, h) /\ h.playback = peer[p].playback /\ h.clock = clock /\ h.log = log
  BY HandlingFits
<1> HIDE DEF h
<1>4. h.playback \in PlaybackState /\ h.playback # NoPlayback /\ clock \in Nat
  BY <1>1, <1>2, <1>3 DEF HasTrack, Fits, Handler, Typed
<1>5. /\ state \in PlaybackState /\ state.issued_at = clock
      /\ state.session = h.playback.session /\ state.track = h.playback.track
      /\ state.playing = h.playback.playing
  BY <1>3, <1>4 DEF PlaybackState
<1>6. PlaybackFits(h.playback, h.log, h.clock)
  BY <1>3 DEF Fits, PeerFits
<1> HIDE DEF state
<1>7. /\ state.track # NoTrack => Started(h.log, state.session, state.track)
      /\ state.playing => state.track # NoTrack
  BY <1>4, <1>5, <1>6 DEF PlaybackFits
<1>8. Fits(p, g) /\ Follows(p, h, g)
  BY <1>3, <1>5, <1>7, IssueFits
<1> HIDE DEF g
<1>9. BoundsType' /\ connected' \in [Peer -> SUBSET Peer]
  BY <1>1, <1>2 DEF Typed, BoundsType
<1>10. QED
  BY <1>1, <1>8, <1>9, HandledFits DEF h, BoundsType

(* NetworkCommand::Seek *)
LEMMA SeekKeeps ==
  ASSUME Inv, NEW p \in Peer, NEW target, Seek(p, target)
  PROVE  Inv' /\ KeepsTime
<1> DEFINE h == Handling(p)
           paused == PausePlayback(p, h)
           track == peer[p].playback.track
           begun == BeginBufferOperation(p, paused, "Seek", track, target)
           last == [begun EXCEPT !.alive = @ \ {p}]
           g == IF p \in MediaFails THEN last ELSE begun
<1>1. /\ HasTrack(peer[p].playback) /\ Handled(p, g)
      /\ bounds' = [bounds EXCEPT !["operations"] = begun.begun]
      /\ connected' = connected
  BY DEF Seek, CanControlPlayback
<1>2. Typed
  BY DEF Inv
<1>3. Fits(p, h) /\ h.playback = peer[p].playback
  BY HandlingFits
<1> HIDE DEF h
<1>4. h.playback # NoPlayback /\ track \in Item
  BY <1>1, <1>2, <1>3 DEF HasTrack, Typed, PeerState, PlaybackState
<1>5. Fits(p, paused) /\ Follows(p, h, paused) /\ paused.playback # NoPlayback
  BY <1>3, <1>4, PauseFits
<1> HIDE DEF paused, track
<1>6. Fits(p, begun) /\ Follows(p, paused, begun)
  BY <1>2, <1>4, <1>5, BeginFits DEF Kind
<1> HIDE DEF begun
<1>7. Follows(p, h, begun)
  BY <1>3, <1>5, <1>6, FollowsOn
<1>8. Fits(p, last) /\ Follows(p, begun, last)
  BY <1>6, DieFits
<1> HIDE DEF last
<1>9. Follows(p, h, last)
  BY <1>3, <1>6, <1>7, <1>8, FollowsOn
<1>10. Fits(p, g) /\ Follows(p, h, g)
  BY <1>6, <1>7, <1>8, <1>9
<1> HIDE DEF g
<1>11. begun.begun \in Nat
  BY <1>6 DEF Fits, Handler
<1>12. BoundsType' /\ connected' \in [Peer -> SUBSET Peer]
  BY <1>1, <1>2, <1>11 DEF Typed, BoundsType
<1>13. QED
  BY <1>1, <1>10, <1>12, HandledFits DEF h, BoundsType

(* Whatever message is delivered, whenever and however often. *)
LEMMA ReceiveKeeps ==
  ASSUME Inv, NEW p \in Peer, Receive(p)
  PROVE  Inv' /\ KeepsTime
<1> DEFINE h == Handling(p)
<1>1. Typed
  BY DEF Inv
<1>2. /\ Fits(p, h) /\ h.log = log /\ h.clock = clock /\ h.buffer = peer[p].buffer
      /\ h \in Handler
  BY HandlingFits DEF Fits
<1>3. Follows(p, h, h)
  BY <1>2, FollowsItself
<1> HIDE DEF h
<1>4. PICK m \in messages :
        \/ \E target \in SeekTargets \cup {"Buffered"} : ReceivePlaybackState(p, m, target)
        \/ \E target \in SeekTargets : ReceivePrepare(p, m, target)
        \/ ReceiveStatus(p, m)
        \/ ReceiveCancel(p, m)
        \/ ReceiveQueueState(p, m)
  BY DEF Receive
<1>5. m \in Message /\ MessageFits(m, h.log, h.clock)
  BY <1>1, <1>2 DEF Typed, Inv
<1>6. ASSUME NEW g, Fits(p, g), Follows(p, h, g), Handled(p, g),
             UNCHANGED <<connected, bounds>>
      PROVE  Inv' /\ KeepsTime
  <2>1. BoundsType' /\ connected' \in [Peer -> SUBSET Peer]
    BY <1>1, <1>6 DEF Typed, BoundsType
  <2>2. QED
    BY <1>6, <2>1, HandledFits DEF h, BoundsType
<1>7. ASSUME NEW target, ReceivePlaybackState(p, m, target)
      PROVE  Inv' /\ KeepsTime
  <2> DEFINE g == HandlePlaybackState(p, h, m.state, target)
  <2>1. m.type = "PlaybackState" /\ Handled(p, g) /\ UNCHANGED <<connected, bounds>>
    BY <1>7 DEF ReceivePlaybackState, h
  <2>2. m.state \in PlaybackState
    BY <1>5, <2>1 DEF Message
  <2>3. PlaybackFits(m.state, h.log, h.clock)
    BY <1>5, <2>1 DEF MessageFits
  <2>4. Fits(p, g) /\ Follows(p, h, g)
    BY <1>2, <2>2, <2>3, PlaybackStateFits
  <2> HIDE DEF g
  <2>5. QED
    BY <1>6, <2>1, <2>4
<1>8. ASSUME NEW target, ReceivePrepare(p, m, target)
      PROVE  Inv' /\ KeepsTime
  <2> DEFINE g == HandlePrepare(p, h, m, target)
  <2>1. /\ m.type = "BufferPrepare" /\ m.operation[1] # p /\ Handled(p, g)
        /\ UNCHANGED <<connected, bounds>>
    BY <1>8 DEF ReceivePrepare, h
  <2>2. Fits(p, g) /\ Follows(p, h, g)
    BY <1>2, <1>5, <2>1, PrepareFits
  <2> HIDE DEF g
  <2>3. QED
    BY <1>6, <2>1, <2>2
<1>9. CASE ReceiveStatus(p, m)
  <2> DEFINE marked == [h EXCEPT !.buffer = MarkStatus(@, m.operation, m.session,
                                                       m.peer, m.status)]
             g == ResolveBufferOperation(p, marked)
  <2>1. /\ m.type = "BufferStatus" /\ Handled(p, g) /\ UNCHANGED <<connected, bounds>>
    BY <1>9 DEF ReceiveStatus, h
  <2>2. Fits(p, g) /\ Follows(p, h, g)
    BY <1>2, <1>5, <2>1, StatusFits
  <2> HIDE DEF g
  <2>3. QED
    BY <1>6, <2>1, <2>2
<1>10. CASE ReceiveCancel(p, m)
  <2> DEFINE b == Cancel(h.buffer, m.operation)
             cancelled == [h EXCEPT !.buffer = b]
             stopped == StopPlayer(cancelled)
             g == IF cancelled.buffer = h.buffer THEN h ELSE stopped
  <2>1. Handled(p, g) /\ UNCHANGED <<connected, bounds>>
    BY <1>10 DEF ReceiveCancel, h
  <2>2. b \in {h.buffer, NoOperation}
    BY DEF Cancel
  <2> HIDE DEF b
  <2>3. Fits(p, cancelled) /\ Follows(p, h, cancelled)
    BY <1>2, <2>2, ClearFits
  <2> HIDE DEF cancelled
  <2>4. Fits(p, stopped) /\ Follows(p, cancelled, stopped)
    BY <2>3, StopPlayerFits
  <2> HIDE DEF stopped
  <2>5. Follows(p, h, stopped)
    BY <1>2, <2>3, <2>4, FollowsOn
  <2>6. Fits(p, g) /\ Follows(p, h, g)
    BY <1>2, <1>3, <2>4, <2>5
  <2> HIDE DEF g
  <2>7. QED
    BY <1>6, <2>1, <2>6
<1>11. CASE ReceiveQueueState(p, m)
  <2> DEFINE applied == [h EXCEPT !.music = ApplyRemoteQueueState(@, m.state)]
             g == IF AppliesQueueState(h.music, m.state) THEN applied ELSE h
  <2>1. m.type = "QueueState" /\ Handled(p, g) /\ UNCHANGED <<connected, bounds>>
    BY <1>11 DEF ReceiveQueueState, h
  <2>2. Fits(p, applied) /\ Follows(p, h, applied)
    BY <1>2, <1>5, <2>1, QueueStateFits
  <2> HIDE DEF applied
  <2>3. Fits(p, g) /\ Follows(p, h, g)
    BY <1>2, <1>3, <2>2
  <2> HIDE DEF g
  <2>4. QED
    BY <1>6, <2>1, <2>3
<1>12. QED
  BY <1>4, <1>7, <1>8, <1>9, <1>10, <1>11

(* A connection is lost, or a peer is too slow. *)
LEMMA ConnectionKeeps ==
  ASSUME Inv, NEW p \in Peer, Connection(p)
  PROVE  Inv' /\ KeepsTime
<1> DEFINE h == Handling(p)
<1>1. Typed
  BY DEF Inv
<1>2. Fits(p, h)
  BY HandlingFits
<1>3. Follows(p, h, h)
  BY <1>2, FollowsItself DEF Fits
<1>4. PICK q \in Peer : ConnectionClosed(p, q) \/ SlowPeer(p, q)
  BY DEF Connection
<1> DEFINE left == [h EXCEPT !.buffer = RemoveExpectedPeer(@, q)]
           resolved == ResolveBufferOperation(p, left)
           g == ExpectNoMore(p, q)
<1>5. g \in {h, resolved}
  BY DEF ExpectNoMore
<1>6. Handled(p, g)
  BY <1>4 DEF ConnectionClosed, SlowPeer
<1> HIDE DEF h, g
<1>7. Fits(p, resolved) /\ Follows(p, h, resolved)
  BY <1>2, LeftFits
<1> HIDE DEF resolved
<1>8. Fits(p, g) /\ Follows(p, h, g)
  BY <1>2, <1>3, <1>5, <1>7
<1>9. BoundsType' /\ connected' \in [Peer -> SUBSET Peer]
  BY <1>1, <1>4 DEF ConnectionClosed, SlowPeer, Typed, BoundsType
<1>10. QED
  BY <1>6, <1>8, <1>9, HandledFits DEF h, BoundsType
-----------------------------------------------------------------------------
(* The state of a peer is what its handlings keep. *)
LEMMA PeerFields ==
  ASSUME NEW s \in PeerState, NEW b
  PROVE  [s EXCEPT !.buffer = b] =
           [music |-> s.music, playback |-> s.playback, buffer |-> b,
            stream |-> s.stream, events |-> s.events, failed |-> s.failed]
  BY DEF PeerState

(* Only what is said of p and of the history changes. *)
LEMMA OwnStepFits ==
  ASSUME Inv, NEW p \in Peer, NEW h, Fits(p, h), Follows(p, Handling(p), h),
         h.sent = {}, h.alive = alive, h.clock = clock, log' = h.log,
         peer' = [peer EXCEPT ![p] =
           [music |-> h.music, playback |-> h.playback, buffer |-> h.buffer,
            stream |-> h.stream, events |-> h.events, failed |-> h.failed]],
         UNCHANGED <<messages, connected, alive, clock, bounds>>
  PROVE  Inv' /\ KeepsTime
<1>1. Handled(p, h)
  BY DEF Handled
<1>2. BoundsType' /\ connected' \in [Peer -> SUBSET Peer]
  BY DEF Inv, Typed, BoundsType
<1>3. QED
  BY <1>1, <1>2, HandledFits DEF BoundsType

(* BUFFER_OPERATION_TIMEOUT passes. *)
LEMMA DeadlineKeeps ==
  ASSUME Inv, NEW p \in Peer, DeadlinePasses(p)
  PROVE  Inv' /\ KeepsTime
<1> DEFINE h == Handling(p)
           s == peer[p]
           b == [s.buffer EXCEPT !.overdue = TRUE]
           g == [h EXCEPT !.buffer = b]
<1>1. /\ Fits(p, h) /\ h.buffer = s.buffer /\ h.music = s.music
      /\ h.playback = s.playback /\ h.stream = s.stream /\ h.events = s.events
      /\ h.failed = s.failed /\ h.log = log /\ h.clock = clock /\ h.alive = alive
      /\ h.sent = {}
  BY HandlingFits
<1>2. /\ peer \in [Peer -> PeerState] /\ s \in PeerState /\ s.buffer # NoOperation
      /\ peer' = [peer EXCEPT ![p] = [s EXCEPT !.buffer = b]]
      /\ UNCHANGED <<messages, connected, alive, clock, bounds, log>>
  BY DEF DeadlinePasses, Leads, Inv, Typed
<1>3. s.buffer \in BufferOperation
  BY <1>2 DEF PeerState
<1>4. /\ b \in BufferOperation /\ b.operation = s.buffer.operation
      /\ b.statuses = s.buffer.statuses /\ b.expected = s.buffer.expected
  BY <1>3 DEF BufferOperation
<1>5. [s EXCEPT !.buffer = b] =
        [music |-> s.music, playback |-> s.playback, buffer |-> b,
         stream |-> s.stream, events |-> s.events, failed |-> s.failed]
  BY <1>2, PeerFields
<1> HIDE DEF h, b, s
<1>6. OperationFits(b, h.log)
  <2>1. OperationFits(s.buffer, h.log)
    BY <1>1 DEF Fits, PeerFits
  <2>2. QED
    BY <1>2, <1>4, <2>1 DEF OperationFits
<1>7. Fits(p, g) /\ Follows(p, h, g)
  BY <1>1, <1>2, <1>4, <1>6, TallyFits
<1>8. /\ g.music = h.music /\ g.playback = h.playback /\ g.buffer = b
      /\ g.stream = h.stream /\ g.events = h.events /\ g.failed = h.failed
      /\ g.log = h.log /\ g.clock = h.clock /\ g.alive = h.alive /\ g.sent = h.sent
  BY <1>1 DEF Fits, Handler
<1> HIDE DEF g
<1>9. peer' = [peer EXCEPT ![p] =
        [music |-> g.music, playback |-> g.playback, buffer |-> g.buffer,
         stream |-> g.stream, events |-> g.events, failed |-> g.failed]]
  BY <1>1, <1>2, <1>5, <1>8
<1>10. QED
  BY <1>1, <1>2, <1>7, <1>8, <1>9, OwnStepFits DEF h

(* The stream of p changes, and an event may wait. *)
LEMMA StreamStepFits ==
  ASSUME Inv, NEW p \in Peer, NEW h, Fits(p, h), Follows(p, Handling(p), h),
         h.sent = {}, h.alive = alive, h.clock = clock, log' = h.log,
         h.music = peer[p].music, h.playback = peer[p].playback,
         h.buffer = peer[p].buffer, h.failed = peer[p].failed,
         peer' = [peer EXCEPT ![p].stream = h.stream, ![p].events = h.events],
         UNCHANGED <<messages, connected, alive, clock, bounds>>
  PROVE  Inv' /\ KeepsTime
<1> DEFINE s == peer[p]
<1>1. /\ peer \in [Peer -> PeerState] /\ s \in PeerState
      /\ s.music = h.music /\ s.playback = h.playback /\ s.buffer = h.buffer
      /\ s.failed = h.failed
  BY DEF Inv, Typed
<1>2. peer' = [peer EXCEPT ![p] = [s EXCEPT !.stream = h.stream, !.events = h.events]]
  BY <1>1 DEF PeerState
<1> HIDE DEF s
<1> DEFINE t == [s EXCEPT !.stream = h.stream]
<1>3. t = [music |-> s.music, playback |-> s.playback, buffer |-> s.buffer,
           stream |-> h.stream, events |-> s.events, failed |-> s.failed]
  BY <1>1 DEF PeerState
<1>4. peer' = [peer EXCEPT ![p] = [t EXCEPT !.events = h.events]]
  BY <1>2
<1> HIDE DEF t
<1>5. [t EXCEPT !.events = h.events] =
        [music |-> s.music, playback |-> s.playback, buffer |-> s.buffer,
         stream |-> h.stream, events |-> h.events, failed |-> s.failed]
  BY <1>3
<1>6. peer' = [peer EXCEPT ![p] =
        [music |-> h.music, playback |-> h.playback, buffer |-> h.buffer,
         stream |-> h.stream, events |-> h.events, failed |-> h.failed]]
  BY <1>1, <1>4, <1>5
<1>7. QED
  BY <1>6, OwnStepFits
-----------------------------------------------------------------------------
(* The threads of the player *)

LEMMA StreamReadyKeeps ==
  ASSUME Inv, NEW p \in Peer, StreamReady(p)
  PROVE  Inv' /\ KeepsTime
<1> DEFINE h == Handling(p)
           s == peer[p].stream
           ready == [s EXCEPT !.phase = "Ready", !.reported = TRUE]
           event == [kind |-> "Prepared", operation |-> s.operation,
                     session |-> s.session, track |-> s.track]
           prepared == HasPrepared(p, h, s.operation)
           k == IF s.reported \/ s.operation = NoOperation THEN h ELSE prepared
           told == [k EXCEPT !.events = Append(@, event)]
           t == IF s.reported THEN k ELSE told
           g == [t EXCEPT !.stream = ready]
<1>1. /\ peer \in [Peer -> PeerState] /\ s \in Stream /\ s # NoOperation
      /\ peer[p].events \in Seq(Event)
      /\ UNCHANGED <<messages, connected, alive, clock, bounds>>
  BY DEF StreamReady, Inv, Typed, PeerState
<1>2. peer' = [peer EXCEPT ![p].stream = ready,
                           ![p].events = IF s.reported THEN @ ELSE Append(@, event)]
  BY DEF StreamReady
<1>3. log' = IF s.reported \/ s.operation = NoOperation THEN log
             ELSE [log EXCEPT !.prepared = @ \cup {<<s.operation, p>>}]
  BY DEF StreamReady
<1>4. /\ event \in Event /\ event.kind = "Prepared" /\ event.operation = s.operation
      /\ ready \in Stream /\ s.operation \in Id \cup {NoOperation}
      /\ s.reported \in BOOLEAN
  BY <1>1 DEF Stream, Event
<1>5. /\ Fits(p, h) /\ h \in Handler /\ h.buffer = peer[p].buffer
      /\ h.music = peer[p].music /\ h.playback = peer[p].playback
      /\ h.stream = peer[p].stream /\ h.events = peer[p].events
      /\ h.failed = peer[p].failed /\ h.log = log /\ h.clock = clock
      /\ h.alive = alive /\ h.sent = {}
  BY HandlingFits DEF Fits
<1>6. Follows(p, h, h)
  BY <1>5, FollowsItself
<1> HIDE DEF h, s, ready, event
<1>7. ASSUME s.operation # NoOperation
      PROVE  /\ Fits(p, prepared) /\ Follows(p, h, prepared)
             /\ <<s.operation, p>> \in prepared.log.prepared
  BY <1>4, <1>5, <1>7, HasPreparedFits
<1>8. /\ prepared.log = [h.log EXCEPT !.prepared = @ \cup {<<s.operation, p>>}]
      /\ prepared.buffer = h.buffer /\ prepared.music = h.music
      /\ prepared.playback = h.playback /\ prepared.failed = h.failed
      /\ prepared.events = h.events
      /\ prepared.clock = h.clock /\ prepared.alive = h.alive /\ prepared.sent = h.sent
  BY <1>5 DEF HasPrepared, Handler
<1> HIDE DEF prepared
<1>9. /\ Fits(p, k) /\ Follows(p, h, k) /\ k \in Handler
      /\ ~s.reported /\ event.operation # NoOperation
           => <<event.operation, p>> \in k.log.prepared
  BY <1>4, <1>5, <1>6, <1>7 DEF Fits
<1>10. /\ k.log = IF s.reported \/ s.operation = NoOperation THEN h.log
                  ELSE [h.log EXCEPT !.prepared = @ \cup {<<s.operation, p>>}]
       /\ k.buffer = h.buffer /\ k.music = h.music
       /\ k.playback = h.playback /\ k.failed = h.failed /\ k.events = h.events
       /\ k.clock = h.clock /\ k.alive = h.alive /\ k.sent = h.sent
  BY <1>8
<1> HIDE DEF k
<1>11. ~s.reported => Fits(p, told) /\ Follows(p, k, told)
  BY <1>4, <1>9, EventFits
<1>12. /\ told.events = Append(k.events, event) /\ told.log = k.log
       /\ told.buffer = k.buffer /\ told.music = k.music
       /\ told.playback = k.playback /\ told.failed = k.failed
       /\ told.clock = k.clock /\ told.alive = k.alive /\ told.sent = k.sent
  BY <1>9 DEF Handler
<1> HIDE DEF told
<1>13. Fits(p, t) /\ Follows(p, h, t)
  <2>1. CASE s.reported
    BY <1>9, <2>1
  <2>2. CASE ~s.reported
    <3>1. Fits(p, told) /\ Follows(p, k, told)
      BY <1>11, <2>2
    <3>2. Follows(p, h, told)
      BY <1>5, <1>9, <3>1, FollowsOn
    <3>3. QED
      BY <2>2, <3>1, <3>2
  <2>3. QED
    BY <2>1, <2>2
<1>14. /\ t.events = IF s.reported THEN k.events ELSE Append(k.events, event)
       /\ t.log = k.log /\ t.buffer = k.buffer /\ t.music = k.music
       /\ t.playback = k.playback /\ t.failed = k.failed
       /\ t.clock = k.clock /\ t.alive = k.alive /\ t.sent = k.sent
  BY <1>12
<1> HIDE DEF t
<1>15. Fits(p, g) /\ Follows(p, t, g)
  BY <1>4, <1>13, StreamFits
<1>16. /\ g.stream = ready /\ g.events = t.events /\ g.log = t.log
       /\ g.buffer = t.buffer /\ g.music = t.music
       /\ g.playback = t.playback /\ g.failed = t.failed
       /\ g.clock = t.clock /\ g.alive = t.alive /\ g.sent = t.sent
  BY <1>13 DEF Fits, Handler
<1> HIDE DEF g
<1>17. Follows(p, h, g)
  BY <1>5, <1>13, <1>15, FollowsOn
<1>18. /\ g.stream = ready
       /\ g.events = IF s.reported THEN peer[p].events ELSE Append(peer[p].events, event)
       /\ log' = g.log
       /\ g.buffer = peer[p].buffer /\ g.music = peer[p].music
       /\ g.playback = peer[p].playback /\ g.failed = peer[p].failed
       /\ g.clock = clock /\ g.alive = alive /\ g.sent = {}
  BY <1>3, <1>5, <1>10, <1>14, <1>16
<1>19. peer' = [peer EXCEPT ![p].stream = g.stream, ![p].events = g.events]
  BY <1>1, <1>2, <1>18 DEF PeerState
<1>20. QED
  BY <1>1, <1>15, <1>17, <1>18, <1>19, StreamStepFits DEF h

(* A failed stream says so, whatever it was for. *)
LEMMA FailedEventFits ==
  ASSUME Inv, NEW p \in Peer, NEW stream \in Stream \cup {NoOperation},
         NEW event \in Event, event.kind = "Failed",
         peer' = [peer EXCEPT ![p].stream = stream, ![p].events = Append(@, event)],
         UNCHANGED <<messages, connected, alive, clock, bounds, log>>
  PROVE  Inv' /\ KeepsTime
<1> DEFINE h == Handling(p)
           told == [h EXCEPT !.events = Append(@, event)]
           g == [told EXCEPT !.stream = stream]
<1>1. peer \in [Peer -> PeerState]
  BY DEF Inv, Typed
<1>2. /\ Fits(p, h) /\ h \in Handler /\ h.buffer = peer[p].buffer
      /\ h.music = peer[p].music /\ h.playback = peer[p].playback
      /\ h.stream = peer[p].stream /\ h.events = peer[p].events
      /\ h.failed = peer[p].failed /\ h.log = log /\ h.clock = clock
      /\ h.alive = alive /\ h.sent = {}
  BY HandlingFits DEF Fits
<1> HIDE DEF h
<1>3. "Failed" # "Prepared"
  OBVIOUS
<1>4. Fits(p, told) /\ Follows(p, h, told)
  BY <1>2, <1>3, EventFits
<1>5. /\ told.events = Append(h.events, event) /\ told.log = h.log
      /\ told.buffer = h.buffer /\ told.music = h.music
      /\ told.playback = h.playback /\ told.failed = h.failed
      /\ told.clock = h.clock /\ told.alive = h.alive /\ told.sent = h.sent
  BY <1>2 DEF Handler
<1> HIDE DEF told
<1>6. Fits(p, g) /\ Follows(p, told, g)
  BY <1>4, StreamFits
<1>7. /\ g.stream = stream /\ g.events = told.events /\ g.log = told.log
      /\ g.buffer = told.buffer /\ g.music = told.music
      /\ g.playback = told.playback /\ g.failed = told.failed
      /\ g.clock = told.clock /\ g.alive = told.alive /\ g.sent = told.sent
  BY <1>4 DEF Fits, Handler
<1> HIDE DEF g
<1>8. Follows(p, h, g)
  BY <1>2, <1>4, <1>6, FollowsOn
<1>9. peer' = [peer EXCEPT ![p].stream = g.stream, ![p].events = g.events]
  BY <1>1, <1>2, <1>5, <1>7 DEF PeerState
<1>10. QED
  BY <1>2, <1>5, <1>6, <1>7, <1>8, <1>9, StreamStepFits DEF h

LEMMA StreamFailedKeeps ==
  ASSUME Inv, NEW p \in Peer, StreamFailed(p)
  PROVE  Inv' /\ KeepsTime
<1> DEFINE s == peer[p].stream
           broken == [s EXCEPT !.broken = TRUE]
           event == [kind |-> "Failed", operation |-> s.operation,
                     session |-> s.session, track |-> s.track]
<1>1. /\ peer \in [Peer -> PeerState] /\ s \in Stream
      /\ UNCHANGED <<messages, connected, alive, clock, bounds, log>>
  BY DEF StreamFailed, Inv, Typed, PeerState
<1>2. broken \in Stream \cup {NoOperation} /\ event \in Event /\ event.kind = "Failed"
  BY <1>1 DEF Stream, Event
<1>3. peer' = [peer EXCEPT ![p].stream = broken, ![p].events = Append(@, event)]
  <2>1. peer' = [peer EXCEPT ![p].stream.broken = TRUE, ![p].events = Append(@, event)]
    BY DEF StreamFailed
  <2>2. QED
    BY <1>1, <2>1 DEF PeerState
<1> HIDE DEF s, broken, event
<1>4. QED
  BY <1>1, <1>2, <1>3, FailedEventFits

LEMMA PlaybackFailsKeeps ==
  ASSUME Inv, NEW p \in Peer, PlaybackFails(p)
  PROVE  Inv' /\ KeepsTime
<1> DEFINE s == peer[p].stream
           event == [kind |-> "Failed", operation |-> NoOperation,
                     session |-> s.session, track |-> s.track]
<1>1. /\ peer \in [Peer -> PeerState] /\ s \in Stream
      /\ UNCHANGED <<messages, connected, alive, clock, bounds, log>>
      /\ peer' = [peer EXCEPT ![p].events = Append(@, event)]
  BY DEF PlaybackFails, Inv, Typed, PeerState
<1>2. event \in Event /\ event.kind = "Failed"
  BY <1>1 DEF Stream, Event
<1> HIDE DEF event
<1>3. peer' = [peer EXCEPT ![p].stream = s, ![p].events = Append(@, event)]
  BY <1>1 DEF PeerState
<1>4. QED
  BY <1>1, <1>2, <1>3, FailedEventFits

LEMMA ShutdownKeeps ==
  ASSUME Inv, NEW p \in Peer, Shutdown(p)
  PROVE  Inv' /\ KeepsTime
<1>1. /\ UNCHANGED <<peer, messages, connected, clock, bounds, log>>
      /\ alive' = alive \ {p}
  BY DEF Shutdown
<1>2. Inv'
  BY <1>1 DEF Inv, Typed
<1>3. QED
  BY <1>1, <1>2 DEF Inv, Typed, KeepsTime, NotOlder, PeerState, PlaybackState
-----------------------------------------------------------------------------
(* The invariant *)

LEMMA InvInit == Init => Inv
<1> SUFFICES ASSUME Init PROVE Inv
  OBVIOUS
<1> DEFINE new == [music |-> InitMusic, playback |-> NoPlayback,
                   buffer |-> NoOperation, stream |-> NoOperation,
                   events |-> <<>>, failed |-> {}]
           old == [prepared |-> {}, committed |-> {}, cancelled |-> {}, skipped |-> {}]
<1>1. /\ peer = [p \in Peer |-> new] /\ messages = {} /\ connected = Links
      /\ alive = Peer /\ clock = Len(InitQueue) + 1 /\ log = old
      /\ bounds = [b \in {"operations", "finishes", "refreshes", "churn"} |-> 0]
  BY DEF Init
<1>2. Len(InitQueue) \in Nat
  BY InitQueueAssumption, LenProperties
<1>3. InitMusic \in Music /\ InitMusic.queue = InitQueue
  BY <1>2, InitQueueAssumption DEF InitMusic, Music
<1>4. new \in PeerState
  <2>1. <<>> \in Seq(Event)
    OBVIOUS
  <2>2. QED
    BY <1>3, <2>1 DEF PeerState
<1>5. old \in Log
  BY DEF Log
<1>6. Typed
  BY <1>1, <1>2, <1>4, <1>5, LinksAssumption DEF Typed
<1>7. HistoryFits(old, clock)
  BY DEF HistoryFits
<1>8. ASSUME NEW p \in Peer PROVE PeerFits(p, new, old, clock)
  <2>1. OperationFits(NoOperation, old) /\ LedFits(p, NoOperation, old, clock)
    BY DEF OperationFits, LedFits, Leads
  <2>2. PlaybackFits(NoPlayback, old, clock)
    BY DEF PlaybackFits
  <2>3. QueueFits(InitQueue, old)
    BY DEF QueueFits, InQueue
  <2>4. EventsFit(p, <<>>, old)
    BY DEF EventsFit
  <2>5. QED
    BY <1>3, <2>1, <2>2, <2>3, <2>4 DEF PeerFits
<1> HIDE DEF new, old
<1>9. QED
  BY <1>1, <1>6, <1>7, <1>8 DEF Inv

LEMMA InvStep ==
  ASSUME Inv, [Next]_vars
  PROVE  Inv' /\ KeepsTime
<1>1. CASE UNCHANGED vars
  <2>1. UNCHANGED <<peer, messages, connected, alive, clock, bounds, log>>
    BY <1>1 DEF vars
  <2>2. Inv'
    BY <2>1 DEF Inv, Typed
  <2>3. KeepsTime
    BY <2>1 DEF Inv, Typed, KeepsTime, NotOlder, PeerState, PlaybackState
  <2>4. QED
    BY <2>2, <2>3
<1>2. CASE Next
  <2>1. PICK p \in alive :
          \/ Tick(p)
          \/ MusicSyncTick(p)
          \/ \E target \in SeekTargets : Seek(p, target)
          \/ Receive(p)
          \/ Connection(p)
          \/ DeadlinePasses(p)
          \/ StreamReady(p)
          \/ StreamFailed(p)
          \/ PlaybackFails(p)
          \/ Shutdown(p)
    BY <1>2 DEF Next
  <2>2. p \in Peer
    BY DEF Inv, Typed
  <2>3. CASE Tick(p)
    <3>1. PICK loses \in BOOLEAN, finishes \in BOOLEAN, target \in SeekTargets :
            MusicLocalTick(p, loses, finishes, target)
      BY <2>3 DEF Tick
    <3>2. QED
      BY <2>2, <3>1, TickKeeps
  <2>4. CASE MusicSyncTick(p)
    BY <2>2, <2>4, SyncKeeps
  <2>5. CASE \E target \in SeekTargets : Seek(p, target)
    BY <2>2, <2>5, SeekKeeps
  <2>6. CASE Receive(p)
    BY <2>2, <2>6, ReceiveKeeps
  <2>7. CASE Connection(p)
    BY <2>2, <2>7, ConnectionKeeps
  <2>8. CASE DeadlinePasses(p)
    BY <2>2, <2>8, DeadlineKeeps
  <2>9. CASE StreamReady(p)
    BY <2>2, <2>9, StreamReadyKeeps
  <2>10. CASE StreamFailed(p)
    BY <2>2, <2>10, StreamFailedKeeps
  <2>11. CASE PlaybackFails(p)
    BY <2>2, <2>11, PlaybackFailsKeeps
  <2>12. CASE Shutdown(p)
    BY <2>2, <2>12, ShutdownKeeps
  <2>13. QED
    BY <2>1, <2>3, <2>4, <2>5, <2>6, <2>7, <2>8, <2>9, <2>10, <2>11, <2>12
<1>3. QED
  BY <1>1, <1>2
-----------------------------------------------------------------------------
(* What follows from it *)

(* Whatever is delivered late, twice or never, whoever fails, is slow or shuts
   down, and whatever the player's threads say when, every peer's queue, playback,
   operation and stream and every message stay what their types in the code say, and
   an operation counts answers of the peers it expects only (mark_status,
   remove_expected_peer). *)
THEOREM BufferTypeCorrect == Spec => []TypeOK
<1>1. Inv => TypeOK
  BY DEF Inv, PeerFits, OperationFits, TypeOK
<1>2. Inv /\ [Next]_vars => Inv'
  BY InvStep
<1>3. QED
  BY <1>1, <1>2, InvInit, PTL DEF Spec

(* In a room of any size and links, nothing plays anywhere that was not committed,
   and every commit had a strict majority of the peers expected at the time, each of
   whom had prepared the stream for this very operation (quorum, mark_status,
   remove_expected_peer, handle_audio_player_events). *)
THEOREM QuorumBeforePlayback == Spec => []NothingPlaysWithoutQuorum
<1>1. Inv => NothingPlaysWithoutQuorum
  <2> SUFFICES ASSUME Inv PROVE NothingPlaysWithoutQuorum
    OBVIOUS
  <2>1. \A c \in log.committed :
          /\ c.ready \subseteq c.expected
          /\ 2 * Cardinality(c.ready) > Cardinality(c.expected)
          /\ \A q \in c.ready : <<c.operation, q>> \in log.prepared
    BY DEF Inv, HistoryFits
  <2>2. ASSUME NEW p \in Peer, peer[p].playback # NoPlayback, peer[p].playback.playing
        PROVE  Started(log, peer[p].playback.session, peer[p].playback.track)
    BY <2>2 DEF Inv, PeerFits, PlaybackFits
  <2>3. QED
    BY <2>1, <2>2 DEF NothingPlaysWithoutQuorum, Started
<1>2. Inv /\ [Next]_vars => Inv'
  BY InvStep
<1>3. QED
  BY <1>1, <1>2, InvInit, PTL DEF Spec

(* No operation is committed twice, or committed and cancelled, whichever of ready,
   failure, timeout, departure and a rival's prepare its leader meets first
   (resolve_buffer_operation, skip_buffer_operation, abandon_local_operation). *)
THEOREM OperationsEnd == Spec => []OperationsEndOnce
<1>1. Inv => OperationsEndOnce
  BY DEF Inv, HistoryFits, OperationsEndOnce
<1>2. Inv /\ [Next]_vars => Inv'
  BY InvStep
<1>3. QED
  BY <1>1, <1>2, InvInit, PTL DEF Spec

(* Every item of the queue is at every peer until it was skipped, or it or another
   item by which the same peer asked for the same track was started: no queue that is
   published, applied or cut loses any other item (remove_started_playback_queue_item,
   remove_buffer_queue_item, apply_remote_queue_state). *)
THEOREM ItemsStay == Spec => []ItemsAreNotLost
<1>1. Inv => ItemsAreNotLost
  <2> SUFFICES ASSUME Inv, NEW p \in Peer, NEW i \in DOMAIN InitQueue
               PROVE  \/ InQueue(peer[p].music.queue, InitQueue[i])
                      \/ InitQueue[i] \in log.skipped
                      \/ \E c \in log.committed : SameRequest(InitQueue[i], c.track)
    BY DEF ItemsAreNotLost
  <2>1. QueueFits(peer[p].music.queue, log)
    BY DEF Inv, PeerFits
  <2>2. QED
    BY <2>1 DEF QueueFits, Gone
<1>2. Inv /\ [Next]_vars => Inv'
  BY InvStep
<1>3. QED
  BY <1>1, <1>2, InvInit, PTL DEF Spec

(* No step of any peer replaces a playback by a state issued before it: what is
   paused, resumed, seeked or received is later than what it replaces
   (should_apply_playback_state, pause_playback_for_vote). *)
THEOREM PlaybackIsMonotonic == Spec => PlaybackNeverRollsBack
<1> DEFINE A == \A p \in Peer :
       LET old == peer[p].playback
           new == peer'[p].playback
       IN  old # NoPlayback => new # NoPlayback /\ new.issued_at >= old.issued_at
<1>1. Inv /\ [Next]_vars => Inv' /\ A
  BY InvStep DEF KeepsTime, NotOlder
<1>2. PlaybackNeverRollsBack <=> [][A]_vars
  BY DEF PlaybackNeverRollsBack
<1> HIDE DEF A
<1>3. QED
  BY <1>1, <1>2, InvInit, PTL DEF Spec
-----------------------------------------------------------------------------
(* Rivals.  A second invariant, Answered, says of every ready that a leader       *)
(* counts that its peer said it, and of every operation that its leader began it  *)
(* after whatever ready it said to a rival: two leaders that count each other     *)
(* would each have begun after the other.                                         *)

\* What is said of operations, and who says ready.
OfOperation(m) == m.type \in {"BufferPrepare", "BufferStatus"}

SaysReady(m, q) == m.type = "BufferStatus" /\ m.peer = q /\ m.status = "Ready"

SaidAfter(said, now) == \A m \in said : OfOperation(m) => m.operation[2] < now

CountsSaid(p, op, said) ==
  \A q \in Peer \ {p} :
    op.statuses[q] = "Ready" =>
      \E m \in said : SaysReady(m, q) /\ m.operation = op.operation

LeadsLater(p, op, said) ==
  \A m \in said :
    SaysReady(m, p) /\ m.operation[1] # p => m.operation[2] < op.operation[2]

AnswersFit(p, op, said, now) ==
  op # NoOperation =>
    /\ op.operation[2] < now
    /\ CountsSaid(p, op, said)
    /\ LeaderOf(op) = p => LeadsLater(p, op, said)

Answered ==
  /\ SaidAfter(messages, clock)
  /\ \A p \in Peer : AnswersFit(p, peer[p].buffer, messages, clock)

\* The same of a handling of p, which speaks for p only.
Answering(p, h) ==
  /\ clock <= h.clock
  /\ SaidAfter(messages \cup h.sent, h.clock)
  /\ AnswersFit(p, h.buffer, messages \cup h.sent, h.clock)
  /\ \A m \in h.sent : m.type = "BufferStatus" => m.peer = p

\* Between h and g p neither counts a ready of another nor takes up another
\* operation, and what it says of operations is its own word on the one it has.
KeepsTally(p, old, new) ==
  new # NoOperation =>
    /\ old # NoOperation /\ new.operation = old.operation
    /\ \A q \in Peer \ {p} : new.statuses[q] = "Ready" => old.statuses[q] = "Ready"

SaysOf(p, op, m) ==
  OfOperation(m) =>
    /\ op # NoOperation /\ m.operation = op.operation
    /\ m.type = "BufferStatus" => m.peer = p

Speaks(p, h, g) ==
  /\ h.clock <= g.clock
  /\ h.sent \subseteq g.sent
  /\ KeepsTally(p, h.buffer, g.buffer)
  /\ \A m \in g.sent \ h.sent : SaysOf(p, h.buffer, m)

(* The numbers of what is compared. *)
LEMMA HandlerNumbers ==
  ASSUME NEW h \in Handler
  PROVE  /\ h.clock \in Nat /\ h.sent \subseteq Message
         /\ h.buffer \in BufferOperation \cup {NoOperation}
         /\ h.buffer # NoOperation =>
              h.buffer.operation \in Id /\ h.buffer.operation[2] \in Nat
  BY DEF Handler, BufferOperation, Id

LEMMA MessageNumbers ==
  ASSUME NEW m \in Message, OfOperation(m)
  PROVE  m.operation \in Id /\ m.operation[2] \in Nat
<1>1. m.operation \in Id
  BY DEF OfOperation, Message
<1>2. QED
  BY <1>1 DEF Id

LEMMA SpeaksItself ==
  ASSUME NEW p, NEW h \in Handler
  PROVE  Speaks(p, h, h)
  BY HandlerNumbers DEF Speaks, KeepsTally

LEMMA SpeaksOn ==
  ASSUME NEW p, NEW h, NEW g, NEW k, Fits(p, h), Fits(p, g), Fits(p, k),
         Speaks(p, h, g), Speaks(p, g, k)
  PROVE  Speaks(p, h, k)
<1>1. h.clock \in Nat /\ g.clock \in Nat /\ k.clock \in Nat
  BY HandlerNumbers DEF Fits
<1>2. h.clock <= k.clock /\ h.sent \subseteq k.sent
  BY <1>1 DEF Speaks
<1>3. KeepsTally(p, h.buffer, k.buffer)
  BY DEF Speaks, KeepsTally
<1>4. ASSUME NEW m \in k.sent \ h.sent PROVE SaysOf(p, h.buffer, m)
  <2>1. CASE m \in g.sent
    BY <2>1 DEF Speaks
  <2>2. CASE m \notin g.sent
    <3>1. SaysOf(p, g.buffer, m) /\ KeepsTally(p, h.buffer, g.buffer)
      BY <2>2 DEF Speaks
    <3>2. QED
      BY <3>1 DEF SaysOf, KeepsTally
  <2>3. QED
    BY <2>1, <2>2
<1>5. QED
  BY <1>2, <1>3, <1>4 DEF Speaks

(* A part that says nothing of operations, and keeps or clears the one it has. *)
LEMMA SilentSpeaks ==
  ASSUME NEW p, NEW h, NEW g, Fits(p, h), Fits(p, g), Follows(p, h, g),
         g.buffer = h.buffer \/ g.buffer = NoOperation,
         h.sent \subseteq g.sent,
         \A m \in g.sent \ h.sent : ~OfOperation(m)
  PROVE  Speaks(p, h, g)
<1>1. h.clock <= g.clock
  BY DEF Follows, Extends
<1>2. KeepsTally(p, h.buffer, g.buffer)
  BY DEF KeepsTally
<1>3. QED
  BY <1>1, <1>2 DEF Speaks, SaysOf

(* What p so says leaves every answer what it was. *)
LEMMA AnsweringOn ==
  ASSUME Typed, NEW p, NEW h, NEW g, Fits(p, h), Fits(p, g),
         Answering(p, h), Speaks(p, h, g)
  PROVE  Answering(p, g)
<1> DEFINE before == messages \cup h.sent
           said == messages \cup g.sent
<1>1. /\ h.clock \in Nat /\ g.clock \in Nat /\ g.sent \subseteq Message
      /\ clock \in Nat
      /\ h.buffer # NoOperation => h.buffer.operation[2] \in Nat
  BY HandlerNumbers DEF Fits, Typed
<1>2. said \subseteq Message /\ before \subseteq said
  BY <1>1 DEF Typed, Speaks
<1>3. \A m \in said \ before : SaysOf(p, h.buffer, m)
  BY DEF Speaks
<1>4. SaidAfter(before, h.clock) /\ AnswersFit(p, h.buffer, before, h.clock)
  BY DEF Answering
<1>5. h.clock <= g.clock /\ KeepsTally(p, h.buffer, g.buffer)
  BY DEF Speaks
<1>6. \A m \in g.sent : m.type = "BufferStatus" => m.peer = p
  BY DEF Answering, Speaks, SaysOf, OfOperation
<1> HIDE DEF before, said
<1>7. SaidAfter(said, g.clock)
  <2> SUFFICES ASSUME NEW m \in said, OfOperation(m) PROVE m.operation[2] < g.clock
    BY DEF SaidAfter
  <2>1. m.operation[2] \in Nat
    BY <1>2, MessageNumbers
  <2>2. m.operation[2] < h.clock
    BY <1>3, <1>4 DEF SaidAfter, SaysOf, AnswersFit
  <2>3. QED
    BY <1>1, <1>5, <2>1, <2>2
<1>8. AnswersFit(p, g.buffer, said, g.clock)
  <2> SUFFICES ASSUME g.buffer # NoOperation
               PROVE  /\ g.buffer.operation[2] < g.clock
                      /\ CountsSaid(p, g.buffer, said)
                      /\ LeaderOf(g.buffer) = p => LeadsLater(p, g.buffer, said)
    BY DEF AnswersFit
  <2>1. /\ h.buffer # NoOperation /\ g.buffer.operation = h.buffer.operation
        /\ \A q \in Peer \ {p} : g.buffer.statuses[q] = "Ready"
                                   => h.buffer.statuses[q] = "Ready"
    BY <1>5 DEF KeepsTally
  <2>2. /\ h.buffer.operation[2] < h.clock /\ CountsSaid(p, h.buffer, before)
        /\ LeaderOf(h.buffer) = p => LeadsLater(p, h.buffer, before)
    BY <1>4, <2>1 DEF AnswersFit
  <2>3. g.buffer.operation[2] < g.clock
    BY <1>1, <1>5, <2>1, <2>2
  <2>4. CountsSaid(p, g.buffer, said)
    BY <1>2, <2>1, <2>2 DEF CountsSaid
  <2>5. ASSUME LeaderOf(g.buffer) = p PROVE LeadsLater(p, g.buffer, said)
    <3>1. h.buffer.operation[1] = p /\ LeadsLater(p, h.buffer, before)
      BY <2>1, <2>2, <2>5 DEF LeaderOf
    <3>2. QED
      BY <1>3, <2>1, <3>1 DEF LeadsLater, SaysReady, SaysOf, OfOperation
  <2>6. QED
    BY <2>3, <2>4, <2>5
<1>9. clock <= g.clock
  BY <1>1, <1>5 DEF Answering
<1>10. QED
  BY <1>6, <1>7, <1>8, <1>9 DEF Answering, said
-----------------------------------------------------------------------------
(* What the parts say of operations *)

LEMMA PublishSpeaks ==
  ASSUME NEW p, NEW h \in Handler, NEW m \in Message, SaysOf(p, h.buffer, m)
  PROVE  Speaks(p, h, Publish(h, m))
<1> DEFINE g == Publish(h, m)
<1>1. g.sent = h.sent \cup {m} /\ g.buffer = h.buffer /\ g.clock = h.clock
  BY DEF Publish, Handler
<1> HIDE DEF g
<1>2. KeepsTally(p, h.buffer, g.buffer)
  BY <1>1 DEF KeepsTally
<1>3. QED
  BY <1>1, <1>2, HandlerNumbers DEF Speaks, g

(* p's own status of the operation it has. *)
LEMMA PublishStatusSpeaks ==
  ASSUME NEW p \in Peer, NEW h \in Handler, h.buffer # NoOperation,
         NEW session \in Id, NEW status \in Status
  PROVE  Speaks(p, h, PublishStatus(p, h, h.buffer.operation, session, status))
<1> DEFINE operation == h.buffer.operation
           m == [type |-> "BufferStatus", operation |-> operation,
                 session |-> session, peer |-> p, status |-> status]
<1>1. operation \in Id
  BY HandlerNumbers
<1> HIDE DEF operation
<1>2. m \in Message /\ m.operation = operation /\ m.peer = p
  BY <1>1 DEF Message
<1>3. PublishStatus(p, h, operation, session, status) = Publish(h, m)
  BY DEF PublishStatus
<1> HIDE DEF m
<1>4. SaysOf(p, h.buffer, m)
  BY <1>2 DEF SaysOf, operation
<1>5. QED
  BY <1>2, <1>3, <1>4, PublishSpeaks DEF operation

(* A repeated prepare of the operation it has. *)
LEMMA PublishPrepareSpeaks ==
  ASSUME NEW p \in Peer, NEW h, Fits(p, h), h.buffer # NoOperation,
         NEW op \in BufferOperation, op.operation = h.buffer.operation
  PROVE  Speaks(p, h, Publish(h, Prepare(op)))
<1> DEFINE m == Prepare(op)
<1>1. m \in Message
  BY PublishPrepareFits
<1>2. m.type = "BufferPrepare" /\ m.operation = h.buffer.operation
  BY DEF Prepare
<1> HIDE DEF m
<1>3. SaysOf(p, h.buffer, m)
  BY <1>2 DEF SaysOf
<1>4. QED
  BY <1>1, <1>3, PublishSpeaks DEF m, Fits

LEMMA MarkOwnSpeaks ==
  ASSUME NEW p \in Peer, NEW h \in Handler, h.buffer # NoOperation,
         NEW status \in Status
  PROVE  LET g == MarkOwn(p, h, status)
         IN  Speaks(p, h, g) /\ g.sent = h.sent /\ g.clock = h.clock
<1> DEFINE g == MarkOwn(p, h, status)
           b == MarkStatus(h.buffer, h.buffer.operation, h.buffer.session, p, status)
<1>1. h.buffer \in BufferOperation
  BY HandlerNumbers
<1>2. /\ b.operation = h.buffer.operation
      /\ \A q \in Peer \ {p} : b.statuses[q] = h.buffer.statuses[q]
  <2>1. CASE b = h.buffer
    BY <2>1
  <2>2. CASE b = [h.buffer EXCEPT !.statuses[p] = status]
    BY <1>1, <2>2 DEF BufferOperation
  <2>3. QED
    BY <2>1, <2>2 DEF MarkStatus
<1>3. g = [h EXCEPT !.buffer = b]
  BY DEF MarkOwn, Handler
<1> HIDE DEF b, g
<1>4. g.buffer = b /\ g.sent = h.sent /\ g.clock = h.clock
  BY <1>3 DEF Handler
<1>5. KeepsTally(p, h.buffer, g.buffer)
  BY <1>2, <1>4 DEF KeepsTally
<1>6. QED
  BY <1>4, <1>5, HandlerNumbers DEF Speaks, g

(* p says of the operation it has what it marks. *)
LEMMA ReportSpeaks ==
  ASSUME NEW p \in Peer, NEW h, Fits(p, h), h.buffer # NoOperation,
         NEW status \in Status,
         status = "Ready" => <<h.buffer.operation, p>> \in h.log.prepared
  PROVE  LET g == Report(p, h, status)
         IN  /\ Fits(p, g) /\ Speaks(p, h, g) /\ g.clock = h.clock
             /\ g.buffer # NoOperation /\ g.buffer.operation = h.buffer.operation
             /\ g.log = h.log
<1> DEFINE marked == MarkOwn(p, h, status)
           g == Report(p, h, status)
<1>1. h \in Handler /\ h.buffer.session \in Id
  BY DEF Fits, Handler, BufferOperation
<1>2. /\ Fits(p, marked) /\ marked.buffer # NoOperation
      /\ marked.buffer.operation = h.buffer.operation
  BY MarkOwnFits
<1>3. Speaks(p, h, marked)
  BY <1>1, MarkOwnSpeaks
<1>4. g = PublishStatus(p, marked, h.buffer.operation, h.buffer.session, status)
  BY DEF Report
<1>5. /\ Fits(p, g) /\ g.clock = h.clock /\ g.log = h.log
      /\ g.buffer # NoOperation /\ g.buffer.operation = h.buffer.operation
  BY ReportFits
<1> HIDE DEF marked, g
<1>6. marked \in Handler
  BY <1>2 DEF Fits
<1>7. Speaks(p, marked, g)
  BY <1>1, <1>2, <1>4, <1>6, PublishStatusSpeaks
<1>8. Speaks(p, h, g)
  BY <1>2, <1>3, <1>5, <1>7, SpeaksOn
<1>9. QED
  BY <1>5, <1>8 DEF g

(* The operation is cleared and cancelled, which no one answers. *)
LEMMA CancelledSpeaks ==
  ASSUME NEW p \in Peer, NEW h, Fits(p, h), Leads(p, h.buffer)
  PROVE  LET g == Cancelled(h)
         IN  /\ Fits(p, g) /\ Speaks(p, h, g) /\ g.buffer = NoOperation
<1> DEFINE id == h.buffer.operation
           m == [type |-> "BufferCancel", operation |-> id]
           k == [h EXCEPT !.buffer = NoOperation]
           g == Cancelled(h)
<1>1. h \in Handler
  BY DEF Fits
<1>2. Fits(p, g) /\ Follows(p, h, g) /\ g.buffer = NoOperation
  BY CancelledFits
<1>3. g = [[k EXCEPT !.sent = @ \cup {m}] EXCEPT !.log.cancelled = @ \cup {id}]
  BY DEF Cancelled, PublishCancel, Publish
<1>4. m.type = "BufferCancel"
  OBVIOUS
<1> HIDE DEF m, id, g
<1>5. g.sent = h.sent \cup {m}
  BY <1>1, <1>3 DEF Handler
<1>6. ~OfOperation(m)
  BY <1>4 DEF OfOperation
<1>7. Speaks(p, h, g)
  BY <1>2, <1>5, <1>6, SilentSpeaks
<1>8. QED
  BY <1>2, <1>7 DEF g

(* Nor does anyone answer the queue that a skipped Start leaves. *)
LEMMA SkipOperationSpeaks ==
  ASSUME NEW p \in Peer, NEW h, Fits(p, h), Leads(p, h.buffer)
  PROVE  LET g == SkipOperation(h)
         IN  Fits(p, g) /\ Speaks(p, h, g)
<1> DEFINE op == h.buffer
           cleared == Cancelled(h)
           m == RemoveBufferQueueItem(cleared.music, op.track, h.clock)
           removed == [cleared EXCEPT !.music = m, !.log.skipped = @ \cup {op.track}]
           published == PublishQueue(removed)
           g == SkipOperation(h)
<1>1. /\ h \in Handler /\ h.clock \in Nat /\ op.track \in Item
  BY DEF Fits, Handler, Leads, BufferOperation
<1>2. Fits(p, cleared) /\ Speaks(p, h, cleared) /\ cleared.buffer = NoOperation
  BY CancelledSpeaks
<1>3. g = IF op.kind = "Start" THEN Stamped(published) ELSE cleared
  BY DEF SkipOperation, Cancelled
<1>4. Fits(p, g) /\ Follows(p, h, g) /\ g.buffer = NoOperation
  BY SkipOperationFits
<1> HIDE DEF cleared, g
<1>5. CASE op.kind = "Start"
  <2>1. cleared \in Handler /\ m \in Music
    BY <1>1, <1>2, RemovesOnlyItem DEF Fits, Handler
  <2> HIDE DEF m, op
  <2>2. removed \in Handler /\ removed.sent = cleared.sent
    BY <1>1, <2>1 DEF Handler, Log
  <2> HIDE DEF removed
  <2>3. /\ published \in Handler /\ removed.sent \subseteq published.sent
        /\ \A n \in published.sent \ removed.sent : n.type = "QueueState"
    BY <2>2, PublishQueueFits
  <2> HIDE DEF published
  <2>4. g.sent = published.sent
    BY <1>3, <1>5, <2>3 DEF Stamped, Handler, op
  <2>5. /\ cleared.sent \subseteq g.sent
        /\ \A n \in g.sent \ cleared.sent : ~OfOperation(n)
    BY <2>2, <2>3, <2>4 DEF OfOperation
  <2>6. cleared.clock = h.clock /\ h.clock <= g.clock
    BY <1>4, CancelledFits DEF Follows, Extends, cleared
  <2>7. Speaks(p, cleared, g)
    BY <1>2, <1>4, <2>5, <2>6 DEF Speaks, KeepsTally, SaysOf
  <2>8. Speaks(p, h, g)
    BY <1>2, <1>4, <2>7, SpeaksOn
  <2>9. QED
    BY <1>4, <2>8 DEF g
<1>6. CASE op.kind # "Start"
  BY <1>2, <1>3, <1>6 DEF g
<1>7. QED
  BY <1>5, <1>6

(* Nor the queue and the playback state of a commit. *)
LEMMA CommitOperationSpeaks ==
  ASSUME NEW p \in Peer, NEW h, Fits(p, h), Leads(p, h.buffer),
         Quorum(h.buffer) = "Ready"
  PROVE  LET g == CommitOperation(p, h)
         IN  Fits(p, g) /\ Speaks(p, h, g)
<1> DEFINE op == h.buffer
           state == [session |-> op.session, leader |-> p, track |-> op.track,
                     issued_at |-> h.clock, playing |-> TRUE]
           commit == [operation |-> op.operation, session |-> op.session,
                      track |-> op.track, expected |-> op.expected,
                      ready |-> WithStatus(op, "Ready")]
           m == RemoveBufferQueueItem(h.music, op.track, h.clock)
           removed == [h EXCEPT !.music = m]
           queued == IF op.kind = "Start" THEN PublishQueue(removed) ELSE h
           msg == [type |-> "PlaybackState", state |-> state]
           k == [queued EXCEPT !.playback = state, !.buffer = NoOperation,
                               !.log.committed = @ \cup {commit}]
           g == CommitOperation(p, h)
<1>1. h \in Handler /\ h.clock \in Nat /\ h.music \in Music
  BY DEF Fits, Handler
<1>2. Fits(p, g) /\ Follows(p, h, g)
  BY CommitOperationFits
<1>3. g = [Publish(k, msg) EXCEPT !.clock = @ + 1]
  BY DEF CommitOperation, Stamped, PublishPlayback
<1>4. msg.type = "PlaybackState"
  OBVIOUS
<1>5. /\ queued \in Handler /\ h.sent \subseteq queued.sent
      /\ \A n \in queued.sent \ h.sent : n.type = "QueueState"
  <2>1. CASE op.kind = "Start"
    <3>1. m \in Music
      BY <1>1, RemovesOnlyItem
    <3> HIDE DEF m
    <3>2. removed \in Handler /\ removed.sent = h.sent
      BY <1>1, <3>1 DEF Handler
    <3>3. queued = PublishQueue(removed)
      BY <2>1
    <3> HIDE DEF removed, queued
    <3>4. QED
      BY <3>2, <3>3, PublishQueueFits
  <2>2. CASE op.kind # "Start"
    BY <1>1, <2>2
  <2>3. QED
    BY <2>1, <2>2
<1> HIDE DEF queued, g, op, state, commit, msg
<1>6. k.sent = queued.sent /\ k.buffer = NoOperation /\ "clock" \in DOMAIN k
      /\ "sent" \in DOMAIN k /\ "buffer" \in DOMAIN k
  BY <1>5 DEF Handler
<1> HIDE DEF k
<1>7. g.sent = queued.sent \cup {msg} /\ g.buffer = NoOperation
  BY <1>3, <1>6 DEF Publish
<1>8. \A n \in g.sent \ h.sent : ~OfOperation(n)
  BY <1>4, <1>5, <1>7 DEF OfOperation
<1>9. Speaks(p, h, g)
  BY <1>2, <1>5, <1>7, <1>8, SilentSpeaks
<1>10. QED
  BY <1>2, <1>9 DEF g

(* The player says nothing to the room. *)
LEMMA PrepareStreamSilent ==
  ASSUME NEW p, NEW h \in Handler, NEW operation, NEW session, NEW track, NEW target
  PROVE  LET g == PrepareStream(p, h, operation, session, track, target)
         IN  g.sent = h.sent /\ g.buffer = h.buffer /\ g.clock = h.clock
<1> DEFINE fresh == [session |-> session, track |-> track, operation |-> operation,
                     phase |-> "Loading", reported |-> FALSE, broken |-> FALSE]
           prepared == [kind |-> "Prepared", operation |-> operation,
                        session |-> session, track |-> track]
           g == PrepareStream(p, h, operation, session, track, target)
           restarts == [h EXCEPT !.stream = fresh]
           goesOn == [h EXCEPT !.stream.phase = "Loading"]
           has == HasPrepared(p, h, operation)
           isReady == [has EXCEPT !.events = Append(@, prepared),
                                  !.stream.phase = "Ready"]
<1>1. g \in {restarts, goesOn, isReady}
  BY DEF PrepareStream
<1> HIDE DEF g, fresh, prepared
<1>2. /\ restarts.sent = h.sent /\ restarts.buffer = h.buffer
      /\ restarts.clock = h.clock
      /\ goesOn.sent = h.sent /\ goesOn.buffer = h.buffer /\ goesOn.clock = h.clock
  BY DEF Handler
<1>3. /\ isReady.sent = h.sent /\ isReady.buffer = h.buffer /\ isReady.clock = h.clock
  BY DEF HasPrepared, Handler
<1> HIDE DEF restarts, goesOn, isReady
<1>4. QED
  BY <1>1, <1>2, <1>3 DEF g

LEMMA PrepareStreamSpeaks ==
  ASSUME NEW p \in Peer, NEW h, Fits(p, h), NEW operation \in Id \cup {NoOperation},
         NEW session \in Id, NEW track \in Item, NEW target,
         operation = NoOperation /\ target = "Buffered" =>
           h.stream = NoOperation \/ h.stream.session # session
  PROVE  LET g == PrepareStream(p, h, operation, session, track, target)
         IN  Fits(p, g) /\ Speaks(p, h, g)
<1> DEFINE g == PrepareStream(p, h, operation, session, track, target)
<1>1. Fits(p, g) /\ Follows(p, h, g)
  BY PrepareStreamFits
<1>2. g.sent = h.sent /\ g.buffer = h.buffer
  BY PrepareStreamSilent DEF Fits
<1> HIDE DEF g
<1>3. Speaks(p, h, g)
  BY <1>1, <1>2, SilentSpeaks
<1>4. QED
  BY <1>1, <1>3 DEF g
-----------------------------------------------------------------------------
(* What deciding and beginning say *)

LEMMA ResolveSpeaks ==
  ASSUME NEW p \in Peer, NEW h, Fits(p, h)
  PROVE  LET g == ResolveBufferOperation(p, h)
         IN  Fits(p, g) /\ Speaks(p, h, g)
<1> DEFINE op == h.buffer
           waits == op.statuses[p] = "Buffering"
           extended == [h EXCEPT !.buffer = ExtendDeadline(@)]
           told == Report(p, extended, "Buffering")
           behind == IF waits THEN extended ELSE told
           prepares == PrepareStream(p, behind, op.operation, op.session, op.track,
                                     "Outside")
           asked == Publish(extended, Prepare(op))
           again == PublishStatus(p, asked, op.operation, op.session, "Buffering")
           repeats == Publish(h, Prepare(op))
           g == ResolveBufferOperation(p, h)
<1>1. h \in Handler
  BY DEF Fits
<1>2. Fits(p, g)
  BY ResolveFits
<1>3. CASE ~Leads(p, op)
  <2>1. g = h
    BY <1>3 DEF ResolveBufferOperation
  <2> HIDE DEF g
  <2>2. QED
    BY <1>1, <1>2, <2>1, SpeaksItself DEF g
<1>4. CASE Leads(p, op)
  <2>1. op \in BufferOperation /\ op # NoOperation
    BY <1>1, <1>4 DEF Handler, Leads
  <2>2. op.operation \in Id /\ op.session \in Id /\ op.track \in Item
    BY <2>1 DEF BufferOperation
  <2>3. /\ ExtendDeadline(op) \in BufferOperation
        /\ ExtendDeadline(op).operation = op.operation
        /\ ExtendDeadline(op).statuses = op.statuses
        /\ ExtendDeadline(op).expected = op.expected
    BY <2>1 DEF ExtendDeadline, BufferOperation
  <2>4. ExtendDeadline(op) # NoOperation
    BY <2>3, BufferAssumption
  <2>5. OperationFits(ExtendDeadline(op), h.log)
    <3>1. OperationFits(op, h.log)
      BY DEF Fits, PeerFits
    <3>2. QED
      BY <2>1, <2>3, <3>1 DEF OperationFits
  <2>6. Fits(p, extended) /\ Follows(p, h, extended)
    BY <2>1, <2>3, <2>5, TallyFits
  <2>7. /\ extended.buffer = ExtendDeadline(op) /\ extended.sent = h.sent
        /\ extended.clock = h.clock
    BY <1>1 DEF Handler
  <2>8. (g = CommitOperation(p, h) /\ Quorum(op) = "Ready")
          \/ g \in {behind, prepares, SkipOperation(h), again, repeats}
    <3> DEFINE commits == CommitOperation(p, h)
               skips == SkipOperation(h)
    <3>1. g = IF Quorum(op) = "Ready"
              THEN IF p \in Audio /\ op.statuses[p] # "Ready" THEN behind
                   ELSE IF p \in Audio /\ ~HasPreparedStream(h) THEN prepares
                   ELSE commits
              ELSE IF Quorum(op) = "Impossible" THEN skips
              ELSE IF Quorum(op) = "TimedOut" THEN IF waits THEN again ELSE skips
              ELSE repeats
      BY <1>4 DEF ResolveBufferOperation, Quorum
    <3> HIDE DEF g, behind, prepares, commits, skips, again, repeats
    <3>2. QED
      BY <3>1 DEF commits, skips
  <2> HIDE DEF extended, g
  <2>9. Speaks(p, h, extended)
    <3>1. KeepsTally(p, h.buffer, extended.buffer)
      BY <2>1, <2>3, <2>7 DEF KeepsTally
    <3>2. QED
      BY <1>1, <2>7, <3>1, HandlerNumbers DEF Speaks
  <2>10. Fits(p, behind) /\ Speaks(p, h, behind)
    <3>1. extended.buffer # NoOperation /\ "Buffering" \in Status
      BY <2>4, <2>7 DEF Status
    <3>2. Fits(p, told) /\ Speaks(p, extended, told)
      BY <2>6, <3>1, ReportSpeaks
    <3> HIDE DEF told
    <3>3. Speaks(p, h, told)
      BY <2>6, <2>9, <3>2, SpeaksOn
    <3>4. QED
      BY <2>6, <2>9, <3>2, <3>3
  <2> HIDE DEF behind
  <2>11. CASE g = behind
    BY <2>10, <2>11 DEF g
  <2>12. CASE g = prepares
    <3>1. Fits(p, prepares) /\ Speaks(p, behind, prepares)
      BY <2>2, <2>10, PrepareStreamSpeaks
    <3> HIDE DEF prepares
    <3>2. QED
      BY <2>10, <2>12, <3>1, SpeaksOn DEF g
  <2>13. CASE g = CommitOperation(p, h) /\ Quorum(op) = "Ready"
    BY <1>4, <2>13, CommitOperationSpeaks DEF g
  <2>14. CASE g = SkipOperation(h)
    BY <1>4, <2>14, SkipOperationSpeaks DEF g
  <2>15. CASE g = again
    <3>1. Fits(p, asked) /\ asked.buffer = extended.buffer
      BY <2>1, <2>6, PublishPrepareFits
    <3>2. Speaks(p, extended, asked)
      BY <2>1, <2>3, <2>4, <2>6, <2>7, PublishPrepareSpeaks
    <3> HIDE DEF asked
    <3>3. /\ asked \in Handler /\ asked.buffer # NoOperation
          /\ asked.buffer.operation = op.operation
      BY <2>3, <2>4, <2>7, <3>1 DEF Fits
    <3>4. Speaks(p, asked, again)
      BY <2>2, <3>3, PublishStatusSpeaks DEF Status
    <3>5. Speaks(p, h, asked)
      BY <2>6, <2>9, <3>1, <3>2, SpeaksOn
    <3>6. Fits(p, again)
      BY <1>2, <2>15 DEF g
    <3> HIDE DEF again
    <3>7. QED
      BY <2>15, <3>1, <3>4, <3>5, <3>6, SpeaksOn DEF g
  <2>16. CASE g = repeats
    <3>1. Speaks(p, h, repeats)
      BY <2>1, PublishPrepareSpeaks
    <3> HIDE DEF repeats
    <3>2. QED
      BY <1>2, <2>16, <3>1 DEF g
  <2>17. QED
    BY <2>8, <2>11, <2>12, <2>13, <2>14, <2>15, <2>16
<1>5. QED
  BY <1>3, <1>4

(* A new operation is later than whatever was said of any other, and counts no
   one yet. *)
LEMMA BegunAnswers ==
  ASSUME Typed, NEW p \in Peer, NEW h, Fits(p, h), Answering(p, h),
         NEW kind \in Kind, NEW track \in Item,
         kind # "Start" => h.playback # NoPlayback
  PROVE  LET g == Begun(p, h, kind, track)
         IN  Fits(p, g) /\ Answering(p, g)
<1> DEFINE id == <<p, h.clock>>
           g == Begun(p, h, kind, track)
           said == messages \cup g.sent
<1>1. /\ Fits(p, g) /\ g.clock = h.clock + 1
      /\ g.buffer # NoOperation /\ g.buffer.operation = id
      /\ \A q \in Peer \ {p} : g.buffer.statuses[q] = "None"
      /\ \A m \in g.sent \ h.sent :
           /\ m.operation = id
           /\ m.type = "BufferPrepare" \/
                (m.type = "BufferStatus" /\ m.peer = p /\ m.status = "Buffering")
  BY BegunFits
<1>2. id[1] = p /\ id[2] = h.clock /\ h.clock \in Nat
  BY DEF Fits, Handler
<1> HIDE DEF g, id
<1>3. /\ SaidAfter(messages \cup h.sent, h.clock)
      /\ \A m \in h.sent : m.type = "BufferStatus" => m.peer = p
  BY DEF Answering
<1>4. said \subseteq Message
  BY <1>1 DEF Fits, Handler, Typed
<1>5. \A m \in said : m \in messages \cup h.sent \/ m \in g.sent \ h.sent
  OBVIOUS
<1> HIDE DEF said
<1>6. SaidAfter(said, g.clock)
  <2> SUFFICES ASSUME NEW m \in said, OfOperation(m) PROVE m.operation[2] < g.clock
    BY DEF SaidAfter
  <2>1. m.operation[2] \in Nat
    BY <1>4, MessageNumbers
  <2>2. m.operation[2] < h.clock \/ m.operation[2] = h.clock
    BY <1>1, <1>2, <1>3, <1>5 DEF SaidAfter
  <2>3. QED
    BY <1>1, <1>2, <2>1, <2>2
<1>7. \A m \in g.sent : m.type = "BufferStatus" => m.peer = p
  BY <1>1, <1>3
<1>8. g.buffer.operation[2] < g.clock
  BY <1>1, <1>2
<1>9. CountsSaid(p, g.buffer, said)
  BY <1>1 DEF CountsSaid
<1>10. LeadsLater(p, g.buffer, said)
  <2> SUFFICES ASSUME NEW m \in said, SaysReady(m, p)
               PROVE  m.operation[2] < g.buffer.operation[2]
    BY DEF LeadsLater
  <2>1. m \in messages \cup h.sent
    BY <1>1, <1>5 DEF SaysReady
  <2>2. m.operation[2] < h.clock
    BY <1>3, <2>1 DEF SaidAfter, SaysReady, OfOperation
  <2>3. QED
    BY <1>1, <1>2, <2>2
<1>11. AnswersFit(p, g.buffer, said, g.clock)
  BY <1>8, <1>9, <1>10 DEF AnswersFit
<1>12. clock <= g.clock
  BY <1>1, <1>2 DEF Answering, Typed
<1>13. QED
  BY <1>1, <1>6, <1>7, <1>11, <1>12 DEF Answering, said, g

LEMMA BeginAnswers ==
  ASSUME Typed, NEW p \in Peer, NEW h, Fits(p, h), Answering(p, h),
         NEW kind \in Kind, NEW track \in Item, NEW target,
         kind # "Start" => h.playback # NoPlayback
  PROVE  LET g == BeginBufferOperation(p, h, kind, track, target)
         IN  Fits(p, g) /\ Answering(p, g)
<1> DEFINE id == <<p, h.clock>>
           session == IF kind = "Start" THEN id ELSE h.playback.session
           begun == Begun(p, h, kind, track)
           has == HasPrepared(p, begun, id)
           ready == MarkOwn(p, has, "Ready")
           resolved == ResolveBufferOperation(p, ready)
           prepares == PrepareStream(p, begun, id, session, track, target)
           g == BeginBufferOperation(p, h, kind, track, target)
<1>1. id \in Id /\ id # NoOperation /\ session \in Id
  BY BufferAssumption DEF Fits, Handler, Id, PlaybackState
<1>2. g = IF p \notin Audio THEN resolved
          ELSE IF p \in MediaFails THEN begun ELSE prepares
  BY BeginsBegun
<1>3. Fits(p, begun) /\ begun.buffer # NoOperation /\ begun.buffer.operation = id
  BY BegunFits
<1>4. Answering(p, begun)
  BY BegunAnswers
<1> HIDE DEF id, session, begun, g
<1>5. CASE g = resolved
  <2>1. /\ Fits(p, has) /\ Follows(p, begun, has) /\ has.buffer = begun.buffer
        /\ <<id, p>> \in has.log.prepared
    BY <1>1, <1>3, HasPreparedFits
  <2>2. has.sent = begun.sent
    BY <1>3 DEF HasPrepared, Fits, Handler
  <2> HIDE DEF has
  <2>3. Speaks(p, begun, has)
    BY <1>3, <2>1, <2>2, SilentSpeaks
  <2>4. Fits(p, ready)
    BY <1>3, <2>1, MarkOwnFits DEF Status
  <2>5. Speaks(p, has, ready)
    BY <1>3, <2>1, MarkOwnSpeaks DEF Status, Fits
  <2> HIDE DEF ready
  <2>6. Fits(p, resolved) /\ Speaks(p, ready, resolved)
    BY <2>4, ResolveSpeaks
  <2> HIDE DEF resolved
  <2>7. Answering(p, has)
    BY <1>3, <1>4, <2>1, <2>3, AnsweringOn
  <2>8. Answering(p, ready)
    BY <2>1, <2>4, <2>5, <2>7, AnsweringOn
  <2>9. Answering(p, resolved)
    BY <2>4, <2>6, <2>8, AnsweringOn
  <2>10. QED
    BY <1>5, <2>6, <2>9 DEF g
<1>6. CASE g = prepares
  <2>1. Fits(p, prepares) /\ Speaks(p, begun, prepares)
    BY <1>1, <1>3, PrepareStreamSpeaks
  <2> HIDE DEF prepares
  <2>2. QED
    BY <1>3, <1>4, <1>6, <2>1, AnsweringOn DEF g
<1>7. CASE g = begun
  BY <1>3, <1>4, <1>7 DEF g
<1>8. QED
  BY <1>2, <1>5, <1>6, <1>7
-----------------------------------------------------------------------------
(* What the parts of the tick say *)

LEMMA StopPlayerSpeaks ==
  ASSUME NEW p, NEW h, Fits(p, h), NEW failed \in SUBSET Id
  PROVE  /\ LET g == StopPlayer(h)
            IN  Fits(p, g) /\ Speaks(p, h, g)
         /\ LET g == [StopPlayer(h) EXCEPT !.failed = failed]
            IN  Fits(p, g) /\ Speaks(p, h, g) /\ g.buffer = h.buffer
<1> DEFINE g == StopPlayer(h)
           k == [g EXCEPT !.failed = failed]
<1>1. h \in Handler
  BY DEF Fits
<1>2. /\ Fits(p, g) /\ Follows(p, h, g) /\ g.buffer = h.buffer
      /\ Fits(p, k) /\ Follows(p, h, k) /\ k.buffer = h.buffer
  BY StopPlayerFits
<1>3. g.sent = h.sent /\ k.sent = h.sent
  BY <1>1 DEF StopPlayer, Handler
<1> HIDE DEF g, k
<1>4. Speaks(p, h, g)
  BY <1>2, <1>3, SilentSpeaks
<1>5. Speaks(p, h, k)
  BY <1>2, <1>3, SilentSpeaks
<1>6. QED
  BY <1>2, <1>4, <1>5 DEF g, k

(* A playback state is published or kept to oneself, stamped either way. *)
LEMMA IssueSpeaks ==
  ASSUME NEW p \in Peer, NEW h, Fits(p, h), NEW state \in PlaybackState,
         state.issued_at = h.clock,
         state.track # NoTrack => Started(h.log, state.session, state.track),
         state.playing => state.track # NoTrack
  PROVE  LET k == [h EXCEPT !.playback = state]
         IN  /\ Fits(p, Stamped(k)) /\ Speaks(p, h, Stamped(k))
             /\ LET g == Stamped(PublishPlayback(k, state))
                IN  Fits(p, g) /\ Speaks(p, h, g) /\ g.playback = state
<1> DEFINE k == [h EXCEPT !.playback = state]
           m == [type |-> "PlaybackState", state |-> state]
           published == Publish(k, m)
           g == Stamped(published)
<1>1. h \in Handler
  BY DEF Fits
<1>2. g = Stamped(PublishPlayback(k, state))
  BY DEF PublishPlayback
<1>3. /\ Fits(p, Stamped(k)) /\ Follows(p, h, Stamped(k))
      /\ Fits(p, g) /\ Follows(p, h, g) /\ g.buffer = h.buffer /\ g.playback = state
  BY <1>2, IssueFits
<1>4. m \in Message /\ ~OfOperation(m)
  BY DEF Message, OfOperation
<1> HIDE DEF m
<1>5. k \in Handler /\ k.sent = h.sent /\ k.buffer = h.buffer
  BY <1>1 DEF Handler
<1> HIDE DEF k
<1>6. Stamped(k).sent = h.sent /\ Stamped(k).buffer = h.buffer
  BY <1>5 DEF Stamped, Handler
<1>7. published \in Handler /\ published.sent = h.sent \cup {m}
  BY <1>4, <1>5 DEF Publish, Handler
<1> HIDE DEF published
<1>8. g.sent = h.sent \cup {m}
  BY <1>7 DEF Stamped, Handler
<1> HIDE DEF g
<1>9. Speaks(p, h, Stamped(k))
  BY <1>3, <1>6, SilentSpeaks
<1>10. Speaks(p, h, g)
  BY <1>3, <1>4, <1>8, SilentSpeaks
<1>11. QED
  BY <1>2, <1>3, <1>9, <1>10 DEF k

LEMMA StopCurrentSpeaks ==
  ASSUME NEW p \in Peer, NEW h, Fits(p, h)
  PROVE  LET g == StopCurrentPlayback(p, h)
         IN  Fits(p, g) /\ Speaks(p, h, g)
<1> DEFINE stopped == StopPlayer(h)
           idle == IdleState(p, h.clock)
           g == StopCurrentPlayback(p, h)
<1>1. h.clock \in Nat
  BY DEF Fits, Handler
<1>2. Fits(p, stopped) /\ Speaks(p, h, stopped)
  BY StopPlayerSpeaks
<1>3. stopped.clock = h.clock
  BY StopPlayerFits
<1>4. g = Stamped(PublishPlayback([stopped EXCEPT !.playback = idle], idle))
  BY DEF StopCurrentPlayback
<1>5. /\ idle \in PlaybackState /\ idle.issued_at = h.clock /\ idle.track = NoTrack
      /\ ~idle.playing
  BY <1>1, IdleStateType
<1> HIDE DEF stopped, idle, g
<1>6. Fits(p, g) /\ Speaks(p, stopped, g)
  BY <1>2, <1>3, <1>4, <1>5, IssueSpeaks
<1>7. QED
  BY <1>2, <1>6, SpeaksOn DEF g

LEMMA PauseSpeaks ==
  ASSUME NEW p \in Peer, NEW h, Fits(p, h), h.playback # NoPlayback
  PROVE  LET g == PausePlayback(p, h)
         IN  Fits(p, g) /\ Speaks(p, h, g) /\ g.playback # NoPlayback
<1> DEFINE state == Paused(h.playback, p, h.clock)
           k == [h EXCEPT !.playback = state]
           m == [type |-> "PlaybackState", state |-> state]
           published == Publish(k, m)
           g == PausePlayback(p, h)
<1>1. h \in Handler /\ h.playback \in PlaybackState /\ h.clock \in Nat
  BY DEF Fits, Handler
<1>2. state \in PlaybackState
  BY <1>1 DEF Paused, PlaybackState
<1>3. g = Stamped(published)
  BY DEF PausePlayback, PublishPlayback
<1>4. Fits(p, g) /\ Follows(p, h, g) /\ g.playback # NoPlayback /\ g.buffer = h.buffer
  BY PauseFits
<1>5. m \in Message /\ ~OfOperation(m)
  BY <1>2 DEF Message, OfOperation
<1> HIDE DEF m, g, state
<1>6. k \in Handler /\ k.sent = h.sent
  BY <1>1, <1>2 DEF Handler
<1> HIDE DEF k
<1>7. published \in Handler /\ published.sent = h.sent \cup {m}
  BY <1>5, <1>6 DEF Publish, Handler
<1> HIDE DEF published
<1>8. g.sent = h.sent \cup {m}
  BY <1>3, <1>7 DEF Stamped, Handler
<1>9. Speaks(p, h, g)
  BY <1>4, <1>5, <1>8, SilentSpeaks
<1>10. QED
  BY <1>4, <1>9 DEF g

(* Whoever ends with its event loop says nothing more. *)
LEMMA DieSpeaks ==
  ASSUME NEW p, NEW h, Fits(p, h)
  PROVE  LET g == [h EXCEPT !.alive = @ \ {p}]
         IN  Fits(p, g) /\ Speaks(p, h, g)
<1> DEFINE g == [h EXCEPT !.alive = @ \ {p}]
<1>1. Fits(p, g) /\ Follows(p, h, g)
  BY DieFits
<1>2. g.sent = h.sent /\ g.buffer = h.buffer
  BY DEF Fits, Handler
<1> HIDE DEF g
<1>3. QED
  BY <1>1, <1>2, SilentSpeaks DEF g

LEMMA StartNextAnswers ==
  ASSUME Typed, NEW p \in Peer, NEW h, Fits(p, h), Answering(p, h)
  PROVE  /\ Fits(p, StartNextIfIdle(p, h)) /\ Answering(p, StartNextIfIdle(p, h))
         /\ Fits(p, StartNextOrDie(p, h)) /\ Answering(p, StartNextOrDie(p, h))
<1> DEFINE next == StartNextIfIdle(p, h)
           last == [next EXCEPT !.alive = @ \ {p}]
<1>1. Fits(p, next) /\ Answering(p, next)
  <2>1. CASE next = h
    BY <2>1
  <2>2. CASE next # h
    <3> DEFINE track == Head(h.music.queue)
               begun == BeginBufferOperation(p, h, "Start", track, "Outside")
    <3>1. h.music.queue # <<>> /\ next = begun
      BY <2>2 DEF StartNextIfIdle
    <3>2. track \in Item
      BY <3>1 DEF Fits, Handler, Music
    <3>3. Fits(p, begun) /\ Answering(p, begun)
      BY <3>2, BeginAnswers DEF Kind
    <3>4. QED
      BY <3>1, <3>3
  <2>3. QED
    BY <2>1, <2>2
<1> HIDE DEF next
<1>2. Fits(p, last) /\ Speaks(p, next, last)
  BY <1>1, DieSpeaks
<1>3. StartNextOrDie(p, h) \in {next, last}
  BY DEF StartNextOrDie, next
<1> HIDE DEF last
<1>4. Answering(p, last)
  BY <1>1, <1>2, AnsweringOn
<1>5. QED
  BY <1>1, <1>2, <1>3, <1>4 DEF next

LEMMA PrepareFailureSpeaks ==
  ASSUME NEW p \in Peer, NEW h, Fits(p, h), h.buffer # NoOperation
  PROVE  LET g == HandlePrepareFailure(p, h)
         IN  Fits(p, g) /\ Speaks(p, h, g)
<1> DEFINE sessions == h.failed \cup {h.buffer.session}
           stopped == [StopPlayer(h) EXCEPT !.failed = sessions]
           g == HandlePrepareFailure(p, h)
<1>1. h \in Handler
  BY DEF Fits
<1>2. sessions \in SUBSET Id
  BY <1>1 DEF Handler, BufferOperation
<1>3. StopPlayer(h).failed = h.failed
  BY <1>1 DEF StopPlayer, Handler
<1>4. g = IF Leads(p, h.buffer) THEN SkipOperation(stopped)
          ELSE [Report(p, stopped, "Failed") EXCEPT !.buffer = NoOperation]
  BY <1>3 DEF HandlePrepareFailure
<1> HIDE DEF sessions
<1>5. Fits(p, stopped) /\ Speaks(p, h, stopped) /\ stopped.buffer = h.buffer
  BY <1>2, StopPlayerSpeaks
<1> HIDE DEF stopped, g
<1>6. CASE Leads(p, h.buffer)
  <2>1. Fits(p, g) /\ Speaks(p, stopped, g)
    BY <1>4, <1>5, <1>6, SkipOperationSpeaks
  <2>2. QED
    BY <1>5, <2>1, SpeaksOn DEF g
<1>7. CASE ~Leads(p, h.buffer)
  <2> DEFINE answered == Report(p, stopped, "Failed")
  <2>1. Fits(p, answered) /\ Speaks(p, stopped, answered)
    <3>1. "Failed" \in Status /\ "Failed" # "Ready"
      BY DEF Status
    <3>2. QED
      BY <1>5, <3>1, ReportSpeaks
  <2>2. g = [answered EXCEPT !.buffer = NoOperation]
    BY <1>4, <1>7
  <2> HIDE DEF answered
  <2>3. Fits(p, g) /\ Follows(p, answered, g) /\ g.buffer = NoOperation
    BY <2>1, <2>2, ClearFits
  <2>4. g.sent = answered.sent
    BY <2>1, <2>2 DEF Fits, Handler
  <2>5. Speaks(p, answered, g)
    BY <2>1, <2>3, <2>4, SilentSpeaks
  <2>6. Speaks(p, stopped, g)
    BY <1>5, <2>1, <2>3, <2>5, SpeaksOn
  <2>7. QED
    BY <1>5, <2>3, <2>6, SpeaksOn DEF g
<1>8. QED
  BY <1>6, <1>7

LEMMA StreamFailureAnswers ==
  ASSUME Typed, NEW p \in Peer, NEW h, Fits(p, h), Answering(p, h), NEW e \in Event
  PROVE  LET g == HandleStreamFailure(p, h, e)
         IN  Fits(p, g) /\ Answering(p, g)
<1> DEFINE sessions == h.failed \cup {e.session}
           stopped == [StopPlayer(h) EXCEPT !.failed = sessions]
           idle == StopCurrentPlayback(p, stopped)
           next == StartNextIfIdle(p, idle)
           g == HandleStreamFailure(p, h, e)
<1>1. sessions \in SUBSET Id
  BY DEF Fits, Handler, Event
<1>2. StopPlayer(h).failed = h.failed
  BY DEF StopPlayer, Fits, Handler
<1>3. g \in {h, stopped, next}
  BY <1>2 DEF HandleStreamFailure
<1> HIDE DEF sessions
<1>4. Fits(p, stopped) /\ Speaks(p, h, stopped)
  BY <1>1, StopPlayerSpeaks
<1> HIDE DEF stopped, g
<1>5. Fits(p, idle) /\ Speaks(p, stopped, idle)
  BY <1>4, StopCurrentSpeaks
<1> HIDE DEF idle
<1>6. Answering(p, stopped)
  BY <1>4, AnsweringOn
<1>7. Answering(p, idle)
  BY <1>4, <1>5, <1>6, AnsweringOn
<1>8. Fits(p, next) /\ Answering(p, next)
  BY <1>5, <1>7, StartNextAnswers
<1>9. QED
  BY <1>3, <1>4, <1>6, <1>8 DEF g

LEMMA PlayerEventAnswers ==
  ASSUME Typed, NEW p \in Peer, NEW h, Fits(p, h), Answering(p, h)
  PROVE  LET g == HandlePlayerEvent(p, h)
         IN  Fits(p, g) /\ Answering(p, g)
<1> DEFINE e == Head(h.events)
           g == [h EXCEPT !.events = Tail(@)]
           failure == HandleStreamFailure(p, g, e)
           reported == Report(p, g, "Ready")
           resolved == ResolveBufferOperation(p, reported)
           skipped == HandlePrepareFailure(p, g)
           k == HandlePlayerEvent(p, h)
<1>1. h \in Handler /\ h.events \in Seq(Event)
  BY DEF Fits, Handler
<1>2. CASE h.events = <<>>
  BY <1>2 DEF HandlePlayerEvent
<1>3. CASE h.events # <<>>
  <2>1. /\ e \in Event /\ Tail(h.events) \in Seq(Event)
        /\ e = h.events[1] /\ 1 \in DOMAIN h.events
        /\ \A i \in DOMAIN Tail(h.events) :
             i + 1 \in DOMAIN h.events /\ Tail(h.events)[i] = h.events[i + 1]
    BY <1>1, <1>3
  <2>2. /\ g \in Handler /\ g.log = h.log /\ g.clock = h.clock /\ g.buffer = h.buffer
        /\ g.playback = h.playback /\ g.music = h.music /\ g.sent = h.sent
        /\ g.events = Tail(h.events)
    BY <1>1, <2>1 DEF Handler
  <2>3. k \in {g, failure, skipped} \/
          (/\ k = resolved /\ e.kind = "Prepared" /\ e.operation # NoOperation
           /\ IsFor(g.buffer, e.operation, e.session))
    BY <1>3, <2>1 DEF HandlePlayerEvent, Event
  <2>4. k = skipped /\ k # g /\ k # failure => g.buffer # NoOperation
    BY <1>3 DEF HandlePlayerEvent, IsFor
  <2> HIDE DEF g, e, k
  <2>5. EventsFit(p, h.events, h.log)
    BY DEF Fits, PeerFits
  <2>6. EventsFit(p, g.events, h.log)
    BY <2>1, <2>2, <2>5 DEF EventsFit
  <2>7. Fits(p, g) /\ Follows(p, h, g)
    BY <2>2, <2>6, FitsNow
  <2>8. Speaks(p, h, g)
    BY <2>2, <2>7, SilentSpeaks
  <2>9. Answering(p, g)
    BY <2>7, <2>8, AnsweringOn
  <2>10. CASE k = g
    BY <2>7, <2>9, <2>10 DEF k
  <2>11. CASE k = failure
    <3>1. Fits(p, failure) /\ Answering(p, failure)
      BY <2>1, <2>7, <2>9, StreamFailureAnswers
    <3> HIDE DEF failure
    <3>2. QED
      BY <2>11, <3>1 DEF k
  <2>12. CASE k = skipped /\ k # g /\ k # failure
    <3>1. Fits(p, skipped) /\ Speaks(p, g, skipped)
      BY <2>4, <2>7, <2>12, PrepareFailureSpeaks
    <3> HIDE DEF skipped
    <3>2. QED
      BY <2>7, <2>9, <2>12, <3>1, AnsweringOn DEF k
  <2>13. CASE /\ k = resolved /\ e.kind = "Prepared" /\ e.operation # NoOperation
              /\ IsFor(g.buffer, e.operation, e.session)
    <3>1. g.buffer # NoOperation /\ <<g.buffer.operation, p>> \in g.log.prepared
      BY <2>1, <2>2, <2>5, <2>13 DEF EventsFit, IsFor
    <3>2. Fits(p, reported) /\ Speaks(p, g, reported)
      <4>1. "Ready" \in Status
        BY DEF Status
      <4>2. QED
        BY <2>7, <3>1, <4>1, ReportSpeaks
    <3> HIDE DEF reported
    <3>3. Fits(p, resolved) /\ Speaks(p, reported, resolved)
      BY <3>2, ResolveSpeaks
    <3> HIDE DEF resolved
    <3>4. Answering(p, reported)
      BY <2>7, <2>9, <3>2, AnsweringOn
    <3>5. QED
      BY <2>13, <3>2, <3>3, <3>4, AnsweringOn DEF k
  <2>14. QED
    BY <2>3, <2>10, <2>11, <2>12, <2>13
<1>4. QED
  BY <1>2, <1>3

LEMMA PlayerEventsAnswer ==
  ASSUME Typed, NEW p \in Peer, NEW h, Fits(p, h), Answering(p, h)
  PROVE  LET g == HandlePlayerEvents(p, h)
         IN  Fits(p, g) /\ Answering(p, g)
<1> DEFINE g == HandlePlayerEvent(p, h)
           k == HandlePlayerEvent(p, g)
<1>1. Fits(p, g) /\ Answering(p, g)
  BY PlayerEventAnswers
<1> HIDE DEF g
<1>2. Fits(p, k) /\ Answering(p, k)
  BY <1>1, PlayerEventAnswers
<1>3. HandlePlayerEvents(p, h) = k
  BY DEF HandlePlayerEvents, g
<1>4. QED
  BY <1>2, <1>3

LEMMA LoseBufferHealthAnswers ==
  ASSUME Typed, NEW p \in Peer, NEW h, Fits(p, h), Answering(p, h), NEW target
  PROVE  LET g == LoseBufferHealth(p, h, target)
         IN  Fits(p, g) /\ Answering(p, g)
<1> DEFINE paused == PausePlayback(p, h)
           track == h.playback.track
           begun == BeginBufferOperation(p, paused, "Resume", track, target)
           g == LoseBufferHealth(p, h, target)
<1>1. h.playback \in PlaybackState \cup {NoPlayback}
  BY DEF Fits, Handler
<1>2. g = h \/ (g = begun /\ HasTrack(h.playback))
  BY DEF LoseBufferHealth
<1> HIDE DEF g
<1>3. CASE HasTrack(h.playback) /\ g = begun
  <2>1. h.playback # NoPlayback /\ track \in Item
    BY <1>1, <1>3 DEF HasTrack, PlaybackState
  <2>2. Fits(p, paused) /\ Speaks(p, h, paused) /\ paused.playback # NoPlayback
    BY <2>1, PauseSpeaks
  <2> HIDE DEF paused, track
  <2>3. Answering(p, paused)
    BY <2>2, AnsweringOn
  <2>4. Fits(p, begun) /\ Answering(p, begun)
    BY <2>1, <2>2, <2>3, BeginAnswers DEF Kind
  <2> HIDE DEF begun
  <2>5. QED
    BY <1>3, <2>4 DEF g
<1>4. CASE g = h
  BY <1>4 DEF g
<1>5. QED
  BY <1>2, <1>3, <1>4

LEMMA FinishAnswers ==
  ASSUME Typed, NEW p \in Peer, NEW h, Fits(p, h), Answering(p, h)
  PROVE  LET g == FinishPlayback(p, h)
         IN  Fits(p, g) /\ Answering(p, g)
<1> DEFINE idle == StopCurrentPlayback(p, h)
           next == StartNextOrDie(p, idle)
           stopped == StopPlayer(h)
           state == IdleState(p, h.clock)
           silent == Stamped([stopped EXCEPT !.playback = state])
           g == FinishPlayback(p, h)
<1>1. h.clock \in Nat
  BY DEF Fits, Handler
<1>2. g \in {h, next, silent}
  BY DEF FinishPlayback
<1>3. Fits(p, idle) /\ Speaks(p, h, idle)
  BY StopCurrentSpeaks
<1> HIDE DEF idle, g
<1>4. Answering(p, idle)
  BY <1>3, AnsweringOn
<1>5. Fits(p, next) /\ Answering(p, next)
  BY <1>3, <1>4, StartNextAnswers
<1> HIDE DEF next
<1>6. Fits(p, stopped) /\ Speaks(p, h, stopped) /\ stopped.clock = h.clock
  BY StopPlayerSpeaks, StopPlayerFits
<1>7. /\ state \in PlaybackState /\ state.issued_at = h.clock /\ state.track = NoTrack
      /\ ~state.playing
  BY <1>1, IdleStateType
<1> HIDE DEF stopped, state
<1>8. Fits(p, silent) /\ Speaks(p, stopped, silent)
  BY <1>6, <1>7, IssueSpeaks
<1> HIDE DEF silent
<1>9. Speaks(p, h, silent)
  BY <1>6, <1>8, SpeaksOn
<1>10. Answering(p, silent)
  BY <1>8, <1>9, AnsweringOn
<1>11. QED
  BY <1>2, <1>5, <1>8, <1>10 DEF g
-----------------------------------------------------------------------------
(* What messages are answered with *)

LEMMA AbandonLocalSpeaks ==
  ASSUME NEW p \in Peer, NEW h, Fits(p, h)
  PROVE  LET g == AbandonLocalOperation(p, h)
         IN  /\ Fits(p, g) /\ Speaks(p, h, g)
             /\ g.buffer # NoOperation => g.buffer = h.buffer
<1> DEFINE cancelled == Cancelled(h)
           g == AbandonLocalOperation(p, h)
<1>1. g = IF Leads(p, h.buffer) THEN cancelled ELSE h
  BY DEF AbandonLocalOperation, Cancelled
<1> HIDE DEF g
<1>2. CASE Leads(p, h.buffer)
  <2>1. Fits(p, cancelled) /\ Speaks(p, h, cancelled) /\ cancelled.buffer = NoOperation
    BY <1>2, CancelledSpeaks
  <2> HIDE DEF cancelled
  <2>2. QED
    BY <1>1, <1>2, <2>1 DEF g
<1>3. CASE ~Leads(p, h.buffer)
  <2>1. Speaks(p, h, h)
    BY SpeaksItself DEF Fits
  <2>2. QED
    BY <1>1, <1>3, <2>1 DEF g
<1>4. QED
  BY <1>2, <1>3

\* From h to g p said nothing, and kept or cleared its operation.
Quiet(h, g) ==
  g.sent = h.sent /\ g.clock = h.clock /\ g.buffer \in {h.buffer, NoOperation}

(* A playback state is applied or not, and answered by no one. *)
LEMMA PlaybackStateSpeaks ==
  ASSUME NEW p \in Peer, NEW h, Fits(p, h), NEW state \in PlaybackState,
         PlaybackFits(state, h.log, h.clock), NEW target
  PROVE  LET k == HandlePlaybackState(p, h, state, target)
         IN  Fits(p, k) /\ Speaks(p, h, k)
<1> DEFINE g == IF state.track = NoTrack THEN [h EXCEPT !.failed = {}] ELSE h
           yields == AbandonLocalOperation(p, g)
           applied == [yields EXCEPT !.playback = state]
           m == RemoveStartedItem(yields.music, state)
           started == [applied EXCEPT !.music = m]
           b == ClearMatchingPlaybackState(yields.buffer, state)
           cleared == [started EXCEPT !.buffer = b]
           emptied == [applied EXCEPT !.buffer = b]
           idle == StopPlayer(emptied)
           fails == [StopPlayer(started) EXCEPT
                       !.failed = started.failed \cup {state.session}]
           prepares == PrepareStream(p, cleared, NoOperation, state.session,
                                     state.track, target)
           k == HandlePlaybackState(p, h, state, target)
<1>1. h \in Handler
  BY DEF Fits
<1>2. Fits(p, k) /\ Follows(p, h, k)
  BY PlaybackStateFits
<1>3. /\ Fits(p, g) /\ Follows(p, h, g) /\ g.sent = h.sent /\ g.buffer = h.buffer
  <2> DEFINE forgets == [h EXCEPT !.failed = {}]
  <2>1. /\ forgets \in Handler /\ forgets.log = h.log /\ forgets.clock = h.clock
        /\ forgets.buffer = h.buffer /\ forgets.playback = h.playback
        /\ forgets.music = h.music /\ forgets.events = h.events
        /\ forgets.sent = h.sent
    BY <1>1 DEF Handler
  <2> HIDE DEF forgets
  <2>2. Fits(p, forgets) /\ Follows(p, h, forgets)
    BY <2>1, FitsNow
  <2>3. Follows(p, h, h)
    BY <1>1, FollowsItself
  <2>4. g \in {h, forgets}
    BY DEF forgets
  <2> HIDE DEF g
  <2>5. QED
    BY <2>1, <2>2, <2>3, <2>4
<1> HIDE DEF g
<1>4. /\ Fits(p, yields) /\ Speaks(p, g, yields)
      /\ yields.buffer # NoOperation => yields.buffer = g.buffer
  BY <1>3, AbandonLocalSpeaks
<1>5. Speaks(p, h, yields)
  <2>1. Speaks(p, h, g)
    BY <1>3, SilentSpeaks
  <2>2. QED
    BY <1>3, <1>4, <2>1, SpeaksOn
<1> HIDE DEF yields
<1>6. yields \in Handler /\ yields.music \in Music
  BY <1>4 DEF Fits, Handler
<1>7. /\ applied \in Handler /\ applied.music = yields.music
      /\ applied.buffer = yields.buffer /\ applied.sent = yields.sent
      /\ applied.clock = yields.clock
  BY <1>6 DEF Handler
<1> HIDE DEF applied
<1>8. m \in Music
  BY <1>6, TakesItsRequest
<1> HIDE DEF m
<1>9. /\ started \in Handler /\ started.buffer = yields.buffer
      /\ started.sent = yields.sent /\ started.clock = yields.clock
  BY <1>7, <1>8 DEF Handler
<1>10. b \in {yields.buffer, NoOperation}
       /\ b \in BufferOperation \cup {NoOperation}
  BY <1>6 DEF ClearMatchingPlaybackState, Handler
<1>11. k \in {g, idle, cleared, fails, prepares}
  <2>1. StopPlayer(started).failed = started.failed
    BY <1>9 DEF StopPlayer, Handler
  <2>2. CASE state.track = NoTrack
    BY <1>7, <1>9, <2>2 DEF HandlePlaybackState, applied, yields, g, m
  <2>3. CASE state.track # NoTrack
    BY <1>7, <1>9, <2>1, <2>3 DEF HandlePlaybackState, applied, yields, g, m
  <2>4. QED
    BY <2>2, <2>3
<1> HIDE DEF started, b, k
<1>12. cleared \in Handler /\ Quiet(yields, cleared)
  BY <1>9, <1>10 DEF Handler, Quiet
<1>13. Quiet(yields, idle)
  BY <1>7, <1>10 DEF Handler, Quiet, StopPlayer
<1>14. Quiet(yields, fails)
  BY <1>9 DEF Handler, Quiet, StopPlayer
<1> HIDE DEF cleared
<1>15. Quiet(yields, prepares)
  BY <1>12, PrepareStreamSilent DEF Quiet
<1> HIDE DEF idle, fails, prepares
<1>16. CASE k = g
  <2>1. Speaks(p, h, g)
    BY <1>3, SilentSpeaks
  <2>2. QED
    BY <1>2, <1>16, <2>1 DEF k
<1>17. CASE Quiet(yields, k)
  <2>1. Speaks(p, yields, k)
    BY <1>6, <1>17, HandlerNumbers DEF Quiet, Speaks, KeepsTally
  <2>2. Speaks(p, h, k)
    BY <1>2, <1>4, <1>5, <2>1, SpeaksOn
  <2>3. QED
    BY <1>2, <2>2 DEF k
<1>18. QED
  BY <1>11, <1>12, <1>13, <1>14, <1>15, <1>16, <1>17

(* What p takes up began before now, and its answers are none it has not had. *)
LEMMA TakenAnswers ==
  ASSUME Typed, NEW p \in Peer, NEW h, Fits(p, h), Answering(p, h),
         NEW m \in messages, m.type = "BufferPrepare", m.operation[1] # p
  PROVE  LET g == [h EXCEPT !.buffer = ReceiveRemoteOperation(@, m)]
         IN  /\ Fits(p, g) /\ Answering(p, g)
             /\ g.buffer # NoOperation /\ g.buffer.operation = m.operation
<1> DEFINE g == [h EXCEPT !.buffer = ReceiveRemoteOperation(@, m)]
           said == messages \cup h.sent
<1>1. m \in Message
  BY DEF Typed
<1>2. /\ Fits(p, g) /\ g.sent = h.sent /\ g.clock = h.clock
      /\ g.buffer # NoOperation /\ g.buffer.operation = m.operation
      /\ h.buffer = g.buffer \/ \A q \in Peer : g.buffer.statuses[q] = "None"
  BY <1>1, TakenFits
<1> HIDE DEF g
<1>3. /\ SaidAfter(said, g.clock) /\ AnswersFit(p, h.buffer, said, g.clock)
      /\ \A n \in g.sent : n.type = "BufferStatus" => n.peer = p
  BY <1>2 DEF Answering
<1>4. g.buffer.operation[2] < g.clock
  BY <1>2, <1>3 DEF SaidAfter, OfOperation
<1>5. CountsSaid(p, g.buffer, said)
  BY <1>2, <1>3 DEF AnswersFit, CountsSaid
<1>6. LeaderOf(g.buffer) # p
  BY <1>2 DEF LeaderOf
<1>7. AnswersFit(p, g.buffer, said, g.clock)
  BY <1>4, <1>5, <1>6 DEF AnswersFit
<1>8. Answering(p, g)
  BY <1>2, <1>3, <1>7 DEF Answering
<1>9. QED
  BY <1>2, <1>8 DEF g

LEMMA JoinAnswers ==
  ASSUME Typed, NEW p \in Peer, NEW h, Fits(p, h), Answering(p, h),
         NEW m \in messages, m.type = "BufferPrepare", m.operation[1] # p, NEW target
  PROVE  LET g == JoinOperation(p, h, m, target)
         IN  Fits(p, g) /\ Answering(p, g)
<1> DEFINE yields == AbandonLocalOperation(p, h)
           taken == [yields EXCEPT !.buffer = ReceiveRemoteOperation(@, m)]
           joined == Report(p, taken, "Buffering")
           has == HasPrepared(p, joined, m.operation)
           ready == Report(p, has, "Ready")
           failed == Report(p, joined, "Failed")
           prepares == PrepareStream(p, joined, m.operation, m.session, m.track, target)
           g == JoinOperation(p, h, m, target)
<1>1. g \in {ready, failed, prepares}
  BY DEF JoinOperation
<1> HIDE DEF g
<1>2. m.operation \in Id /\ m.session \in Id /\ m.track \in Item
  BY DEF Message, Typed
<1>3. m.operation # NoOperation
  BY <1>2, BufferAssumption
<1>4. Fits(p, yields) /\ Answering(p, yields)
  <2>1. Fits(p, yields) /\ Speaks(p, h, yields)
    BY AbandonLocalSpeaks
  <2> HIDE DEF yields
  <2>2. QED
    BY <2>1, AnsweringOn
<1> HIDE DEF yields
<1>5. /\ Fits(p, taken) /\ Answering(p, taken)
      /\ taken.buffer # NoOperation /\ taken.buffer.operation = m.operation
  BY <1>4, TakenAnswers
<1> HIDE DEF taken
<1>6. /\ Fits(p, joined) /\ Speaks(p, taken, joined)
      /\ joined.buffer # NoOperation /\ joined.buffer.operation = m.operation
  <2>1. "Buffering" \in Status /\ "Buffering" # "Ready"
    BY DEF Status
  <2>2. QED
    BY <1>5, <2>1, ReportSpeaks
<1> HIDE DEF joined
<1>7. Answering(p, joined)
  BY <1>5, <1>6, AnsweringOn
<1>8. CASE g = ready
  <2>1. /\ Fits(p, has) /\ Follows(p, joined, has) /\ has.buffer = joined.buffer
        /\ <<m.operation, p>> \in has.log.prepared
    BY <1>2, <1>6, HasPreparedFits
  <2>2. has.sent = joined.sent
    BY <1>6 DEF HasPrepared, Fits, Handler
  <2> HIDE DEF has
  <2>3. Speaks(p, joined, has)
    BY <1>6, <2>1, <2>2, SilentSpeaks
  <2>4. Fits(p, ready) /\ Speaks(p, has, ready)
    <3>1. "Ready" \in Status
      BY DEF Status
    <3>2. QED
      BY <1>6, <2>1, <3>1, ReportSpeaks
  <2> HIDE DEF ready
  <2>5. Answering(p, has)
    BY <1>6, <1>7, <2>1, <2>3, AnsweringOn
  <2>6. QED
    BY <1>8, <2>1, <2>4, <2>5, AnsweringOn DEF g
<1>9. CASE g = failed
  <2>1. "Failed" \in Status /\ "Failed" # "Ready"
    BY DEF Status
  <2>2. Fits(p, failed) /\ Speaks(p, joined, failed)
    BY <1>6, <2>1, ReportSpeaks
  <2> HIDE DEF failed
  <2>3. QED
    BY <1>6, <1>7, <1>9, <2>2, AnsweringOn DEF g
<1>10. CASE g = prepares
  <2>1. Fits(p, prepares) /\ Speaks(p, joined, prepares)
    BY <1>2, <1>3, <1>6, PrepareStreamSpeaks
  <2> HIDE DEF prepares
  <2>2. QED
    BY <1>6, <1>7, <1>10, <2>1, AnsweringOn DEF g
<1>11. QED
  BY <1>1, <1>8, <1>9, <1>10

(* p says of an operation that it knows or has failed nothing but what it said,
   and ready to none it does not have. *)
LEMMA PrepareAnswers ==
  ASSUME Typed, NEW p \in Peer, NEW h, Fits(p, h), Answering(p, h),
         NEW m \in messages, m.type = "BufferPrepare", m.operation[1] # p, NEW target
  PROVE  LET g == HandlePrepare(p, h, m, target)
         IN  Fits(p, g) /\ Answering(p, g)
<1> DEFINE known == StatusFor(h.buffer, m.operation, m.session, p)
           answered == PublishStatus(p, h, m.operation, m.session, known)
           failed == PublishStatus(p, h, m.operation, m.session, "Failed")
           joins == JoinOperation(p, h, m, target)
           g == HandlePrepare(p, h, m, target)
<1>1. h \in Handler /\ h.buffer \in BufferOperation \cup {NoOperation}
  BY DEF Fits, Handler
<1>2. m \in Message /\ m.operation \in Id /\ m.session \in Id
  BY DEF Message, Typed
<1>3. Fits(p, g)
  BY <1>2, PrepareFits
<1>4. g \in {h, failed, joins} \/ (g = answered /\ known # "None")
  BY DEF HandlePrepare
<1>5. known # "None" =>
        /\ known \in Status /\ h.buffer # NoOperation
        /\ h.buffer.operation = m.operation
  BY <1>1 DEF StatusFor, IsFor, BufferOperation
<1> HIDE DEF known, g
<1>6. CASE g = h
  BY <1>6 DEF g
<1>7. CASE g = answered /\ known # "None"
  <2>1. Speaks(p, h, answered)
    BY <1>1, <1>2, <1>5, <1>7, PublishStatusSpeaks
  <2> HIDE DEF answered
  <2>2. QED
    BY <1>3, <1>7, <2>1, AnsweringOn DEF g
<1>8. CASE g = failed
  <2> DEFINE n == [type |-> "BufferStatus", operation |-> m.operation,
                   session |-> m.session, peer |-> p, status |-> "Failed"]
             before == messages \cup h.sent
             said == messages \cup g.sent
  <2>1. g = Publish(h, n)
    BY <1>8 DEF PublishStatus
  <2>2. n.operation = m.operation /\ n.peer = p /\ n.status = "Failed"
    OBVIOUS
  <2> HIDE DEF n
  <2>3. g.sent = h.sent \cup {n} /\ g.buffer = h.buffer /\ g.clock = h.clock
    BY <1>1, <2>1 DEF Publish, Handler
  <2>4. said = before \cup {n}
    BY <2>3
  <2> HIDE DEF said, before
  <2>5. /\ SaidAfter(before, h.clock) /\ AnswersFit(p, h.buffer, before, h.clock)
        /\ m \in before /\ \A o \in h.sent : o.type = "BufferStatus" => o.peer = p
    BY DEF Answering, before
  <2>6. SaidAfter(said, g.clock)
    BY <2>2, <2>3, <2>4, <2>5 DEF SaidAfter, OfOperation
  <2>7. AnswersFit(p, g.buffer, said, g.clock)
    BY <2>2, <2>3, <2>4, <2>5 DEF AnswersFit, CountsSaid, LeadsLater, SaysReady
  <2>8. Answering(p, g)
    BY <2>2, <2>3, <2>5, <2>6, <2>7 DEF Answering, said
  <2>9. QED
    BY <1>3, <2>8 DEF g
<1>9. CASE g = joins
  <2>1. Fits(p, joins) /\ Answering(p, joins)
    BY JoinAnswers
  <2> HIDE DEF joins
  <2>2. QED
    BY <1>9, <2>1 DEF g
<1>10. QED
  BY <1>4, <1>6, <1>7, <1>8, <1>9

(* The ready that p counts for another peer is the one it has received. *)
LEMMA StatusAnswers ==
  ASSUME Typed, NEW p \in Peer, NEW h, Fits(p, h), Answering(p, h),
         NEW m \in messages, m.type = "BufferStatus", MessageFits(m, h.log, h.clock)
  PROVE  LET marked == [h EXCEPT !.buffer = MarkStatus(@, m.operation, m.session, m.peer,
                                                       m.status)]
             g == ResolveBufferOperation(p, marked)
         IN  Fits(p, g) /\ Answering(p, g)
<1> DEFINE b == MarkStatus(h.buffer, m.operation, m.session, m.peer, m.status)
           marked == [h EXCEPT !.buffer = b]
           g == ResolveBufferOperation(p, marked)
           said == messages \cup h.sent
<1>1. /\ h \in Handler /\ h.buffer \in BufferOperation \cup {NoOperation}
      /\ OperationFits(h.buffer, h.log)
  BY DEF Fits, Handler, PeerFits
<1>2. m \in Message /\ m.peer \in Peer /\ m.status \in Status
  BY DEF Message, Typed
<1>3. /\ b # NoOperation => h.buffer # NoOperation /\ b.operation = h.buffer.operation
      /\ b # NoOperation =>
           \A q \in Peer : b.statuses[q] = h.buffer.statuses[q] \/
             (q = m.peer /\ b.statuses[q] = m.status /\ b.operation = m.operation)
  <2>1. CASE b = h.buffer
    BY <2>1
  <2>2. CASE /\ b = [h.buffer EXCEPT !.statuses[m.peer] = m.status]
             /\ IsFor(h.buffer, m.operation, m.session)
    BY <1>1, <1>2, <2>2 DEF BufferOperation, IsFor
  <2>3. QED
    BY <2>1, <2>2 DEF MarkStatus
<1>4. /\ b \in BufferOperation \cup {NoOperation} /\ OperationFits(b, h.log)
  <2>1. CASE b = h.buffer
    BY <1>1, <2>1
  <2>2. CASE b # h.buffer
    <3>1. m.operation = h.buffer.operation
      BY <2>2 DEF MarkStatus, IsFor
    <3>2. m.status = "Ready" => <<m.operation, m.peer>> \in h.log.prepared
      BY DEF MessageFits
    <3>3. QED
      BY <1>1, <1>2, <3>2, MarkStatusFits
  <2>3. QED
    BY <2>1, <2>2
<1> HIDE DEF b
<1>5. Fits(p, marked)
  BY <1>3, <1>4, TallyFits
<1>6. marked.sent = h.sent /\ marked.clock = h.clock /\ marked.buffer = b
  BY <1>1 DEF Handler
<1> HIDE DEF marked
<1>7. /\ SaidAfter(said, h.clock) /\ AnswersFit(p, h.buffer, said, h.clock)
      /\ \A n \in h.sent : n.type = "BufferStatus" => n.peer = p
  BY DEF Answering
<1>8. m \in said
  OBVIOUS
<1> HIDE DEF said
<1>9. AnswersFit(p, b, said, h.clock)
  <2> SUFFICES ASSUME b # NoOperation
               PROVE  /\ b.operation[2] < h.clock /\ CountsSaid(p, b, said)
                      /\ LeaderOf(b) = p => LeadsLater(p, b, said)
    BY DEF AnswersFit
  <2>1. /\ h.buffer.operation[2] < h.clock /\ CountsSaid(p, h.buffer, said)
        /\ LeaderOf(h.buffer) = p => LeadsLater(p, h.buffer, said)
        /\ b.operation = h.buffer.operation
    BY <1>3, <1>7 DEF AnswersFit
  <2>2. CountsSaid(p, b, said)
    BY <1>3, <1>8, <2>1 DEF CountsSaid, SaysReady
  <2>3. QED
    BY <2>1, <2>2 DEF LeaderOf, LeadsLater
<1>10. Answering(p, marked)
  BY <1>6, <1>7, <1>9 DEF Answering, said
<1>11. Fits(p, g) /\ Speaks(p, marked, g)
  BY <1>5, ResolveSpeaks
<1> HIDE DEF g
<1>12. Answering(p, g)
  BY <1>5, <1>10, <1>11, AnsweringOn
<1>13. QED
  BY <1>11, <1>12 DEF g, marked, b

(* Nobody is counted for a peer that has left. *)
LEMMA LeftSpeaks ==
  ASSUME NEW p \in Peer, NEW h, Fits(p, h), NEW q \in Peer
  PROVE  LET left == [h EXCEPT !.buffer = RemoveExpectedPeer(@, q)]
             g == ResolveBufferOperation(p, left)
         IN  Fits(p, g) /\ Speaks(p, h, g)
<1> DEFINE b == RemoveExpectedPeer(h.buffer, q)
           left == [h EXCEPT !.buffer = b]
           g == ResolveBufferOperation(p, left)
<1>1. /\ h \in Handler /\ h.buffer \in BufferOperation \cup {NoOperation}
      /\ OperationFits(h.buffer, h.log)
  BY DEF Fits, Handler, PeerFits
<1>2. /\ b \in BufferOperation \cup {NoOperation} /\ OperationFits(b, h.log)
      /\ b # NoOperation => h.buffer # NoOperation /\ b.operation = h.buffer.operation
      /\ KeepsTally(p, h.buffer, b)
  <2>1. CASE h.buffer = NoOperation
    <3>1. b = NoOperation
      BY <2>1 DEF RemoveExpectedPeer
    <3> HIDE DEF b
    <3>2. QED
      BY <3>1 DEF OperationFits, KeepsTally
  <2>2. CASE h.buffer # NoOperation
    <3>1. h.buffer \in BufferOperation
      BY <1>1, <2>2
    <3>2. /\ b \in BufferOperation /\ b.operation = h.buffer.operation
          /\ b.expected = h.buffer.expected \ {q}
          /\ \A r \in Peer : b.statuses[r] = IF r = q THEN "None"
                                             ELSE h.buffer.statuses[r]
      BY <2>2, <3>1 DEF RemoveExpectedPeer, BufferOperation
    <3> HIDE DEF b
    <3>3. OperationFits(b, h.log)
      BY <1>1, <2>2, <3>2 DEF OperationFits
    <3>4. KeepsTally(p, h.buffer, b)
      BY <2>2, <3>2 DEF KeepsTally
    <3>5. QED
      BY <2>2, <3>2, <3>3, <3>4
  <2>3. QED
    BY <2>1, <2>2
<1> HIDE DEF b
<1>3. Fits(p, left)
  BY <1>2, TallyFits
<1>4. left.sent = h.sent /\ left.clock = h.clock /\ left.buffer = b
  BY <1>1 DEF Handler
<1> HIDE DEF left
<1>5. Speaks(p, h, left)
  BY <1>1, <1>2, <1>4, HandlerNumbers DEF Speaks
<1>6. Fits(p, g) /\ Speaks(p, left, g)
  BY <1>3, ResolveSpeaks
<1> HIDE DEF g
<1>7. Speaks(p, h, g)
  BY <1>3, <1>5, <1>6, SpeaksOn
<1>8. QED
  BY <1>6, <1>7 DEF g, left, b
-----------------------------------------------------------------------------
(* What a handler of p leaves behind keeps the answers of the room: no one else
   speaks, or takes up anything. *)
LEMMA HandlingAnswers ==
  ASSUME Inv, Answered, NEW p \in Peer
  PROVE  Answering(p, Handling(p))
<1> DEFINE h == Handling(p)
<1>1. h.buffer = peer[p].buffer /\ h.clock = clock /\ h.sent = {}
  BY HandlingFits
<1> HIDE DEF h
<1>2. messages \cup h.sent = messages
  BY <1>1
<1>3. Answering(p, h)
  BY <1>1, <1>2 DEF Answering, Answered, Inv, Typed
<1>4. QED
  BY <1>3 DEF h

LEMMA HandledAnswers ==
  ASSUME Inv, Answered, NEW p \in Peer, NEW h, Fits(p, h), Answering(p, h),
         Handled(p, h)
  PROVE  Answered'
<1> DEFINE new == [music |-> h.music, playback |-> h.playback, buffer |-> h.buffer,
                   stream |-> h.stream, events |-> h.events, failed |-> h.failed]
           said == messages \cup h.sent
<1>1. /\ peer' = [peer EXCEPT ![p] = new] /\ messages' = said /\ clock' = h.clock
  BY DEF Handled
<1>2. new.buffer = h.buffer
  OBVIOUS
<1> HIDE DEF new
<1>3. /\ peer \in [Peer -> PeerState] /\ clock \in Nat /\ h.clock \in Nat
  BY DEF Inv, Typed, Fits, Handler
<1>4. \A q \in Peer : peer'[q].buffer = IF q = p THEN h.buffer ELSE peer[q].buffer
  BY <1>1, <1>2, <1>3
<1>5. /\ clock <= h.clock /\ SaidAfter(said, h.clock) /\ AnswersFit(p, h.buffer, said, h.clock)
      /\ \A m \in said \ messages : m.type = "BufferStatus" => m.peer = p
      /\ messages \subseteq said
  BY DEF Answering
<1> HIDE DEF said
<1>6. ASSUME NEW q \in Peer PROVE AnswersFit(q, peer'[q].buffer, said, h.clock)
  <2>1. CASE q = p
    BY <1>4, <1>5, <2>1
  <2>2. CASE q # p
    <3> DEFINE op == peer[q].buffer
    <3>1. op \in BufferOperation \cup {NoOperation}
      BY <1>3 DEF PeerState
    <3>2. op # NoOperation => op.operation[2] \in Nat
      BY <3>1 DEF BufferOperation, Id
    <3>3. AnswersFit(q, op, messages, clock)
      BY DEF Answered
    <3> HIDE DEF op
    <3>4. op # NoOperation => op.operation[2] < h.clock
      BY <1>3, <1>5, <3>2, <3>3 DEF AnswersFit
    <3>5. op # NoOperation => CountsSaid(q, op, said)
      BY <1>5, <3>3 DEF AnswersFit, CountsSaid
    <3>6. op # NoOperation /\ LeaderOf(op) = q => LeadsLater(q, op, said)
      BY <1>5, <2>2, <3>3 DEF AnswersFit, LeadsLater, SaysReady
    <3>7. AnswersFit(q, op, said, h.clock)
      BY <3>4, <3>5, <3>6 DEF AnswersFit
    <3>8. QED
      BY <1>4, <2>2, <3>7 DEF op
  <2>3. QED
    BY <2>1, <2>2
<1>7. QED
  BY <1>1, <1>5, <1>6 DEF Answered

(* So does a handling that only speaks. *)
LEMMA SpokenAnswers ==
  ASSUME Inv, Answered, NEW p \in Peer, NEW h, Fits(p, h),
         Speaks(p, Handling(p), h), Handled(p, h)
  PROVE  Answered'
<1>1. Fits(p, Handling(p)) /\ Handling(p).clock = clock
  BY HandlingFits
<1>2. Answering(p, h)
  BY <1>1, HandlingAnswers, AnsweringOn DEF Inv
<1>3. QED
  BY <1>2, HandledAnswers

(* Steps that leave what is said, and everyone's operation, as they are. *)
LEMMA AnsweredStays ==
  ASSUME Answered, messages' = messages, clock' = clock,
         \A q \in Peer : peer'[q].buffer = peer[q].buffer
  PROVE  Answered'
  BY DEF Answered

LEMMA TickAnswers ==
  ASSUME Inv, Answered, NEW p \in Peer, NEW loses \in BOOLEAN,
         NEW finishes \in BOOLEAN, NEW target, MusicLocalTick(p, loses, finishes, target)
  PROVE  Answered'
<1> DEFINE h == Handling(p)
           handled == HandlePlayerEvents(p, h)
           resolved == ResolveBufferOperation(p, handled)
           next == StartNextIfIdle(p, resolved)
           lost == LoseBufferHealth(p, next, target)
           healthy == IF loses THEN lost ELSE next
           finished == FinishPlayback(p, healthy)
           done == IF finishes THEN finished ELSE healthy
<1>1. Handled(p, done)
  BY DEF MusicLocalTick
<1>2. Typed
  BY DEF Inv
<1>3. Fits(p, h) /\ Answering(p, h)
  BY HandlingFits, HandlingAnswers
<1> HIDE DEF h
<1>4. Fits(p, handled) /\ Answering(p, handled)
  BY <1>2, <1>3, PlayerEventsAnswer
<1> HIDE DEF handled
<1>5. Fits(p, resolved) /\ Speaks(p, handled, resolved)
  BY <1>4, ResolveSpeaks
<1> HIDE DEF resolved
<1>6. Answering(p, resolved)
  BY <1>2, <1>4, <1>5, AnsweringOn
<1>7. Fits(p, next) /\ Answering(p, next)
  BY <1>2, <1>5, <1>6, StartNextAnswers
<1> HIDE DEF next
<1>8. Fits(p, lost) /\ Answering(p, lost)
  BY <1>2, <1>7, LoseBufferHealthAnswers
<1> HIDE DEF lost
<1>9. Fits(p, healthy) /\ Answering(p, healthy)
  BY <1>7, <1>8
<1> HIDE DEF healthy
<1>10. Fits(p, finished) /\ Answering(p, finished)
  BY <1>2, <1>9, FinishAnswers
<1> HIDE DEF finished
<1>11. Fits(p, done) /\ Answering(p, done)
  BY <1>9, <1>10
<1> HIDE DEF done
<1>12. QED
  BY <1>1, <1>11, HandledAnswers

LEMMA SyncAnswers ==
  ASSUME Inv, Answered, NEW p \in Peer, MusicSyncTick(p)
  PROVE  Answered'
<1> DEFINE h == Handling(p)
           state == [peer[p].playback EXCEPT !.issued_at = clock]
           g == Stamped(PublishPlayback([h EXCEPT !.playback = state], state))
<1>1. Handled(p, g) /\ HasTrack(peer[p].playback)
  BY DEF MusicSyncTick
<1>2. Typed
  BY DEF Inv
<1>3. Fits(p, h) /\ h.playback = peer[p].playback /\ h.clock = clock /\ h.log = log
  BY HandlingFits
<1> HIDE DEF h
<1>4. h.playback \in PlaybackState /\ h.playback # NoPlayback /\ clock \in Nat
  BY <1>1, <1>2, <1>3 DEF HasTrack, Fits, Handler, Typed
<1>5. /\ state \in PlaybackState /\ state.issued_at = clock
      /\ state.session = h.playback.session /\ state.track = h.playback.track
      /\ state.playing = h.playback.playing
  BY <1>3, <1>4 DEF PlaybackState
<1>6. PlaybackFits(h.playback, h.log, h.clock)
  BY <1>3 DEF Fits, PeerFits
<1> HIDE DEF state
<1>7. /\ state.track # NoTrack => Started(h.log, state.session, state.track)
      /\ state.playing => state.track # NoTrack
  BY <1>4, <1>5, <1>6 DEF PlaybackFits
<1>8. Fits(p, g) /\ Speaks(p, h, g)
  BY <1>3, <1>5, <1>7, IssueSpeaks
<1> HIDE DEF g
<1>9. QED
  BY <1>1, <1>8, SpokenAnswers DEF h

LEMMA SeekAnswers ==
  ASSUME Inv, Answered, NEW p \in Peer, NEW target, Seek(p, target)
  PROVE  Answered'
<1> DEFINE h == Handling(p)
           paused == PausePlayback(p, h)
           track == peer[p].playback.track
           begun == BeginBufferOperation(p, paused, "Seek", track, target)
           last == [begun EXCEPT !.alive = @ \ {p}]
           g == IF p \in MediaFails THEN last ELSE begun
<1>1. HasTrack(peer[p].playback) /\ Handled(p, g)
  BY DEF Seek, CanControlPlayback
<1>2. Typed
  BY DEF Inv
<1>3. Fits(p, h) /\ Answering(p, h) /\ h.playback = peer[p].playback
  BY HandlingFits, HandlingAnswers
<1> HIDE DEF h
<1>4. h.playback # NoPlayback /\ track \in Item
  BY <1>1, <1>2, <1>3 DEF HasTrack, Typed, PeerState, PlaybackState
<1>5. Fits(p, paused) /\ Speaks(p, h, paused) /\ paused.playback # NoPlayback
  BY <1>3, <1>4, PauseSpeaks
<1> HIDE DEF paused, track
<1>6. Answering(p, paused)
  BY <1>2, <1>3, <1>5, AnsweringOn
<1>7. Fits(p, begun) /\ Answering(p, begun)
  BY <1>2, <1>4, <1>5, <1>6, BeginAnswers DEF Kind
<1> HIDE DEF begun
<1>8. Fits(p, last) /\ Speaks(p, begun, last)
  BY <1>7, DieSpeaks
<1> HIDE DEF last
<1>9. Answering(p, last)
  BY <1>2, <1>7, <1>8, AnsweringOn
<1>10. Fits(p, g) /\ Answering(p, g)
  BY <1>7, <1>8, <1>9
<1> HIDE DEF g
<1>11. QED
  BY <1>1, <1>10, HandledAnswers

LEMMA ReceiveAnswers ==
  ASSUME Inv, Answered, NEW p \in Peer, Receive(p)
  PROVE  Answered'
<1> DEFINE h == Handling(p)
<1>1. Typed
  BY DEF Inv
<1>2. /\ Fits(p, h) /\ h.log = log /\ h.clock = clock /\ h \in Handler
      /\ Answering(p, h)
  BY HandlingFits, HandlingAnswers DEF Fits
<1> HIDE DEF h
<1>3. PICK m \in messages :
        \/ \E target \in SeekTargets \cup {"Buffered"} : ReceivePlaybackState(p, m, target)
        \/ \E target \in SeekTargets : ReceivePrepare(p, m, target)
        \/ ReceiveStatus(p, m)
        \/ ReceiveCancel(p, m)
        \/ ReceiveQueueState(p, m)
  BY DEF Receive
<1>4. m \in Message /\ MessageFits(m, h.log, h.clock)
  BY <1>1, <1>2 DEF Typed, Inv
<1>5. ASSUME NEW target, ReceivePlaybackState(p, m, target)
      PROVE  Answered'
  <2> DEFINE g == HandlePlaybackState(p, h, m.state, target)
  <2>1. m.type = "PlaybackState" /\ Handled(p, g)
    BY <1>5 DEF ReceivePlaybackState, h
  <2>2. m.state \in PlaybackState /\ PlaybackFits(m.state, h.log, h.clock)
    BY <1>4, <2>1 DEF Message, MessageFits
  <2>3. Fits(p, g) /\ Speaks(p, h, g)
    BY <1>2, <2>2, PlaybackStateSpeaks
  <2> HIDE DEF g
  <2>4. QED
    BY <2>1, <2>3, SpokenAnswers DEF h
<1>6. ASSUME NEW target, ReceivePrepare(p, m, target)
      PROVE  Answered'
  <2> DEFINE g == HandlePrepare(p, h, m, target)
  <2>1. m.type = "BufferPrepare" /\ m.operation[1] # p /\ Handled(p, g)
    BY <1>6 DEF ReceivePrepare, h
  <2>2. Fits(p, g) /\ Answering(p, g)
    BY <1>1, <1>2, <2>1, PrepareAnswers
  <2> HIDE DEF g
  <2>3. QED
    BY <2>1, <2>2, HandledAnswers
<1>7. CASE ReceiveStatus(p, m)
  <2> DEFINE marked == [h EXCEPT !.buffer = MarkStatus(@, m.operation, m.session,
                                                       m.peer, m.status)]
             g == ResolveBufferOperation(p, marked)
  <2>1. m.type = "BufferStatus" /\ Handled(p, g)
    BY <1>7 DEF ReceiveStatus, h
  <2>2. Fits(p, g) /\ Answering(p, g)
    BY <1>1, <1>2, <1>4, <2>1, StatusAnswers
  <2> HIDE DEF g
  <2>3. QED
    BY <2>1, <2>2, HandledAnswers
<1>8. CASE ReceiveCancel(p, m)
  <2> DEFINE b == Cancel(h.buffer, m.operation)
             cancelled == [h EXCEPT !.buffer = b]
             stopped == StopPlayer(cancelled)
             g == IF cancelled.buffer = h.buffer THEN h ELSE stopped
  <2>1. Handled(p, g)
    BY <1>8 DEF ReceiveCancel, h
  <2>2. b \in {h.buffer, NoOperation}
    BY DEF Cancel
  <2> HIDE DEF b
  <2>3. Fits(p, cancelled) /\ Follows(p, h, cancelled) /\ cancelled.buffer = b
    BY <1>2, <2>2, ClearFits
  <2>4. cancelled.sent = h.sent
    BY <1>2 DEF Handler
  <2> HIDE DEF cancelled
  <2>5. Speaks(p, h, cancelled)
    BY <1>2, <2>2, <2>3, <2>4, SilentSpeaks
  <2>6. Fits(p, stopped) /\ Speaks(p, cancelled, stopped)
    BY <2>3, StopPlayerSpeaks
  <2> HIDE DEF stopped
  <2>7. Speaks(p, h, stopped)
    BY <1>2, <2>3, <2>5, <2>6, SpeaksOn
  <2>8. Fits(p, g) /\ Speaks(p, h, g)
    BY <1>2, <2>6, <2>7, SpeaksItself
  <2> HIDE DEF g
  <2>9. QED
    BY <2>1, <2>8, SpokenAnswers DEF h
<1>9. CASE ReceiveQueueState(p, m)
  <2> DEFINE applied == [h EXCEPT !.music = ApplyRemoteQueueState(@, m.state)]
             g == IF AppliesQueueState(h.music, m.state) THEN applied ELSE h
  <2>1. m.type = "QueueState" /\ Handled(p, g)
    BY <1>9 DEF ReceiveQueueState, h
  <2>2. Fits(p, applied) /\ Follows(p, h, applied)
    BY <1>2, <1>4, <2>1, QueueStateFits
  <2>3. applied.sent = h.sent /\ applied.buffer = h.buffer
    BY <1>2 DEF Handler
  <2> HIDE DEF applied
  <2>4. Speaks(p, h, applied)
    BY <1>2, <2>2, <2>3, SilentSpeaks
  <2>5. Fits(p, g) /\ Speaks(p, h, g)
    BY <1>2, <2>2, <2>4, SpeaksItself
  <2> HIDE DEF g
  <2>6. QED
    BY <2>1, <2>5, SpokenAnswers DEF h
<1>10. QED
  BY <1>3, <1>5, <1>6, <1>7, <1>8, <1>9

LEMMA ConnectionAnswers ==
  ASSUME Inv, Answered, NEW p \in Peer, Connection(p)
  PROVE  Answered'
<1> DEFINE h == Handling(p)
<1>1. Fits(p, h)
  BY HandlingFits
<1>2. PICK q \in Peer : ConnectionClosed(p, q) \/ SlowPeer(p, q)
  BY DEF Connection
<1> DEFINE left == [h EXCEPT !.buffer = RemoveExpectedPeer(@, q)]
           resolved == ResolveBufferOperation(p, left)
           g == ExpectNoMore(p, q)
<1>3. g \in {h, resolved} /\ Handled(p, g)
  BY <1>2 DEF ExpectNoMore, ConnectionClosed, SlowPeer
<1> HIDE DEF h, g
<1>4. Fits(p, resolved) /\ Speaks(p, h, resolved)
  BY <1>1, LeftSpeaks
<1> HIDE DEF resolved
<1>5. Fits(p, g) /\ Speaks(p, h, g)
  BY <1>1, <1>3, <1>4, SpeaksItself DEF Fits
<1>6. QED
  BY <1>3, <1>5, SpokenAnswers DEF h

(* What a deadline changes of the operation no one answers. *)
LEMMA DeadlineAnswers ==
  ASSUME Inv, Answered, NEW p \in Peer, DeadlinePasses(p)
  PROVE  Answered'
<1> DEFINE op == peer[p].buffer
           b == peer'[p].buffer
<1>1. /\ peer \in [Peer -> PeerState] /\ op \in BufferOperation
      /\ peer' = [peer EXCEPT ![p].buffer.overdue = TRUE]
      /\ messages' = messages /\ clock' = clock
  BY DEF DeadlinePasses, Leads, Inv, Typed, PeerState
<1>2. b.operation = op.operation /\ b.statuses = op.statuses
  BY <1>1 DEF PeerState, BufferOperation
<1>3. \A q \in Peer \ {p} : peer'[q] = peer[q]
  BY <1>1
<1>4. op # NoOperation
  BY <1>1, BufferAssumption
<1>5. AnswersFit(p, b, messages, clock)
  <2>1. AnswersFit(p, op, messages, clock)
    BY DEF Answered
  <2> HIDE DEF b, op
  <2>2. QED
    BY <1>2, <1>4, <2>1 DEF AnswersFit, CountsSaid, LeadsLater, LeaderOf
<1>6. QED
  BY <1>1, <1>3, <1>5 DEF Answered

LEMMA AnsweredStep ==
  ASSUME Inv, Answered, [Next]_vars
  PROVE  Answered'
<1>1. CASE UNCHANGED vars
  BY <1>1, AnsweredStays DEF vars
<1>2. CASE Next
  <2>1. PICK p \in alive :
          \/ Tick(p)
          \/ MusicSyncTick(p)
          \/ \E target \in SeekTargets : Seek(p, target)
          \/ Receive(p)
          \/ Connection(p)
          \/ DeadlinePasses(p)
          \/ StreamReady(p)
          \/ StreamFailed(p)
          \/ PlaybackFails(p)
          \/ Shutdown(p)
    BY <1>2 DEF Next
  <2>2. p \in Peer /\ peer \in [Peer -> PeerState]
    BY DEF Inv, Typed
  <2>3. CASE Tick(p)
    <3>1. PICK loses \in BOOLEAN, finishes \in BOOLEAN, target \in SeekTargets :
            MusicLocalTick(p, loses, finishes, target)
      BY <2>3 DEF Tick
    <3>2. QED
      BY <2>2, <3>1, TickAnswers
  <2>4. CASE MusicSyncTick(p)
    BY <2>2, <2>4, SyncAnswers
  <2>5. CASE \E target \in SeekTargets : Seek(p, target)
    BY <2>2, <2>5, SeekAnswers
  <2>6. CASE Receive(p)
    BY <2>2, <2>6, ReceiveAnswers
  <2>7. CASE Connection(p)
    BY <2>2, <2>7, ConnectionAnswers
  <2>8. CASE DeadlinePasses(p)
    BY <2>2, <2>8, DeadlineAnswers
  <2>9. CASE StreamReady(p)
    <3>1. \A q \in Peer : peer'[q].buffer = peer[q].buffer
      BY <2>2, <2>9 DEF StreamReady, PeerState
    <3>2. QED
      BY <2>9, <3>1, AnsweredStays DEF StreamReady
  <2>10. CASE StreamFailed(p)
    <3>1. \A q \in Peer : peer'[q].buffer = peer[q].buffer
      BY <2>2, <2>10 DEF StreamFailed, PeerState
    <3>2. QED
      BY <2>10, <3>1, AnsweredStays DEF StreamFailed
  <2>11. CASE PlaybackFails(p)
    <3>1. \A q \in Peer : peer'[q].buffer = peer[q].buffer
      BY <2>2, <2>11 DEF PlaybackFails, PeerState
    <3>2. QED
      BY <2>11, <3>1, AnsweredStays DEF PlaybackFails
  <2>12. CASE Shutdown(p)
    BY <2>12, AnsweredStays DEF Shutdown
  <2>13. QED
    BY <2>1, <2>3, <2>4, <2>5, <2>6, <2>7, <2>8, <2>9, <2>10, <2>11, <2>12
<1>3. QED
  BY <1>1, <1>2

LEMMA AnsweredInit == Init => Answered
<1> SUFFICES ASSUME Init PROVE Answered
  OBVIOUS
<1>1. messages = {} /\ \A p \in Peer : peer[p].buffer = NoOperation
  BY DEF Init
<1>2. QED
  BY <1>1 DEF Answered, SaidAfter, AnswersFit

(* In a room of any size and links, whatever is lost, late or repeated, no two
   leaders count each other's streams as ready: each would have begun its operation
   after it said ready to the other, which the other began before
   (abandon_local_buffer_operation, receive_remote_operation, mark_status). *)
THEOREM RivalsStayApart == Spec => []RivalsDoNotCountEachOther
<1>1. Inv /\ Answered => RivalsDoNotCountEachOther
  <2> SUFFICES ASSUME Inv, Answered, NEW p \in Peer, NEW q \in Peer, p # q,
                      Leads(p, peer[p].buffer), Leads(q, peer[q].buffer),
                      peer[p].buffer.statuses[q] = "Ready",
                      peer[q].buffer.statuses[p] = "Ready"
               PROVE  FALSE
    BY DEF RivalsDoNotCountEachOther
  <2> DEFINE a == peer[p].buffer
             b == peer[q].buffer
  <2>1. /\ a # NoOperation /\ b # NoOperation /\ LeaderOf(a) = p /\ LeaderOf(b) = q
        /\ a.statuses[q] = "Ready" /\ b.statuses[p] = "Ready"
    BY DEF Leads
  <2>2. a \in BufferOperation \cup {NoOperation} /\ b \in BufferOperation \cup {NoOperation}
    BY DEF Inv, Typed, PeerState
  <2>3. AnswersFit(p, a, messages, clock) /\ AnswersFit(q, b, messages, clock)
    BY DEF Answered
  <2> HIDE DEF a, b
  <2>4. a.operation[2] \in Nat /\ b.operation[2] \in Nat
    BY <2>1, <2>2 DEF BufferOperation, Id
  <2>5. PICK m \in messages : SaysReady(m, q) /\ m.operation = a.operation
    BY <2>1, <2>3 DEF AnswersFit, CountsSaid
  <2>6. PICK n \in messages : SaysReady(n, p) /\ n.operation = b.operation
    BY <2>1, <2>3 DEF AnswersFit, CountsSaid
  <2>7. a.operation[2] < b.operation[2]
    BY <2>1, <2>3, <2>5 DEF AnswersFit, LeadsLater, LeaderOf
  <2>8. b.operation[2] < a.operation[2]
    BY <2>1, <2>3, <2>6 DEF AnswersFit, LeadsLater, LeaderOf
  <2>9. QED
    BY <2>4, <2>7, <2>8
<1>2. Inv /\ [Next]_vars => Inv'
  BY InvStep
<1>3. Inv /\ Answered /\ [Next]_vars => Answered'
  BY AnsweredStep
<1>4. QED
  BY <1>1, <1>2, <1>3, InvInit, AnsweredInit, PTL DEF Spec
=============================================================================
