# light-ear: a verification development

TLA+ models of light-ear's room, with the TLC runs that check them and the
proofs, checked by TLAPS, of what holds for rooms of any size: the shared queue
and the votes on it, the buffer operations that start, seek and resume playback
together, the health messages by which the leader pauses a starving room, the
chat and its history, how peers find each other and again after they lost each
other, the relayed and direct connections between two of them, and the threads
that stream a track. Paths are relative to the repository's root (`src/` is the
repository); `backend.rs`, `music_state.rs` and so on are in `src/src/`.

    tlc -config QueueVotes.cfg MCQueueRoom.tla     # a run; PROJECT.json lists them
    tlapm BufferRoomProofs.tla                     # a proof module

## 1. Inventory

Every peer runs one event loop, `run_network` in `backend.rs`: a `select!` over
UI commands, timers and libp2p events. A handler runs to its end, awaits
included, before the next one starts, so a handler is the unit of interleaving.
Peers share nothing but gossip and connections. The player's threads share the
PCM window with the loop and talk to it through a channel drained by the 100 ms
tick.

| Component | State | Operations | Talks to | What is hard | What makes it correct |
|---|---|---|---|---|---|
| Shared queue, queue votes (`music_state.rs`, `core.rs`, `backend.rs`) | queue, version, timestamp, active vote, request cooldowns | enqueue, remove, move, propose, ballot, resolve, time out; snapshot, summary, request, response | gossip; connections (electorate) | ballots overtaking proposals, two votes at once, lost broadcasts, votes on stale queues | ballots counted as cast, one outcome per vote, no duplicate or lost items, last writer wins and convergence |
| Buffer operations (`buffer_state.rs`, `backend.rs`) | the active operation, its expected peers, statuses, deadline | begin, join, report, resolve, commit, skip, cancel, abandon, extend | gossip, the player, queue, playback | rival starters, late and repeated statuses, a departing leader, a stream that answers for another operation | quorum before playing, one end per operation, no item lost, an end at all |
| Playback state, playback votes (`music_state.rs`, `backend.rs`) | session, leader, version, position anchor | publish, apply, refresh, pause, resume, skip, seek, finish | gossip, player, buffer operations | old states after new ones, positions from other peers' clocks | states in order of issue, one next track, positions in range |
| Playback health (`playback_health.rs`) | last status per peer, time of loss, whether paused for it | mark, rate-limit, evaluate, reset | gossip, buffer operations | stale and reordered health, messages of another session, three seconds of grace | a pause when the grace of a lasting loss is over, none without need, one per loss |
| Connection strategy (`connection_state.rs`) | routes, addresses, backoff, warm-up, handoffs | connection, subscription, dial and dcutr results, ticks | swarm (effects) | connections closing during a handoff, dials in flight | never give up the only usable route |
| Chat history (`backend.rs`, `core.rs`) | records, ids seen, request cooldowns | send, receive, summary, request, response, trim | gossip | lost and reordered records, clocks apart, a cap | causal order, the newest are kept, histories level out |
| Rendezvous and recovery (`backend.rs`) | cookies, reservations, `ZeroPeerRecovery`, timers | register, discover, dial, recover, shut down | rendezvous nodes | cookies that hide a peer, dials and nodes that fail, several links to one peer | recovery runs exactly while everybody is lost, a room is found again |
| Streaming player (`player.rs`) | session, shared bytes and position, PCM window, tokens, sink | prepare, start, seek, pause, stop, change of device | HTTP, buffer operations | three threads that wait on each other around one window | no thread waits for ever, a stream reports, memory stays in its window |
| Media cache (`media_cache.rs`) | watermarks, byte ranges, files | window, metadata, request, retain | the downloader | what is retained, what is asked for | what a decoder needs stays or is fetched again |
| Relay server (`src/src/bin/light-ear-relay.rs`) | topology view | connect, reserve, circuit, register | peers | events out of order | the view shows what is connected |
| Bilibili resolver, Tauri bridge, desktop UI | none of the protocol | translate, render | - | - | - |

`PROJECT.json` lists the hazards of this code by line, with the property that
covers each or the reason why none does yet.

## 2. Modules

| Module | What it is |
|---|---|
| `MusicState` | queue and votes of one peer as pure operators: `ActiveVote`, `resolve_vote`, `stale_vote_reason`, `execute_vote_action`, `apply_remote_queue_state` |
| `QueueRoom` | the room's queues and votes: a peer's `music`, `inbox`, `cooling`, `connected`, and one action per command, message, timer and connection event |
| `SharedQueue` | what the replicated queue promises as long as nobody votes; implemented by `QueueRoom` |
| `BufferState` | the playback half of `MusicState` and `BufferCoordinator`, as pure operators on one peer's state |
| `BufferRoom` | the room's buffer operations: a peer's queue, playback, operation, stream and waiting events; a handler is a composition of the code's functions, in the code's order |
| `PlaybackHealth` | what each peer reports of its buffers while the room plays, and when the leader pauses the room for it |
| `ConnectionState` | `connection_state.rs` as pure operators on what one peer keeps of its connections to another: routes, backoff, warm-up, handoff |
| `PeerLinks` | both ends of the links between two room peers: swarm events, timers and effects at each end, what libp2p may do in between |
| `Rendezvous` | registration, discovery, dials and the zero-peer recovery of the peers of a room, with the nodes as environment |
| `ChatHistory` | records, their causal order and what a full history drops, as pure operators |
| `ChatRoom` | the chat: sending, summaries, requests and responses, peers that join and leave |
| `Streaming` | the downloader, the decoders and the mixer of one streaming session, and the player's calls |
| `MCQueueRoom`, `MCBufferRoom`, `MCPeerLinks`, `MCChatRoom`, `MCRendezvous`, `MCStreaming`, `MCPlaybackHealth` | values for the constants of the runs |
| `MusicStateProofs`, `QueueRoomProofs` | proofs about the operators of a peer's queue; that the room's votes are counted right and run on their version, that no queue holds an item twice or loses what nobody removed, that stamps tell queues apart, and that `QueueRoom` implements `SharedQueue` |
| `BufferRoomProofs` | that nothing plays without its quorum, no operation ends twice, no item goes without its request being played or skipped, no playback state rolls back, and rivals do not count each other |
| `PeerLinksProofs` | what each handler of `ConnectionState` preserves, and the invariants of `PeerLinks` |
| `RendezvousProofs`, `PlaybackHealthProofs` | proofs about the recovery, and about the pauses of a starving room |
| `StreamingProofs` | that a session asks for what the media has, and that its memory stays bounded |
| `ChatRoomProofs` | that a history keeps the newest messages, shows causes first and drops them first |

### How state and actions correspond to the code

`QueueRoom`: `music[p]` is the queue part of `MusicState` with `active_vote`;
`cooling[p]` is `queue_request_times`; `connected[p]` is what `room_peer_count`
counts; `inbox[p]` is gossip under way; `ballots` and `decided` are history
variables. `EnqueueBilibili`, `RemoveQueueItem`, `ProposeRemove`, `ProposeMove`
and `Vote` are commands; the `Receive...` actions are the arms of
`apply_wire_message` with everything they call (`ResolveVote` is the
`resolve_active_vote` they end in); `MusicLocalTick` is the vote timeout of the
100 ms tick; `PublishQueueSummary` and `PublishQueueSnapshot` the periodic
publications; `ConnectionEstablished` and `ConnectionClosed` the swarm events.

`BufferRoom`: `peer[p]` holds `music`, `playback` (`PlaybackPhase`), `buffer`
(`BufferCoordinator`), `stream` (`StreamingSession`), `events` (the player's
channel) and `failed` (`failed_audio_sessions`). The operators that take a
handling `h` are the functions of `backend.rs` - `ResolveBufferOperation`,
`BeginBufferOperation`, `CommitOperation`, `HandlePlayerEvent` and so on - and
an action runs a handler of them: `MusicLocalTick` is events, resolve, start
next, health, finish; `Receive...` the arms of `apply_wire_message`;
`ConnectionClosed` and `SlowPeer` take a peer out of the quorum. `StreamReady`,
`StreamFailed` and `PlaybackFails` are the player's threads, `DeadlinePasses`
the clock. `log` is history. `PrepareStream` has the three outcomes a prepare
in the same session has in `player.rs:355-412`: the target is buffered, ahead
in the window (nothing restarts), or outside it. `RemoveStartedItem` is
`remove_started_playback_queue_item`: by every state it applies, a refreshed one
too, a peer takes the first item of the started one's track and requester that is
no later than the state (`SameRequest`), and a status of any operation makes a
leader look at its own again (`ReceiveStatus`).

`PeerLinks`: `conn[e]` is the entries that end `e`'s `ConnectionState` has under
the other peer's id; `dials[e]` counts the `DialDirect` effects libp2p has not
answered; `link[l]` is what has become of connection `l`: how each end sees it
(`at`), who asked to close it, whether it broke, and for how long (`age`) one
end has not known what the other does. An action runs a handler of
`connection_state.rs` and then `apply_connection_effects` (`Handle`), where the
swarm may refuse a dial at once. `Establish`, `Closed`, `LearnAddress`,
`ExpireAddress`, `Subscribe`, `Unsubscribe`, `DialFails`, `HolePunch...` are
arms of `handle_swarm_event`, `RetryDirectPromotions` and `RetryWarmupPromotions`
the 30 s and 500 ms ticks.

`SharedQueue` is an abstract last-writer-wins queue: a copy per peer, changed by
its owner or replaced by a newer one that somebody had. The refinement
(`QueueRoom!Shared`) maps a peer's copy to its `build_queue_state`, and the
copies under way to the queue states in snapshots and responses. It contains
that no peer's queue rolls back, that nothing is made up, and that a change
outdates everything there was. With votes it does not hold: a passed vote
stamps the queue at every peer (section 6).

`PlaybackHealth`: one action per event of a stream (`Report`, through
`publish_local_buffer_health`), per message (`Receive`) and per second (`Tick`
and the leader's `LocalTick` after it, where `Looks` is
`maybe_pause_for_buffer_health_loss`). `tracked`, `published`, `statuses`, `loss`
and `paused` are the fields of `PlaybackHealth` of every peer, as far as they are
used there. `StartTrack`, `PlayOn`, `OperationEnds`, `Pause` and `StopPlayback`
are what the buffer operations and votes do to the room's playback; while
the leader has an operation it does not look. History are `stalled` (how many
times in a row no majority was far enough, whatever the leader knows of it),
`remembered` (how many times it looked since it forgot the session),
`forgot` and `recovered` (whether it forgot, or there was a majority, since
the last pause) and `misled`. Only a new track and a pause begin `stalled` anew, and a majority.

`ChatRoom`: `history`, `seen`, `asked` are `history`, `seen_messages`,
`history_request_times`; `network` is gossip under way. `Send` is
`NetworkCommand::Chat`, `Announce` the summary published on a timer and on
connections, `Receive...` the arms of `apply_wire_message`, `CoolDown` the end
of `HISTORY_REQUEST_COOLDOWN`. Histories are in memory and every start has a new
peer id, so a restart is a `Leave` and a `Join` of another peer. `skew` is how
far each clock is ahead, chosen at first; `context` and `met` are history.

`Rendezvous`: `links`, `nodeLinks`, `dialing` are the swarm's connections and
dials, `listening` and `reserved` the relay reservations asked for and held (the
external addresses), `recovery` the `ZeroPeerRecovery` with its deadlines as a
number, `cookies` what the peer's cookies cover. `Start`, `NodeDialed`,
`PeerDialed`, `LinkBreaks` and so on are the arms of the loop for swarm and
rendezvous events; `RegisterTick`, `DiscoverTick` and `Recover` its timers.
`registered` and `answers` are the node's.

`Streaming`: `bytes` is `SharedBytes`, `position` the shared playback position,
`downloader` is `download_streaming_bytes`, `decoders` every decoder thread the
session had (the last is not canceled), `sink` the source the sink plays and
`late` the source of a stopped sink that the mixer has not left. A step of a
thread is what it does between two locks; `Init` is the first `prepare_stream`,
and `PrepareStream`, `SeekStream`, `StartPreparedStream`, ... are the calls of the player.

### Abstractions

- Payloads: an item is who asked for it and when, and a vote id and an operation id
  are a peer and its clock (`{peer}:{now}` in the code). The queue and its votes
  look at nothing else of an item, since ids are unique. For playback the track
  counts too: `BufferState` has it as a function of the item (`TrackOf`), and in
  `buffer_items` one peer asks for one track twice. A playback, an operation and a
  stream keep the item they came from for the track and its requester, and these are
  all that is compared (`KnowsTrack`, `SameRequest`).
- Clocks agree and never repeat, except in `ChatRoom`, where a run also has one
  that is ahead. The queue relies on agreeing wall clocks for last-writer-wins;
  its skew and equal readings are not modelled.
- Gossip. `QueueRoom`: a message reaches a peer at most once, after any delay,
  in any order, or never. `BufferRoom`: a message may also be delivered again,
  since prepares and statuses are republished; a copy has the same effect as
  the original, so one set of messages stands for all of it. Direct or relayed
  routes make no difference.
- `QueueRoom` has a track playing throughout, so the `start_next_if_idle` at the
  end of an enqueue returns at once; what starting does is `BufferRoom`'s.
- `BufferRoom`: queues are equal at first; a status matters to the operation's
  leader only (followers show theirs in the UI); whether a peer has an audio
  output, and whether it can resolve media, is constant; the loss of the healthy
  majority, and the end of a track, come when they come. A player that cannot be brought
  to the playback state at a tick (`backend.rs:964-1016`) is treated as one whose
  stream failed (`PlaybackFails`), and left out.
- `ConnectionState`: an `Instant` is its age in units of a clock, up to the age
  after which it makes no difference; a missing backoff entry is the default one;
  `suspended_reported` only decides on a status line and is left out. Entries of
  different peers do not influence each other, so one remote peer is enough; it
  is a room peer, not a rendezvous node. `num_established` agrees with the routes.
- `PeerLinks`: a connection is established and closed at each end within `Delay`
  units of the other unless it broke, and of a broken one an end may have no news
  for any time. The runs have `2 * Delay < HandoffGrace`: ten seconds of grace
  are longer than the two messages it takes, and `KeepsALink` rests on exactly
  that: `RelayHandoff.cfg` with `HandoffGrace = 2` violates it. A peer is reported
  as subscribed while connected.
- `PlaybackHealth`: seconds and whole seconds of a track; a tick of the leader
  follows every second, so one between two seconds, which sees nothing new but
  younger messages, is left out. An operation, once it ends, has brought a
  ready majority or nothing; it is not composed with `BufferRoom`.
- `ChatRoom`: a record is its author, number, context and time of sending. What
  a peer sends to others goes to each of them on its own. A response that
  exceeds gossipsub's message size is never published (section 6).
- `Rendezvous`: a link breaks at both ends at once, a node takes a request up at
  once and its answer travels; time is left to the order of timers, TTLs and
  delays are those of the code only in their order (a registration lives longer
  than the interval at which it is renewed, a deadline comes after the one before).
- `Streaming`: time in packets, bytes in chunks, and a chunk may hold more or
  fewer packets than the estimate of the code has it. The media may be longer or
  shorter than the track is for the room, whose duration is the API's, in whole
  seconds (`bilibili.rs:326`); in `streams` it is a packet longer, so that near the end
  nobody waits (`player.rs:2458`). A replaced decoder keeps its samples. Steps taken together since nobody
  can tell: fetching and appending a range, what is given up after an append
  and at the loop's head, a sample and the position it sets, a pause and its
  effect on the mixer. A packet plays longer than a decoder that waits for no
  bytes takes for the next (`DecoderIsBusy`; the throttle looks every 100 ms).
  A mixer that waits in a stopped sink keeps the new one waiting: what plays goes on
  (`PlayingGoesOn`) because what the samples keep behind the position, 6 s, is less than
  the 30 s they reach ahead. Files are written and never read back, so they are
  left out; how much memory bytes take is not checked.
- The `PlaybackPrepare`/`Ready`/`Cancel` messages have handlers but no sender in
  this code (`begin_playback_prepare` is called by tests only), and are left out.

## 3. Runs

All bounds are constants of the modules and appear in guards only.

| Run | Instance | Shows |
|---|---|---|
| `queue_votes` | 3 peers, 2 votes, one peer whose votes time out | `CountedBallotsWereCast`, `OneBallotPerVote`, `VoteAgreement` |
| `queue_changes` | 2 peers, 2 items, 1 change, 1 vote, 2 connection changes | `SameStampSameQueue`, `NoDuplicateItems`, `VotesRunOnTheirVersion`, `QueuesKeepTheRest` |
| `queue_sync` | 2 peers, 2 changes, broadcasts lost, fairness | `ImplementsSharedQueue`, `QueuesConverge` |
| `buffer_quorum` | 3 peers (one silent, one with a stream that may break), 1 operation, 1 departure or slow peer | `NothingPlaysWithoutQuorum` |
| `buffer_items` | 2 peers, 3 items of which 2 are one request, 2 operations, seeks to targets buffered and outside, 1 finish, 1 refresh, 1 leaver | `TypeOK`, `ItemsAreNotLost`, `PlaybackNeverRollsBack` |
| `buffer_ends` | 2 peers with audio, 2 operations of any kind, seeks to targets ahead in the window and outside it, one peer that may lose health, fairness | `OperationsEndOnce`, `RivalsDoNotCountEachOther`, `LeaderOperationsEnd` |
| `promotion` | 1 end, a relayed and a direct link, 1 address learned twice, 1 break, 3 failures to suspension, fairness | `TypeOK`, `StateFitsRoutes`, `AttemptsAreDials`, `AttemptsAreBounded`, `PromotionSettles`, `HandoffsEnd` |
| `relay_handoff` | 2 ends, a relayed and 2 direct links, 1 break, 1 end that unsubscribes | `KeepsALink` |
| `chat` | 2 peers, one joins late and may leave, histories of 2, 3 messages, 1 lost, clocks that agree or one 2 ahead, fairness | `TypeOK`, `NewestAreKept`, `CausalOrder`, `AnswersGoLast`, `HistoriesLevelOut` |
| `recovery` | 2 peers, one starts late, 1 node, 1 break, 1 fault of the node, 1 failed dial, 2 delays, fairness | `TypeOK`, `RecoveryIffLost`, `PeersMeet` |
| `streams` | a track of 4 whose media has 5 packets in 4 chunks, windows of 1 and 2, 1 pending request, 2 attempts, 2 calls, fairness | `TypeOK`, `MemoryIsBounded`, `StreamsReport`, `PlayingGoesOn`, `CanceledThreadsEnd` |
| `health` | 2 peers, 2 tracks of 3 s, grace and staleness of 1 s, 2 messages under way | `TypeOK`, `StallsArePaused`, `PausesAreForLoss`, `OnePausePerLoss` |

Why the bounds are enough to meet the cases: three peers are the least for which
a majority can be had without a peer and two peers can know different ballots;
two votes are the least that are open at once; two operations are the least that
rival, and that let a stream of the first answer for the second (a start, then a
seek or resume in its session); two items of one request and another's between them
are the least of which the wrong one can be taken out; two changes are the least that conflict; two
direct links are the least with which a handoff is scheduled again while the
first one is under way; retry intervals of 1, 2 and 3 units with a suspension at
3 failures are the least that slow down at each step and stop. Three
messages are the least that overflow histories of two and that let a dropped one
come back from a peer that still holds it; one that joins late is the least that
has to be told; a clock two ahead is the least that outdates an answer to its
own message and the one after. One break and one fault of the
node are the least that leave a peer without peers and without the node it
would find them at. Two calls are the least that cancel a decoder while the mixer
is in its samples and then another; one pending request is the least that
makes two decoders displace each other's. Two tracks are the least that make
health messages of an earlier session, and two messages the least that overtake
each other. What a bound excludes is stated: no run has two starts in a room of
three, where an item can start twice, since a third peer answers ready to both
starters, nor three operations in a room of two, where it also can (section 6). The chat of three peers, one of which leaves and one joins late, has
been checked for its safety properties once (`Peer = {1, 2, 3}`, `MaxLost = 0`, 6
million states) and is too large for the list. In `buffer_ends` every medium is
resolved and every stream gets ready. `BufferEnds.cfg` with all three targets (331 thousand
states), with a stream that may break (`StreamFails = {p2}`, `Unhealthy = {}` and all
three targets, 685 thousand, or `Unhealthy = {p1}`, 699 thousand) and with media that
cannot be resolved (`MediaFails = {p2}`, `Unhealthy = {p1, p2}`) has been checked and
passes as well, but for the last one takes too long for a run of the list.

### Fairness

`QueueRoom`: weak fairness of the summary timer and of the request cooldown,
which are timers of a running loop; strong fairness of the delivery of
summaries, requests and responses, which are published again and again as long
as queues differ. A broadcast of a change is sent once and nothing is assumed of
its delivery.

`BufferRoom`: timers of a running peer fire (`TickDue`: a tick that has events
or a decision waiting is taken; written out since ENABLED of `Tick` is costly to
evaluate, and weaker than weak fairness of it), deadlines pass, the closing of a
departed peer's connections is noticed (keep-alive), and a stream that does not
fail gets its data (downloads are retried and bounded). No message is assumed to
be delivered: `LeaderOperationsEnd` holds of a leader that never hears an answer.
It excepts what waits in vain (`WaitsInVain`): a leader that is Buffering puts its
deadline off for as long as it is, and when its stream reports to another operation, or
it has none, nothing ends that. The code has two ways to get there (section 6), of which
`buffer_ends` meets the seek to a target ahead in the window.

`PeerLinks`: time passes, the two ticks of a running loop fire, libp2p answers
every dial with a connection or an error (it has a timeout of its own), and a
closed connection is reported. `relay_handoff` has safety only and needs none.

`ChatRoom`: the announcements are on a timer and a cooldown ends (weak
fairness), and the network delivers or loses whatever belongs to the exchange in
the end. Chat messages are published once: nothing is assumed of them, and up to
`MaxLost` messages get lost.

`Rendezvous`: the timers of a running loop fire, a dial ends, a reservation asked
for over a connection is granted, an answer of a connected node arrives. That a
dial to a reachable peer or node ends well is not assumed: `MaxDialFailures` may fail.

`Streaming`: the download, each decoder thread and the mixer go on (the audio
device asks for samples as long as there is one); a request may fail or be
tried again but is answered in the end. `health` has safety only: the tick
that must follow a second (`due`) stands in for the timer.

## 4. Proofs

| Theorem | Statement |
|---|---|
| `TypeCorrect` | `Spec => []TypeOK` |
| `BallotsAreCounted` | `Spec => []CountedBallotsWereCast` |
| `BallotsAreUnique` | `Spec => []OneBallotPerVote` |
| `VotesAgree` | with every peer linked to every other: `Spec => []VoteAgreement` |
| `PassedMeetsRejected` | peers enough to pass and peers enough to reject have one in common |
| `LinksTypeCorrect` | of `PeerLinks`: `Spec => []TypeOK` |
| `RoutesFit` | `Spec => []StateFitsRoutes` |
| `AttemptsStayBounded` | `Spec => []AttemptsAreBounded` |
| `AttemptsAnswered` | with no end that unsubscribes: `Spec => []AttemptsAreDials` |
| `QueueIsShared` | with no votes: `Spec => ImplementsSharedQueue` |
| `StampsTellQueues` | with votes: `Spec => []SameStampSameQueue` |
| `ItemsAreDistinct` | with votes: `Spec => []NoDuplicateItems` |
| `TheRestIsKept` | with votes: `Spec => QueuesKeepTheRest` |
| `VotesRunOnVersions` | with votes: `Spec => VotesRunOnTheirVersion` |
| `BufferTypeCorrect` | of `BufferRoom`: `Spec => []TypeOK` |
| `QuorumBeforePlayback` | `Spec => []NothingPlaysWithoutQuorum` |
| `OperationsEnd` | `Spec => []OperationsEndOnce` |
| `ItemsStay` | `Spec => []ItemsAreNotLost` |
| `PlaybackIsMonotonic` | `Spec => PlaybackNeverRollsBack` |
| `RivalsStayApart` | `Spec => []RivalsDoNotCountEachOther` |
| `RendezvousTypeCorrect` | of `Rendezvous`: `Spec => []TypeOK` |
| `RecoveryRunsIffLost` | `Spec => []RecoveryIffLost` |
| `HealthTypeCorrect` | of `PlaybackHealth`: `Spec => []TypeOK` |
| `StalledRoomsPause` | `Spec => []StallsArePaused` |
| `OnePause` | `Spec => OnePausePerLoss` |
| `PausesForLosses` | `Spec => PausesAreForLoss` |
| `StreamTypeCorrect` | of `Streaming`: `Spec => []TypeOK` |
| `MemoryStaysBounded` | `Spec => []MemoryIsBounded` |
| `ChatTypeCorrect` | of `ChatRoom`: `Spec => []TypeOK` |
| `KeepsTheNewest` | `Spec => []NewestAreKept` |
| `ShowsCausesFirst` | `Spec => []CausalOrder` |
| `DropsCausesFirst` | `Spec => AnswersGoLast` |
| `HandoffsLeaveALink` | `2 * Delay < HandoffGrace` gives `Spec => KeepsALink` |

They hold for every finite set of peers, any links, addresses, delays, bounds and
targets, under the assumptions on the constants named in the modules; of the
timing constants these are only that the window in which two failures count as
one is no longer than the shortest retry interval, that intervals grow and, for
`HandoffsLeaveALink`, that the grace is longer than two delays.

`QueueRoomProofs` sorts the actions by what they do to votes: quiet ones, opening
a vote, voting, learning of a proposal and counting a ballot (`NextMovesVotes`).
`CountedBallotsWereCast` is not inductive: a ballot is counted from a message or
from the peer's own hand, so `BallotsInv` adds that messages carry ballots that
were cast (`MessagesWereCast`), that a peer's own ballot is in its vote
(`OwnBallotIsCounted`), that a proposal still under way is of a vote its receiver has neither opened nor
cast a ballot on, and no other proposal has its id (`ProposalsComeFirst`)
and that ids belong to past times (`VoteIdsArePast`), which keeps a new vote from
meeting old ballots. `OneBallotPerVote` needs all of it: a peer votes once since
its own ballot is counted as long as its vote is open, and a closed vote does not
come back with the peer's ballot missing. `DecisionsInv` says that, until a
connection changes, every decision is warranted by ballots cast, over the whole
room; `VoteAgreement` follows, as the passing and the rejecting set meet
(`PassedMeetsRejected`, by cardinalities of finite sets) and the peer in both
would have cast opposite ballots.

`PeerLinksProofs` has a lemma per handler of `connection_state.rs`: it
keeps `Good` (type, `FitsRoutes`, `BoundedBackoff`) and, apart from an
unsubscription, `ReadyAttempt`. `AttemptsAreBounded` is not inductive. One
failure that is not counted lets an attempt end for free, so `BoundedBackoff`
says when that can be: an attempt beyond twice the failures starts only after
the last failure has left the window, since the interval it waited is at least
as long, and what ends it is then counted. `AttemptsAreDials` needs that an
attempt under way is of a peer that is subscribed or done with its warm-up
(`ReadyAttempt`): its direct connection is then kept and ends the attempt, where
an early one would be closed with the attempt still marked.

`HandoffsLeaveALink` rests on the inductive invariant `Handoffs`. Routes are links
that are up at this end (`Routed`), a link that is down at an end was asked closed
or broke (`LostForAReason`), and for each end with a handoff under way and each
direct link that is up there (`Timely`): while the link is not yet at the other
end, the handoff has lasted no longer than the link has been awaited, since
the connection started the handoff anew; once somebody asked to close it, no
longer than a `Delay` more than that. It needs both clauses: the first turns
into the second when the other end closes early what it has just established.
An end asks in two events only (`TwoEventsAsk`). An early close takes the link
just established, which is not the one that was usable. At the end of a handoff
`HandoffGrace` units have passed, so that neither clause can apply: the
direct link is at both ends and not asked, or broke without this end knowing.

`QueueRoomProofs` also shows that the initial state of `QueueRoom` is one of
`SharedQueue` and that a handler makes an `Exchange`, an `Adopt`, a `Change` or a
stutter (`NextShared`). That a change is newer than every copy there is, under
way ones included, rests on the inductive invariant: every copy was stamped
before `clock` (`AllArePast`), nobody votes (`NobodyVotes`, with `MaxProposals =
0`), and copies of one stamp are equal (`StampsTell`).

`StampsTellQueues` has votes. Its invariant `StampsInv` says of all copies, kept or under
way, that those of one version and time are equal unless the time is a vote's
(`VoteTimes`), and that every open or proposed vote has a ballot, its author's own, so that
its time is one of them. Votes only add to these times (`BallotsGrow`), a vote
that runs stamps with its own, and a change by hand stamps with a time at which there
is neither a copy nor a vote (`StampsHold`).

`ItemsAreDistinct` needs no restriction on votes. Its invariant `CopiesAreSound`
adds to `NoDuplicateItems` that items were asked for before `clock`, which makes
an enqueued item a new one; that a removal leaves the rest, and that a move takes
the item out before it puts it in, are the lemmas `WithoutIndexHolds`,
`InsertedHolds` and `ExecuteHolds` about the operators of `MusicState`.
`TheRestIsKept` is about order too. Taking an item out, putting one in and appending one
leave the others in their order (`WithoutIndexAgrees`, `InsertedAgrees`,
`AppendAgrees`, by the positions that go into each other), which needs queues without
duplicates, and a step does one of these to its own queue or to one it has just
taken over.

`VotesRunOnVersions` is an action property: it looks at the vote before a step and
at the queue after it. The vote a peer holds may already have run elsewhere, and
the queue that comes in may be the one it left, so the invariant `VersionsInv`
speaks of all votes that are open or proposed in a message (`Known`) and all
queues there are: one that has a vote's time has the version after the vote's
(`VersionsFit`). Every step runs known votes (`RunsVotes`), changes a queue by hand
at a time no vote has (`ChangesQueue`), or opens a vote at a time no queue has
(`OpensVote`). What `resolve_active_vote` may leave is `ResolveStamps`: a vote on a
later version waits and one on an earlier version is stale, so that one that runs
meets its own version.

`BufferRoomProofs` has two invariants. `Inv` says of all that is kept or under way
what the history must hold for it: a ready status needs a peer that prepared this
operation, a playback state a commit of its session, a queue a reason for each
item it lacks, and an operation its leader still runs must not have ended. A
handler composes functions of `backend.rs`, so its proof composes too: `Fits(p,
h)` is the invariant of a handling under way, `Follows(p, h, g)` what lies between
two points of it (time goes on, the history grows, the operations that end are
`p`'s own, playback gets no older), and there is a lemma for each function before
one for each action. `NothingPlaysWithoutQuorum`, `OperationsEndOnce`,
`ItemsAreNotLost` and `PlaybackNeverRollsBack` follow from it. That an operation is
not ended twice rests on ids of past times (`HistoryFits`), which keep a new
operation from meeting an old end.
What a playback state takes out, and keeps, is `TakesItsRequest`: the first item
that fits the started one (`LeastIndex`), which is that item or one of the same request, so that
whoever lacks an item has a commit to show for it.
The second, `Answered`, is about rivals. A ready that a leader counts was said by
its peer (`CountsSaid`), and an operation is begun after whatever ready its leader
said to another's (`LeadsLater`), since who answers has given up its own.
Two leaders that count each other would each have begun after the other.

`StreamingProofs`: the window bound is not inductive, as a decoder that reads may
be at it. `DecoderFits` says that one has room for a packet unless there is none
left, since it only reads after it found that it is not far ahead of the
position it then trimmed for, or that this is near the end of the track, where what
is left of the media bounds it. `SourceFits` bounds a mixer's index by the base of
its decoder's samples, which only grows (`Advances`), when it is canceled too.
`BytesInv` is about what is kept and asked for. `Only` (`VecDeque::retain`) takes the
k-th of the places it keeps, and there is one for every k up to their number
(`KthOfNumbers`: counting upwards, the count grows by one at most), so a queue
never holds but what was put into it. An estimate is within the media (`ChunkOfPosition`),
and so is the first of what a decoder or the target window misses (`FirstMissing`).

`RendezvousProofs`: `RecoveryIffLost` speaks of running peers, but a link closes
at both ends, so the invariant needs `OnlyMembersTakePart`: who does not run has no
links, links are mutual and answers go to running peers; and that who has a
link has met somebody, so that the first peer's loss is a loss.

`PlaybackHealthProofs`: the leader may believe in more buffer than there is as
long as a message is stale. `Known` says that whatever of this session is known,
published or under way, a stream had got as far as it says, so that
who is taken for healthy is in fact far enough; `Counted` that the leader's
`loss_since` is as old as the stall, or what the leader remembers of it
(`Remembered`), less the tick that is due; `PausedOnce` that `paused_for_loss` is set for
this session exactly as long as there was no majority since the pause and the leader did
not forget (`PausedBefore`). Then a stall that it remembers for longer than the
grace meets a tick that pauses, and a pause that finds `paused_for_loss` unset is the first, or
follows a message of another session. `PausesAreForLoss` needs the converse of `Known`: what a peer has
published the leader was told, or it is on its way, unless a message was lost,
overtaken by an older one or forgotten with its session (`misled`); `Informed` is the
invariant. So whose published buffer is good for the position counts as healthy.

`ChatRoomProofs`: a history is sorted by a recursive function and a response
is inserted by a fold. The library's induction takes an operator, so induction
on a number is done about the set of the numbers for which something holds
(`LeastNumber`, `AllNumbers`), and `Recursion` shows once that a function which
goes down along a measure exists. `SortedDefined` and `InsertedInTurn` are its
uses: `Sorted` has the values it is written with, and a fold of `Insert` is a
sequence of insertions. `SortedIs` and `ShownFirst` say what such an order is, for a
finite set of records of which each part has one that depends on nothing in the
part (`Grounded`). That the sent records are such a set is the invariant
(`PastOK`): a record has the time at which it was sent, its author's clock
without the skew, and depends on earlier ones only, as its frontier is below
the ids given later. What an insertion keeps (`InsertKeeps`) and drops
(`InsertDrops`) then follows whatever arrives, again or out of order:
`NewestAreKept` since with agreeing clocks the record shown first is the earliest,
`AnswersGoLast` since it depends on nothing that stays.

Model-checked only: liveness and fairness (`QueuesConverge`,
`LeaderOperationsEnd`, `PromotionSettles`, `HandoffsEnd`, `HistoriesLevelOut`,
`PeersMeet`, `StreamsReport`, `PlayingGoesOn`, `CanceledThreadsEnd`). Each invariant and
each action property that a run checks is stated by a theorem.
Liveness and ENABLED are outside what the installed provers do; the modules hold
no RECURSIVE operator.

## 5. Mutants

Each property of a passing run is paired in `PROJECT.json` with a plausible bug
of the code it is about: definitions such as `RemoveExpectedOnly`, `RegisterOnce`,
`ThrottledForEver` or `CastVoteForAny` stand before the definition they replace, are used nowhere
else, and make TLC find the property violated.

## 6. Seen while reading

No run of the list is expected to fail. What follows is where the code and its documents
disagree, or where it does what its users would hardly want; where a small
instance shows it, the instance is given.

Queue and votes
- The majority is counted over the peer's connections of the moment
  (`backend.rs:5555`), so one set of ballots passes at one peer and rejects at
  another, against "Vote result applies deterministically on every peer that
  receives it." (`manual-smoke-test.md:149`). `QueueVotes.cfg` with
  `MaxProposals = 1`, `MaxChurn = 1` and the invariant `VoteOutcomeIsShared`
  shows it; `VoteAgreement` excludes rooms whose connections change.
- Every peer stamps the queue of a passed vote with the vote's time
  (`music_state.rs:525`): two different queues of one version get one stamp
  and never replace each other, against "All peers converge on the same queue order
  and queue version." (`manual-smoke-test.md:85`) and "After every accepted operation, all
  peers show the same queue by `item_id`." (line 100). `QueueSync.cfg` with
  `InitOwners <- OneItem` and `MaxProposals = 1` violates `SameStampSameQueue` without its
  exception of the votes' times.

Buffer operations
- `begin_buffer_operation` announces an operation before it resolves the media
  (`backend.rs:5325`); a failure there leaves it active, its leader Buffering and
  the deadline extended for ever, against `ARCHITECTURE.md:206`. `BufferEnds.cfg`
  with `MediaFails = {p2}`, `SeekTargets = {"Outside"}` violates `LeaderOperationsEnd`
  without its exception (`WaitsInVain`); where all media resolve it then holds without it.
- A seek into the buffered window with too little after the target gets no ready
  report, since the decoder's one report went to an earlier operation
  (`player.rs:391`): `BufferEnds.cfg` as it is violates `LeaderOperationsEnd` without
  that exception.
- By every playback state it applies a peer takes out the first item of the started
  one's track and requester that was added no later than the state was issued
  (`backend.rs:5039-5073`), and the refresh issues the state anew every time
  (`backend.rs:1117-1124`): of two requests of one track by one peer the second is
  lost at the followers while the first plays. `BufferItems.cfg` violates `ItemsAreNotLost`
  with `item = c.track` in place of `SameRequest(item, c.track)`, in 8 states. It is
  why the property has the request.
- An operation whose leader left stays active at its followers
  (`backend.rs:4713`): `BufferEnds.cfg` with `Leavers = {p1}`, `MaxOperations = 1`
  and the property that a follower's operation ends.
- An item can start twice in a room of two: `p2` misses the playback state of
  `p1`'s start, so that it keeps the item and `p1`'s operation; a seek's prepare replaces the
  operation, its cancel clears it, and `p2`, idle, starts the item again.
  `BufferEnds.cfg` with `MaxOperations = 3`, `Unhealthy = {}`, `SeekTargets =
  {"Outside"}` and the invariant that the commits of a track have one session.
- `ARCHITECTURE.md:209` has Start remove the item only after quorum, the code
  also removes it when it skips one; the smoke test (line 123) has the leader
  start the next item, the code lets any idle peer; a media error in Seek or at
  the end of a track ends `run_network`; a follower whose media failed begins a
  Start of its own at its next tick (`backend.rs:4689`), against
  `ARCHITECTURE.md:228`.

Playback health
- Healthy means buffered 5 s beyond the position (`backend.rs:4506`) while
  no stream has more than its track: in the last seconds of every track nobody
  is healthy, and the room is paused and resumed, or asked to, before each end,
  which `ARCHITECTURE.md:198-200` does not mention. `StallsArePaused` and
  `PausesAreForLoss` use this measure.
- The rate limit drops the last advance before a stream is complete, so that a
  peer may be known with less than it has; `_min_buffer_advance_ms` is
  unused. A health message of another session makes a peer forget its statuses,
  the grace and `paused_for_loss` (`playback_health.rs:36-45`): as long as such
  messages keep coming within every grace, a starving room plays on, against "If the
  leader sees healthy peers below strict majority for 3 seconds" (`ARCHITECTURE.md:198-200`),
  and a room may be paused twice for one loss. `Health.cfg` violates `stalled > LossGrace =>
  ~recovered`; `StallsArePaused` and `OnePausePerLoss` except what the leader forgot, and
  nothing else. A lost last Ready is never repeated. A peer without audio
  output never publishes, so a room of two with one is paused once.

Chat
- Histories are compared by their number of messages and their newest one: peers with
  equally many but different messages may never exchange them
  (`test-report-audit.md:26`, `manual-smoke-test.md:213` promise more), which is why
  `HistoriesLevelOut` speaks of numbers.
- Where clocks are apart, a response may bring a question back after the answer
  to it was dropped, as its records are inserted one after the other into a full
  history (`backend.rs:3294`); `AnswersGoLast` therefore speaks of agreeing clocks or of
  other messages than responses. `Peer = {1, 2, 3}`, skews of 0 and 3, `MaxSent = 5`,
  `MaxLost = 3` show it, in a simulation.
- A `HistoryResponse` larger than gossipsub's limit is
  never published (`backend.rs:2419-2447`).

Connections
- While room peers remain nothing dials a lost node again nor renews the
  reservation (`backend.rs:379-395`, `1853-1861`), and a peer that starts while
  its relay is down never asks again: newcomers cannot find it. `PeersMeet`
  therefore speaks of peers that are connected and hold a reservation.
- A discovered peer whose dial failed is hidden by the cookie until it registers again.
- A peer that unsubscribed while a dial to it is under way is left with
  `in_flight` set and not dialled again (`Promotion.cfg` with `Leavers = {a}`),
  which no client of this code does.

Streaming
- Between `sync_shared_base_position` and `sample` the decoder may trim: the
  mixer takes a later sample than it meant, or ends early. After a prepare or seek
  of the loaded session the old source plays on and overwrites the position,
  which is the third case of `StreamsReport`. `prepare_stream` of the loaded
  session does not pause the sink; within the window but not ready it never
  gets a Prepared of its own. `restart_streaming` reads base and dropped samples
  under two locks. After `RecoverOutputDevice` of a stream that is not ready the
  player is left playing without a sink.

## 7. Not modelled, and the plan

1. `PlaybackRoom`: the votes to pause, resume, skip and seek on top of
   `BufferRoom` (their ballots are those of queue votes), and positions in
   microseconds (`playback_position`, `normalize`, drift) against a reference.
2. The compositions that are still inputs of each other: enqueueing with
   `BufferRoom` (a prepare that overtakes its item), `PlaybackHealth` with
   `BufferRoom`'s `LoseBufferHealth`.
3. The merging of byte ranges in `media_cache.rs` against sets of bytes, the
   headers and the eviction of files.
4. The relay's topology view, which no peer reads.

Theorems next: those of `PlaybackRoom`, and that merging byte ranges keeps them apart
and in order (`RangeIndex::insert`).

Left out for good: Bilibili's API, rendering, files and audio devices, the
non-streaming player, the Tauri bridge, and the libp2p protocols themselves:
they keep no state of the room, or are somebody else's code.
