----------------------------- MODULE Streaming -----------------------------
(***************************************************************************)
(* The threads of one streaming session of the player.  The downloader     *)
(* fetches chunks of the media around the playback position, the decoder   *)
(* turns them into samples until it is far enough ahead, and the mixer     *)
(* plays these and moves the position.  A seek replaces the decoder and    *)
(* its samples, a start replaces what the mixer plays.                     *)
(*                                                                         *)
(* The threads share the bytes, the samples and the position, and wait on  *)
(* each other: each lock is taken for one step, and between two steps the  *)
(* others go on.  Time in the media is in packets.                         *)
(***************************************************************************)
EXTENDS Integers, FiniteSets, Sequences, SequencesExt

CONSTANTS
  Duration,           \* of the track, as the room has it
  PacketChunk,        \* PacketChunk[t]: the chunk packet t of the media is in
  LastChunk,          \* the media has the chunks 0..LastChunk
  Metadata,           \* the chunks a decoder needs to open the media, as they are asked for
  SmallMedia,         \* whether the file may be so small that it is fetched at once
  ReadyWindow, LowWatermark, HighWatermark,   \* media_cache
  TrimGranularity, ByteRetainBehind, MaxPendingOffsets, FetchAttempts,
  Targets,            \* bound on the positions the room plays at
  MaxCalls            \* bound on the calls of the player after the first

Chunk == 0..LastChunk
Position == 0..Duration

\* How long the media really is: Duration is what the API says, in whole seconds.
Packets == Cardinality(DOMAIN PacketChunk)

ASSUME MediaAssumption ==
  /\ Duration \in Nat \ {0} /\ LastChunk \in Nat
  /\ DOMAIN PacketChunk = 0..Packets - 1 /\ Packets \in Nat \ {0}
  /\ \A t \in DOMAIN PacketChunk : PacketChunk[t] \in Chunk
  /\ Metadata \in Seq(Chunk) /\ IsInjective(Metadata)
  /\ SmallMedia \subseteq BOOLEAN /\ SmallMedia # {}
ASSUME WindowAssumption ==
  /\ {ReadyWindow, LowWatermark, HighWatermark, TrimGranularity} \subseteq Nat \ {0}
  /\ ReadyWindow <= HighWatermark
  /\ {ByteRetainBehind, MaxPendingOffsets, FetchAttempts} \subseteq Nat \ {0}
ASSUME BoundsAssumption ==
  /\ Targets \subseteq Position /\ Targets # {}
  /\ MaxCalls \in Nat

STREAM_BUFFER_TARGET == 2 * HighWatermark
STREAM_BUFFER_RESUME == HighWatermark
STREAM_PCM_RETAIN_BEHIND == LowWatermark

VARIABLES
  position,   \* the playback position all threads share
  bytes,      \* SharedBytes
  downloader, \* download_streaming_bytes
  decoders,   \* every decoder the session had, with its samples; the last is its own
  sink,       \* the source of samples of the player's sink
  late,       \* the source of an earlier sink which the mixer has not left yet
  player      \* AudioPlayer

vars == <<position, bytes, downloader, decoders, sink, late, player>>

Smaller(m, n) == IF m <= n THEN m ELSE n
Larger(m, n) == IF m >= n THEN m ELSE n
-----------------------------------------------------------------------------
(* Bytes: their windows, and the queue of those that are asked for *)

\* stream_byte_offset_for_position: as if every second had as many bytes
ChunkAt(at) == Smaller((Smaller(at, Duration) * (LastChunk + 1)) \div Duration, LastChunk)

\* stream_byte_range_for_window
ByteWindow(at, ahead) == ChunkAt(at)..ChunkAt(at + ahead)

\* retain_streaming_byte_window and retain_window: what is near the position, with a
\* chunk to spare, and what is pinned
Retained(at) ==
  {c \in Chunk : /\ c >= ChunkAt(at) - ByteRetainBehind
                 /\ c <= ChunkAt(at + STREAM_BUFFER_TARGET) + 1} \cup bytes.pinned

\* VecDeque::retain: those of a queue that are in chunks, in their order
Only(queue, chunks) ==
  LET kept == {i \in DOMAIN queue : queue[i] \in chunks}
      place(k) == CHOOSE i \in kept : Cardinality({j \in kept : j <= i}) = k
  IN  [k \in 1..Cardinality(kept) |-> queue[place(k)]]

\* VecDeque::truncate
Truncated(queue) == SubSeq(queue, 1, Smaller(Len(queue), MaxPendingOffsets))

\* Mutant of Queued: nothing is dropped from a full queue.
QueuedAll(queue, c, priority) ==
  IF Contains(queue, c) THEN queue
  ELSE IF priority THEN <<c>> \o queue ELSE Append(queue, c)

\* queue_requested_offset
Queued(queue, c, priority) ==
  IF ~priority /\ Contains(queue, c) THEN queue
  ELSE LET others == Only(queue, Chunk \ {c})
       IN  Truncated(IF priority THEN <<c>> \o others ELSE Append(others, c))

\* request_offset and prioritize_offset: of what is not there
Requested(queue, c, priority) ==
  IF c \in bytes.chunks THEN queue ELSE Queued(queue, c, priority)

\* request_offset of each in turn, as long as the queue takes them
RequestedInTurn(queue, cs) ==
  Truncated(queue \o Only(cs, Chunk \ (bytes.chunks \cup ToSet(queue))))

-----------------------------------------------------------------------------
(* Windows of samples: a decoder d keeps those from d.base on, before d.next *)

NewDecoder(at) ==
  [from |-> at, base |-> 0, next |-> 0, pc |-> "Open", loaded |-> 0,
   reported |-> FALSE, canceled |-> FALSE]

\* StreamingSession::cancel: its samples stay while its thread or a source has them.
Canceled(d) == [d EXCEPT !.canceled = TRUE]

(* Sources of samples: those of one decoder, from a base on *)

NoSource == [pc |-> "NoSource"]
Silent == [pc |-> "Silent"]   \* It ended, failed or was canceled.

Current == Len(decoders)
Pcm == decoders[Current]

HasSpec(d) == d.pc # "Open" /\ d.next > d.from

\* stream_pcm_ready_for_position
IsReady(d, at) ==
  /\ at >= d.base /\ HasSpec(d)
  /\ \/ d.next >= Smaller(at + ReadyWindow, Duration)
     \/ d.pc = "Complete" /\ d.next >= at

\* Mutant of Trimmed: the granularity is taken for what is kept behind.
TrimmedLate(d, at) ==
  IF HasSpec(d) /\ at - d.base >= STREAM_BUFFER_TARGET + STREAM_PCM_RETAIN_BEHIND
  THEN [d EXCEPT !.base = Smaller(at - STREAM_PCM_RETAIN_BEHIND, d.next)] ELSE d

\* trim_before
Trimmed(d, at) ==
  LET retain_from == at - STREAM_PCM_RETAIN_BEHIND
  IN  IF HasSpec(d) /\ retain_from - d.base >= TrimGranularity
      THEN [d EXCEPT !.base = Smaller(retain_from, d.next)] ELSE d

\* throttle_streaming_decode: how far ahead the decoder waits for the mixer
IsFarAhead(d, at) ==
  /\ at + STREAM_BUFFER_TARGET < Duration
  /\ d.next >= at + STREAM_BUFFER_TARGET
  /\ d.next > at + STREAM_BUFFER_RESUME

-----------------------------------------------------------------------------
\* AudioPlayer::prepare_stream of a session that is not the loaded one
Init ==
  \E at \in Targets :
    /\ position = at
    /\ bytes = [chunks |-> {}, pinned |-> {}, queue |-> <<>>, failed |-> FALSE]
    /\ downloader = [pc |-> "Probe", range |-> {}, seen |-> at, attempt |-> 1,
                     paused |-> FALSE]
    /\ decoders = <<NewDecoder(at)>>
    /\ sink = NoSource /\ late = NoSource
    /\ player = [playing |-> FALSE, stopped |-> FALSE, calls |-> 0]

-----------------------------------------------------------------------------
(* download_streaming_bytes, on the event loop's runtime *)

DownloaderAt(pc) == downloader.pc = pc

\* probe_stream_range_with_retry has the length: the metadata and then the start are
\* what to fetch first, or all of a small file.
Probed ==
  /\ DownloaderAt("Probe") /\ ~player.stopped
  /\ LET first == ChunkAt(downloader.seen)
         metadata == RequestedInTurn(bytes.queue, Metadata)
         probed == [downloader EXCEPT !.attempt = 1, !.seen = 0]
     IN  \/ /\ TRUE \in SmallMedia
            /\ bytes' = [bytes EXCEPT !.pinned = Chunk]
            /\ downloader' = [probed EXCEPT !.pc = "Fetch", !.range = Chunk]
         \/ /\ FALSE \in SmallMedia
            /\ bytes' = [bytes EXCEPT !.pinned = ToSet(Metadata),
                                      !.queue = Requested(metadata, first, TRUE)]
            /\ downloader' = [probed EXCEPT !.pc = "Plan"]
  /\ UNCHANGED <<position, decoders, sink, late, player>>

\* What is not near the position is given up, after an append and at the loop's head.
\* Then the loop takes the next range: what somebody waits for, or else what is missing
\* near the position.  Once all of the target window is there it waits until the smaller
\* resume window is not.
Plan ==
  LET kept == bytes.chunks \cap Retained(position)
      waited == Only(bytes.queue, Chunk \ kept)
      missing == ByteWindow(position, STREAM_BUFFER_TARGET) \ kept
      resumes == ByteWindow(position, STREAM_BUFFER_RESUME) \ kept # {}
      fetch(c) == [downloader EXCEPT !.pc = "Fetch", !.range = {c},
                                     !.paused = FALSE]
  IN  /\ DownloaderAt("Plan") /\ ~player.stopped
      /\ bytes' = [bytes EXCEPT !.chunks = kept,
                                !.queue = IF waited = <<>> THEN <<>> ELSE Tail(waited)]
      /\ downloader' =
           IF waited # <<>> THEN fetch(Head(waited))
           ELSE IF missing = {} THEN [downloader EXCEPT !.paused = TRUE]
           ELSE IF downloader.paused /\ ~resumes THEN downloader
           ELSE fetch(CHOOSE c \in missing : \A d \in missing : c <= d)
      /\ UNCHANGED <<position, decoders, sink, late, player>>

\* media_range_retry_delay: some errors are tried again, the others end the download.
FetchFails ==
  /\ DownloaderAt("Probe") \/ DownloaderAt("Fetch")
  /\ \/ /\ downloader.attempt < FetchAttempts
        /\ downloader' = [downloader EXCEPT !.attempt = @ + 1]
        /\ bytes' = bytes
     \/ /\ ~player.stopped
        /\ downloader' = [downloader EXCEPT !.pc = "Failed"]
        /\ bytes' = [bytes EXCEPT !.failed = TRUE]
  /\ UNCHANGED <<position, decoders, sink, late, player>>

\* fetch_stream_range_with_retry or fetch_full_media_with_retry, and append: the others
\* see the chunk before it may be given up again.
Fetched ==
  /\ DownloaderAt("Fetch")
  /\ LET chunks == bytes.chunks \cup downloader.range
     IN  bytes' = [bytes EXCEPT !.chunks = chunks,
                                !.queue = Only(@, Chunk \ chunks)]
  /\ downloader' = [downloader EXCEPT !.pc = "Plan", !.range = {}, !.attempt = 1]
  /\ UNCHANGED <<position, decoders, sink, late, player>>

\* is_canceled, at the loop's head, before a request and while it waits
DownloadStops ==
  /\ player.stopped /\ downloader.pc \in {"Probe", "Plan", "Fetch"}
  /\ downloader' = [downloader EXCEPT !.pc = "Stopped"]
  /\ UNCHANGED <<position, bytes, decoders, sink, late, player>>

Download == Probed \/ Plan \/ Fetched \/ DownloadStops

-----------------------------------------------------------------------------
(* decode_streaming_audio, on a thread of its own: decoder i *)

\* decoders[i] becomes d.
DecoderGoes(i, d) ==
  /\ decoders' = [decoders EXCEPT ![i] = d]
  /\ UNCHANGED <<position, downloader, sink, late, player>>

\* Reading at the cursor, for the metadata, the next packet or the end (read_at).
IsReading(d) == d.pc \in {"Open", "Read"}

Needed(d) ==
  IF d.pc = "Open" THEN ToSet(Metadata)
  ELSE IF d.next < Packets THEN {PacketChunk[d.next]} ELSE {}

HasBytes(d) == ~bytes.failed /\ Needed(d) \subseteq bytes.chunks
CanRead(d) == IsReading(d) /\ ~d.canceled /\ HasBytes(d)

\* Mutant of ReadEnds: who waits for bytes does not see that it is canceled.
ReadEndsOnFailure(i) ==
  /\ IsReading(decoders[i]) /\ bytes.failed
  /\ DecoderGoes(i, [decoders[i] EXCEPT !.pc = "Failed"])
  /\ UNCHANGED bytes

\* The stream is canceled, or the download failed.
ReadEnds(i) ==
  LET d == decoders[i]
  IN  /\ IsReading(d) /\ (d.canceled \/ bytes.failed)
      /\ DecoderGoes(i, [d EXCEPT !.pc = IF d.canceled THEN "Stopped" ELSE "Failed"])
      /\ UNCHANGED bytes

\* Mutant of ReadWaits: who waits does not say for what.
ReadWaitsSilently(i) == FALSE

\* What is missing is asked for again and again, while the queue takes it.
ReadWaits(i) ==
  LET d == decoders[i]
      missing == Needed(d) \ bytes.chunks
  IN  /\ IsReading(d) /\ ~d.canceled /\ ~bytes.failed /\ missing # {}
      /\ LET c == CHOOSE c \in missing : \A e \in missing : c <= e
         IN  /\ Queued(bytes.queue, c, FALSE) # bytes.queue
             /\ bytes' = [bytes EXCEPT !.queue = Queued(@, c, FALSE)]
      /\ DecoderGoes(i, d)

\* The format is known and sought to the position, if the media is that long.
Opened(i) ==
  LET d == decoders[i]
  IN  /\ d.pc = "Open" /\ CanRead(d)
      /\ DecoderGoes(i, IF d.from < Packets
                        THEN [d EXCEPT !.pc = "Read", !.base = d.from, !.next = d.from]
                        ELSE [d EXCEPT !.pc = "Failed"])
      /\ UNCHANGED bytes

\* push_samples, also when the decoder is canceled after it has read the packet; the
\* position is read before the samples are locked again.
Pushed(i) ==
  LET d == decoders[i]
  IN  /\ d.pc = "Read" /\ HasBytes(d) /\ d.next < Packets
      /\ DecoderGoes(i, [d EXCEPT !.pc = "Trim", !.next = @ + 1, !.loaded = position])
      /\ UNCHANGED bytes

\* The end of the media: what did not get its window is ready now.
Completed(i) ==
  LET d == decoders[i]
  IN  /\ d.pc = "Read" /\ CanRead(d) /\ d.next = Packets
      /\ DecoderGoes(i, [d EXCEPT !.pc = "Complete", !.reported = @ \/ d.next >= d.from])
      /\ UNCHANGED bytes

\* The media cannot be opened, sought or decoded.
DecodeFails(i) ==
  LET d == decoders[i]
  IN  /\ IsReading(d) /\ ~d.canceled
      /\ DecoderGoes(i, [d EXCEPT !.pc = "Failed"])
      /\ UNCHANGED bytes

\* After a packet: Prepared, once, when the window after the position is there.
TrimAndReport(i) ==
  LET d == Trimmed(decoders[i], decoders[i].loaded)
      ready_until == Smaller(d.from + ReadyWindow, Duration)
  IN  /\ d.pc = "Trim"
      /\ DecoderGoes(i, [d EXCEPT !.pc = "Throttle", !.loaded = position,
                                  !.reported = @ \/ d.next >= ready_until])
      /\ UNCHANGED bytes

\* Mutant of Throttled: the position is read once, before the loop.
ThrottledForEver(i) ==
  LET d == Trimmed(decoders[i], decoders[i].loaded)
  IN  /\ d.pc = "Throttle" /\ ~IsFarAhead(d, d.loaded)
      /\ DecoderGoes(i, [d EXCEPT !.pc = "Read", !.loaded = 0])
      /\ UNCHANGED bytes

\* throttle_streaming_decode looks at the position until it need not wait.
Throttled(i) ==
  LET d == Trimmed(decoders[i], decoders[i].loaded)
  IN  /\ d.pc = "Throttle" /\ ~d.canceled
      /\ DecoderGoes(i, IF IsFarAhead(d, d.loaded) THEN [d EXCEPT !.loaded = position]
                        ELSE [d EXCEPT !.pc = "Read", !.loaded = 0])
      /\ UNCHANGED bytes

ThrottleEnds(i) ==
  LET d == decoders[i]
  IN  /\ d.pc = "Throttle" /\ d.canceled
      /\ DecoderGoes(i, [d EXCEPT !.pc = "Stopped"])
      /\ UNCHANGED bytes

Decode(i) ==
  \/ ReadEnds(i) \/ ReadWaits(i) \/ Opened(i) \/ Pushed(i) \/ Completed(i)
  \/ TrimAndReport(i) \/ Throttled(i) \/ ThrottleEnds(i)

-----------------------------------------------------------------------------
(* StreamingPcmSource::next, on the thread of the audio device *)

\* Within next: it waits for samples there, and the mixer with it.
InNext(s) == s.pc \in {"Sync", "Sample"}

\* The mixer goes on with the late source, which it leaves after the sample it is at,
\* or with the sink's.
MixerGoes(of, s) ==
  /\ IF of = "late"
     THEN /\ late' = IF InNext(s) THEN s ELSE NoSource
          /\ sink' = sink
     ELSE /\ sink' = s /\ late' = late
  /\ UNCHANGED <<bytes, downloader, decoders, player>>

MixerIn(of) == IF of = "late" THEN late ELSE sink
MayGo(of) == late = NoSource \/ of = "late"

\* A packet lasts longer than what a decoder that need not wait for bytes does before
\* it reads the next one: it looks at the position every STREAM_DECODE_IDLE_SLEEP_MS.
DecoderIsBusy ==
  \/ Pcm.pc = "Trim"
  \/ Pcm.pc = "Throttle" /\ ~IsFarAhead(Pcm, position)

\* sync_shared_base_position: the index follows the trimmed samples.
SyncBase(of) ==
  LET s == MixerIn(of)
      base == decoders[s.decoder].base
  IN  /\ MayGo(of)
      /\ s.pc = "Sync" \/ (s.pc = "Between" /\ s.plays /\ ~DecoderIsBusy)
      /\ MixerGoes(of, [s EXCEPT !.pc = "Sample", !.base = base,
                                 !.at = Larger(@, base)])
      /\ UNCHANGED position

\* sample and update_position: the index counts from the base of this moment, which may
\* have moved since.
SampleTaken(of) ==
  LET s == MixerIn(of)
      d == decoders[s.decoder]
      next == d.base + (s.at - s.base)
      ready == ~d.canceled /\ d.pc # "Failed" /\ next < d.next
  IN  /\ MayGo(of) /\ s.pc = "Sample"
      /\ position' = IF ready THEN Smaller(s.at + 1, Duration) ELSE position
      /\ MixerGoes(of,
           IF ready THEN [s EXCEPT !.pc = "Between", !.at = @ + 1]
           ELSE IF d.canceled \/ d.pc \in {"Failed", "Complete"} THEN Silent
           ELSE [s EXCEPT !.pc = "Sync"])

Mix == \E of \in {"sink", "late"} : SyncBase(of) \/ SampleTaken(of)

-----------------------------------------------------------------------------
(* AudioPlayer, on the event loop *)

\* Bounded number of calls.
Calls == ~player.stopped /\ player.calls < MaxCalls

Called(playing) == [player EXCEPT !.playing = playing, !.calls = @ + 1]

HasSink == sink # NoSource

\* The mixer drops the source of a stopped sink when it is between two samples.
StopSink == late' = IF InNext(sink) THEN sink ELSE late

SinkPlays(plays) == IF HasSink /\ sink # Silent THEN [sink EXCEPT !.plays = plays] ELSE sink

\* StreamingSession::restart_decoder
RestartDecoder(at) ==
  /\ decoders' = Append([decoders EXCEPT ![Current] = Canceled(@)], NewDecoder(at))
  /\ bytes' = IF DownloaderAt("Probe") THEN bytes
              ELSE [bytes EXCEPT !.queue = Requested(@, ChunkAt(at), TRUE)]

\* The decoder goes on when what it has reaches to the position.
IsOutside(at) == at < Pcm.base \/ at > Smaller(Pcm.next, Duration)

KeepDecoder == UNCHANGED <<bytes, decoders>>

\* restart_streaming: another source for another sink
RestartStreaming(at, playing) ==
  /\ position' = at
  /\ StopSink
  /\ sink' = [decoder |-> Current, base |-> Pcm.base, at |-> Larger(at, Pcm.base),
              pc |-> "Between", plays |-> playing]
  /\ player' = Called(playing /\ at < Duration)
  /\ KeepDecoder

\* prepare_stream of the loaded session.  What the sink plays is left alone.
PrepareStream(at) ==
  /\ Calls
  /\ position' = at
  /\ IF ~IsReady(Pcm, at) /\ IsOutside(at) THEN RestartDecoder(at) ELSE KeepDecoder
  /\ player' = Called(FALSE)
  /\ UNCHANGED <<downloader, sink, late>>

SeekStream(at, playing) ==
  /\ Calls
  /\ \/ IsReady(Pcm, at) /\ RestartStreaming(at, playing)
     \/ /\ ~IsReady(Pcm, at)
        /\ position' = at
        /\ IF IsOutside(at) THEN RestartDecoder(at) ELSE KeepDecoder
        /\ player' = Called(FALSE)
        /\ UNCHANGED <<sink, late>>
  /\ UNCHANGED <<downloader>>

StartPreparedStream(at, playing) ==
  /\ Calls /\ IsReady(Pcm, at)
  /\ RestartStreaming(at, playing)
  /\ UNCHANGED <<downloader>>

\* Nobody sets what does not play to playing: that is a seek or a start.
SetPlaying(playing) ==
  /\ Calls /\ (playing => player.playing)
  /\ IF playing /\ ~HasSink /\ IsReady(Pcm, position)
     THEN RestartStreaming(position, TRUE)
     ELSE /\ sink' = SinkPlays(playing)
          /\ player' = Called(playing /\ HasSink)
          /\ UNCHANGED <<position, bytes, decoders, late>>
  /\ UNCHANGED <<downloader>>

\* The output device is another one: its sink is gone.
RecoverOutputDevice ==
  /\ Calls
  /\ IF IsReady(Pcm, position) THEN RestartStreaming(position, player.playing)
     ELSE /\ StopSink /\ sink' = NoSource
          /\ player' = Called(player.playing)
          /\ UNCHANGED <<position, bytes, decoders>>
  /\ UNCHANGED <<downloader>>

\* stop, and prepare_stream of another session
Stop ==
  /\ Calls
  /\ player' = [Called(FALSE) EXCEPT !.stopped = TRUE]
  /\ decoders' = [decoders EXCEPT ![Current] = Canceled(@)]
  /\ StopSink /\ sink' = NoSource
  /\ UNCHANGED <<position, bytes, downloader>>

Call ==
  \/ \E at \in Targets :
       \/ PrepareStream(at)
       \/ \E playing \in BOOLEAN : SeekStream(at, playing) \/ StartPreparedStream(at, playing)
  \/ \E playing \in BOOLEAN : SetPlaying(playing)
  \/ RecoverOutputDevice
  \/ Stop

-----------------------------------------------------------------------------
Next ==
  \/ Download \/ FetchFails
  \/ \E i \in DOMAIN decoders : Decode(i) \/ DecodeFails(i)
  \/ Mix
  \/ Call

\* Every thread goes on: the waits of all have timeouts, and requests end.  None need
\* fail.
Fairness ==
  /\ WF_vars(Download)
  /\ \A i \in 1..MaxCalls + 1 : WF_vars(i \in DOMAIN decoders /\ Decode(i))
  /\ WF_vars(Mix)

Spec == Init /\ [][Next]_vars
FairSpec == Spec /\ Fairness

-----------------------------------------------------------------------------
Decoder ==
  [from : Position, base : Position, next : 0..Packets, loaded : Position,
   pc : {"Open", "Read", "Trim", "Throttle", "Complete", "Failed", "Stopped"},
   reported : BOOLEAN, canceled : BOOLEAN]

Source ==
  [decoder : DOMAIN decoders, base : Position, at : 0..Larger(Duration, Packets),
   pc : {"Between", "Sync", "Sample"}, plays : BOOLEAN]

BytesTypeOK ==
  /\ bytes.chunks \cup bytes.pinned \cup ToSet(bytes.queue) \subseteq Chunk
  /\ Len(bytes.queue) <= MaxPendingOffsets

ThreadsTypeOK ==
  /\ position \in Position
  /\ downloader.pc \in {"Probe", "Plan", "Fetch", "Failed", "Stopped"}
  /\ \A i \in DOMAIN decoders :
       /\ decoders[i] \in Decoder
       /\ decoders[i].base <= decoders[i].next
       /\ i < Current => decoders[i].canceled
  /\ {sink, late} \subseteq Source \cup {NoSource, Silent}
  /\ late # NoSource => InNext(late) /\ ~InNext(sink)

TypeOK == BytesTypeOK /\ ThreadsTypeOK

\* However the listener jumps about and whichever thread is late, no decoder keeps more
\* samples than the window around one position: what is behind it is trimmed when the
\* decoder looks, and ahead it waits (trim_before, throttle_streaming_decode).  What the
\* media has after the end of the track, as the room has it, is on top of that: near
\* the end nobody waits.  A replaced decoder keeps its samples until its thread has ended
\* (CanceledThreadsEnd) and no source reads them.
MemoryIsBounded ==
  \A i \in DOMAIN decoders :
    decoders[i].next - decoders[i].base
      < STREAM_PCM_RETAIN_BEHIND + TrimGranularity + STREAM_BUFFER_TARGET
        + Larger(Packets - Duration, 0)

IsOver(d) == d.pc \in {"Complete", "Failed", "Stopped"}

\* A decoder that is not replaced reports that its position is ready, or ends, as long
\* as the shared position is left where the player put it: neither the window of bytes
\* nor the throttle keep it waiting for ever (request_offset, retain_window).
StreamsReport == []<>(Pcm.reported \/ IsOver(Pcm) \/ position # Pcm.from)

\* What plays comes to the end of the media unless it is paused, replaced or fails: the
\* decoder that waits for the mixer, the downloader that waits for the decoder, the
\* mixer that waits for samples and the sink behind one it waits for never all wait on
\* each other.
PlayingGoesOn == []<>(player.playing /\ HasSink => sink = Silent)

\* A replaced decoder ends, the mixer leaves a stopped sink and after a stop the
\* download ends (is_canceled).
CanceledThreadsEnd ==
  []<>( /\ \A i \in DOMAIN decoders : decoders[i].canceled => IsOver(decoders[i])
        /\ late = NoSource
        /\ player.stopped => downloader.pc \in {"Failed", "Stopped"})
=============================================================================
