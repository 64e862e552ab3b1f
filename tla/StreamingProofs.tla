-------------------------- MODULE StreamingProofs --------------------------
(***************************************************************************)
(* What holds of a streaming session whatever the media, its windows and   *)
(* the calls of the player are: every decoder keeps a bounded window of    *)
(* samples, and the mixer's index stays within the media.                  *)
(*                                                                         *)
(* The bytes need an invariant of their own, BytesInv: what is kept of a   *)
(* queue (Only) are members of it in their order, of which each is counted *)
(* out by KthOfNumbers, so no step asks for a chunk that does not exist.   *)
(***************************************************************************)
EXTENDS Streaming, SequenceTheorems, FiniteSetTheorems, WellFoundedInduction, TLAPS

\* The media after the end of the track, as the room has it.
Rest == Larger(Packets - Duration, 0)

\* The samples a decoder may keep.
Window == STREAM_PCM_RETAIN_BEHIND + TrimGranularity + STREAM_BUFFER_TARGET + Rest

\* A decoder has no samples before it is open; one that reads has room for another
\* packet, unless there is none; after a packet there are samples to trim.
DecoderFits(d) ==
  /\ d \in Decoder
  /\ d.base <= d.next
  /\ d.pc = "Open" => d.base = 0 /\ d.next = 0
  /\ d.pc \in {"Read", "Trim", "Throttle"} => d.from <= d.next
  /\ d.next - d.base < Window
  /\ d.pc = "Read" /\ d.next < Packets => d.next + 1 - d.base < Window
  /\ d.pc \in {"Trim", "Throttle"} => d.next > d.from

\* All but the last are canceled.
DecodersFit(ds) ==
  /\ ds \in Seq(Decoder) /\ ds # <<>>
  /\ \A i \in 1..Len(ds) : DecoderFits(ds[i]) /\ (i < Len(ds) => ds[i].canceled)

SourceOf(ds) ==
  [decoder : 1..Len(ds), base : Position, at : 0..Larger(Duration, Packets),
   pc : {"Between", "Sync", "Sample"}, plays : BOOLEAN]

\* The index of a source counts from a base that its samples had.
SourceFits(s, ds) ==
  /\ s \in SourceOf(ds) \cup {NoSource, Silent}
  /\ s \in SourceOf(ds) => s.base <= ds[s.decoder].base

Player == [playing : BOOLEAN, stopped : BOOLEAN, calls : Nat]

Inv ==
  /\ position \in Position /\ player \in Player
  /\ "pc" \in DOMAIN downloader
  /\ downloader.pc \in {"Probe", "Plan", "Fetch", "Failed", "Stopped"}
  /\ DecodersFit(decoders)
  /\ SourceFits(sink, decoders) /\ SourceFits(late, decoders)
  /\ late # NoSource => InNext(late) /\ ~InNext(sink)

\* From d to e samples were trimmed, and no decoder that is canceled comes back ...
Advances(d, e) == d.base <= e.base /\ (d.canceled => e.canceled)

\* ... and from ds to es decoders were added.
Goes(ds, es) ==
  /\ Len(ds) <= Len(es)
  /\ \A i \in 1..Len(ds) : Advances(ds[i], es[i])
-----------------------------------------------------------------------------
(* The constants *)

LEMMA MediaTypes ==
  /\ Duration \in Nat /\ 1 <= Duration /\ Packets \in Nat /\ 1 <= Packets
  /\ Targets \subseteq Position
  /\ Rest \in Nat /\ Rest >= Packets - Duration
  /\ Larger(Duration, Packets) \in Nat
  /\ Larger(Duration, Packets) >= Duration /\ Larger(Duration, Packets) >= Packets
  BY MediaAssumption, BoundsAssumption DEF Rest, Larger

LEMMA WindowTypes ==
  /\ LowWatermark \in Nat /\ HighWatermark \in Nat /\ TrimGranularity \in Nat
  /\ LowWatermark >= 1 /\ HighWatermark >= 1 /\ TrimGranularity >= 1
  /\ STREAM_BUFFER_TARGET \in Nat /\ STREAM_PCM_RETAIN_BEHIND \in Nat /\ Window \in Nat
  /\ STREAM_BUFFER_RESUME < STREAM_BUFFER_TARGET /\ STREAM_BUFFER_RESUME \in Nat
  /\ Window = STREAM_PCM_RETAIN_BEHIND + TrimGranularity + STREAM_BUFFER_TARGET + Rest
  /\ Window >= 4
  BY WindowAssumption, MediaTypes DEF Window, STREAM_BUFFER_TARGET,
     STREAM_PCM_RETAIN_BEHIND, STREAM_BUFFER_RESUME

(* A target is a position of the track. *)
LEMMA TargetTypes ==
  ASSUME NEW at \in Targets
  PROVE  at \in Nat /\ at <= Duration /\ at \in Position
  BY MediaTypes DEF Position

LEMMA MorePositions ==
  ASSUME NEW m \in Nat, NEW n \in Nat
  PROVE  /\ Smaller(m, n) \in Nat /\ Smaller(m, n) <= m /\ Smaller(m, n) <= n
         /\ Larger(m, n) \in {m, n} /\ Larger(m, n) >= m /\ Larger(m, n) >= n
  BY DEF Smaller, Larger
-----------------------------------------------------------------------------
(* One decoder *)

LEMMA DecoderType ==
  ASSUME NEW d \in Decoder
  PROVE  /\ d.from \in Nat /\ d.from <= Duration /\ d.base \in Nat /\ d.base <= Duration
         /\ d.next \in Nat /\ d.next <= Packets /\ d.loaded \in Position
         /\ d.reported \in BOOLEAN /\ d.canceled \in BOOLEAN
  BY MediaTypes DEF Decoder, Position

LEMMA NewDecoderFits ==
  ASSUME NEW at \in Targets
  PROVE  DecoderFits(NewDecoder(at)) /\ ~NewDecoder(at).canceled
<1> DEFINE d == NewDecoder(at)
<1>1. at \in Nat /\ at \in Position /\ Packets \in Nat
  BY TargetTypes, MediaTypes
<1>2. d \in Decoder
  BY <1>1, MediaTypes DEF NewDecoder, Decoder, Position
<1>3. d.from = at /\ d.base = 0 /\ d.next = 0 /\ d.pc = "Open" /\ ~d.canceled
  BY DEF NewDecoder
<1> HIDE DEF d
<1>4. d.next - d.base < Window
  BY <1>3, WindowTypes
<1>5. DecoderFits(d)
  BY <1>1, <1>2, <1>3, <1>4 DEF DecoderFits
<1>6. QED
  BY <1>3, <1>5 DEF d

LEMMA CanceledFits ==
  ASSUME NEW d, DecoderFits(d)
  PROVE  DecoderFits(Canceled(d)) /\ Advances(d, Canceled(d)) /\ Canceled(d).canceled
<1> DEFINE e == Canceled(d)
<1>1. d \in Decoder /\ d.base \in Nat
  BY DecoderType DEF DecoderFits
<1>2. /\ e \in Decoder /\ e.canceled
      /\ e.from = d.from /\ e.base = d.base /\ e.next = d.next /\ e.pc = d.pc
  BY <1>1 DEF Canceled, Decoder
<1> HIDE DEF e
<1>3. DecoderFits(e)
  BY <1>2 DEF DecoderFits
<1>4. Advances(d, e)
  BY <1>1, <1>2 DEF Advances
<1>5. QED
  BY <1>2, <1>3, <1>4 DEF e

(* Trimming keeps what a decoder has at and after the position, and drops at least
   what is a granularity and more behind what is retained. *)
LEMMA TrimmedFits ==
  ASSUME NEW d, DecoderFits(d), NEW at \in Position
  PROVE  LET t == Trimmed(d, at)
         IN  /\ DecoderFits(t) /\ d.base <= t.base
             /\ t.from = d.from /\ t.next = d.next /\ t.pc = d.pc
             /\ t.loaded = d.loaded /\ t.reported = d.reported
             /\ t.canceled = d.canceled
             /\ HasSpec(d) => \/ t.base = d.next
                              \/ at - STREAM_PCM_RETAIN_BEHIND - t.base < TrimGranularity
<1> DEFINE retain_from == at - STREAM_PCM_RETAIN_BEHIND
           base == Smaller(retain_from, d.next)
           t == Trimmed(d, at)
<1>1. d \in Decoder /\ at \in Nat /\ retain_from \in Int
  BY MediaTypes, WindowTypes DEF DecoderFits, Position
<1>2. /\ d.from \in Nat /\ d.base \in Nat /\ d.next \in Nat /\ d.next <= Packets
      /\ d.base <= d.next /\ d.canceled \in BOOLEAN
  BY <1>1, DecoderType DEF DecoderFits
<1>3. CASE HasSpec(d) /\ retain_from - d.base >= TrimGranularity
  <2>1. t = [d EXCEPT !.base = base]
    BY <1>3 DEF Trimmed
  <2>2. /\ base \in Nat /\ d.base <= base /\ base <= d.next
        /\ base = d.next \/ base = retain_from
        /\ base <= at
    BY <1>1, <1>2, <1>3, WindowTypes DEF Smaller
  <2>3. base \in Position
    BY <1>1, <2>2, MediaTypes DEF Position
  <2> HIDE DEF base, t
  <2>4. /\ t \in Decoder /\ t.base = base
        /\ t.from = d.from /\ t.next = d.next /\ t.pc = d.pc
        /\ t.loaded = d.loaded /\ t.reported = d.reported /\ t.canceled = d.canceled
    BY <1>1, <2>1, <2>3 DEF Decoder
  <2>5. d.pc # "Open"
    BY <1>3 DEF HasSpec
  <2>6. DecoderFits(t)
    BY <1>2, <2>2, <2>4, <2>5, WindowTypes, MediaTypes DEF DecoderFits
  <2>7. base = retain_from => retain_from - base < TrimGranularity
    BY <1>1, WindowTypes
  <2>8. QED
    BY <2>2, <2>4, <2>6, <2>7 DEF t
<1>4. CASE ~(HasSpec(d) /\ retain_from - d.base >= TrimGranularity)
  <2>1. t = d
    BY <1>4 DEF Trimmed
  <2>2. HasSpec(d) => retain_from - d.base < TrimGranularity
    BY <1>1, <1>2, <1>4, WindowTypes
  <2>3. QED
    BY <1>2, <2>1, <2>2
<1>5. QED
  BY <1>3, <1>4
-----------------------------------------------------------------------------
(* All decoders of the session *)

LEMMA OneOfThem ==
  ASSUME NEW ds, DecodersFit(ds)
  PROVE  /\ Len(ds) \in Nat /\ 1 <= Len(ds) /\ DOMAIN ds = 1..Len(ds)
         /\ \A i \in 1..Len(ds) : DecoderFits(ds[i]) /\ ds[i] \in Decoder
         /\ DecoderFits(ds[Len(ds)])
<1>1. ds \in Seq(Decoder) /\ ds # <<>>
  BY DEF DecodersFit
<1>2. Len(ds) \in Nat /\ DOMAIN ds = 1..Len(ds) /\ Len(ds) # 0
  BY <1>1, LenProperties, EmptySeq
<1>3. \A i \in 1..Len(ds) : DecoderFits(ds[i]) /\ ds[i] \in Decoder
  BY DEF DecodersFit, DecoderFits
<1>4. QED
  BY <1>2, <1>3

(* A step of decoder i. *)
LEMMA ReplacedFits ==
  ASSUME NEW ds, DecodersFit(ds), NEW i \in 1..Len(ds), NEW d, DecoderFits(d),
         Advances(ds[i], d)
  PROVE  LET es == [ds EXCEPT ![i] = d]
         IN  DecodersFit(es) /\ Goes(ds, es) /\ Len(es) = Len(ds) /\ es[i] = d
<1> DEFINE es == [ds EXCEPT ![i] = d]
<1>1. /\ ds \in Seq(Decoder) /\ d \in Decoder
      /\ Len(ds) \in Nat /\ 1 <= Len(ds) /\ DOMAIN ds = 1..Len(ds)
  BY OneOfThem DEF DecodersFit, DecoderFits
<1>2. /\ es \in Seq(Decoder) /\ Len(es) = Len(ds)
      /\ \A j \in 1..Len(ds) : es[j] = IF j = i THEN d ELSE ds[j]
  BY <1>1, ExceptSeq
<1> HIDE DEF es
<1>3. es # <<>>
  BY <1>1, <1>2, EmptySeq
<1>4. d.canceled \in BOOLEAN /\ \A j \in 1..Len(ds) : ds[j].canceled \in BOOLEAN
  BY <1>1, OneOfThem, DecoderType
<1>5. ASSUME NEW j \in 1..Len(es)
      PROVE  DecoderFits(es[j]) /\ (j < Len(es) => es[j].canceled)
  BY <1>1, <1>2, <1>4 DEF DecodersFit, Advances
<1>6. DecodersFit(es)
  BY <1>2, <1>3, <1>5 DEF DecodersFit
<1>7. \A j \in 1..Len(ds) : ds[j].base <= ds[j].base
  BY OneOfThem, DecoderType
<1>8. Goes(ds, es)
  BY <1>1, <1>2, <1>4, <1>7 DEF Goes, Advances
<1>9. QED
  BY <1>1, <1>2, <1>6, <1>8 DEF es

LEMMA AddedFits ==
  ASSUME NEW ds, DecodersFit(ds), ds[Len(ds)].canceled, NEW d, DecoderFits(d)
  PROVE  DecodersFit(Append(ds, d)) /\ Goes(ds, Append(ds, d))
<1> DEFINE es == Append(ds, d)
<1>1. /\ ds \in Seq(Decoder) /\ d \in Decoder /\ Len(ds) \in Nat /\ 1 <= Len(ds)
  BY OneOfThem DEF DecodersFit, DecoderFits
<1>2. /\ es \in Seq(Decoder) /\ Len(es) = Len(ds) + 1 /\ es[Len(ds) + 1] = d
      /\ \A j \in 1..Len(ds) : es[j] = ds[j]
  BY <1>1, AppendProperties
<1> HIDE DEF es
<1>3. es # <<>>
  BY <1>1, <1>2, EmptySeq
<1>4. ASSUME NEW j \in 1..Len(es)
      PROVE  DecoderFits(es[j]) /\ (j < Len(es) => es[j].canceled)
  <2>1. CASE j = Len(ds) + 1
    BY <1>1, <1>2, <2>1
  <2>2. CASE j \in 1..Len(ds)
    <3>1. j < Len(ds) \/ j = Len(ds)
      BY <1>1, <2>2
    <3>2. QED
      BY <1>2, <2>2, <3>1 DEF DecodersFit
  <2>3. QED
    BY <1>1, <1>2, <2>1, <2>2
<1>5. DecodersFit(es)
  BY <1>2, <1>3, <1>4 DEF DecodersFit
<1>6. \A j \in 1..Len(ds) : ds[j].canceled \in BOOLEAN /\ ds[j].base <= ds[j].base
  BY OneOfThem, DecoderType
<1>7. Goes(ds, es)
  BY <1>1, <1>2, <1>6 DEF Goes, Advances
<1>8. QED
  BY <1>5, <1>7 DEF es

(* What a source counts from stays in its samples. *)
LEMMA SourceStays ==
  ASSUME NEW ds, NEW es, DecodersFit(ds), DecodersFit(es), Goes(ds, es),
         NEW s, SourceFits(s, ds)
  PROVE  SourceFits(s, es)
<1>1. /\ Len(ds) \in Nat /\ Len(es) \in Nat /\ Len(ds) <= Len(es)
  BY OneOfThem DEF Goes
<1>2. s \in SourceOf(ds) \cup {NoSource, Silent} /\ s \in SourceOf(es) \cup {NoSource, Silent}
  BY <1>1 DEF SourceFits, SourceOf
<1>3. SUFFICES ASSUME s \in SourceOf(es)
               PROVE  s.base <= es[s.decoder].base
  BY <1>2 DEF SourceFits
<1>4. s \in SourceOf(ds)
  BY <1>2, <1>3 DEF SourceOf, NoSource, Silent
<1> DEFINE i == s.decoder
<1>5. i \in 1..Len(ds) /\ i \in 1..Len(es) /\ s.base \in Nat
  BY <1>1, <1>4, MediaTypes DEF SourceOf, Position
<1> HIDE DEF i
<1>6. ds[i].base \in Nat /\ es[i].base \in Nat
  BY <1>5, OneOfThem, DecoderType
<1>7. ds[i].base <= es[i].base
  BY <1>3, <1>5 DEF Goes, Advances, i
<1>8. s.base <= ds[i].base
  BY <1>4 DEF SourceFits, i
<1>9. QED
  BY <1>5, <1>6, <1>7, <1>8 DEF i
-----------------------------------------------------------------------------
(* A decoder's thread *)

LEMMA DecoderGoesKeeps ==
  ASSUME Inv, NEW i \in DOMAIN decoders, NEW d, DecoderFits(d),
         Advances(decoders[i], d),
         DecoderGoes(i, d)
  PROVE  Inv'
<1>1. /\ decoders' = [decoders EXCEPT ![i] = d]
      /\ UNCHANGED <<position, downloader, sink, late, player>>
  BY DEF DecoderGoes
<1>2. DecodersFit(decoders) /\ i \in 1..Len(decoders)
  BY OneOfThem DEF Inv
<1>3. DecodersFit(decoders') /\ Goes(decoders, decoders')
  BY <1>1, <1>2, ReplacedFits
<1>4. SourceFits(sink, decoders') /\ SourceFits(late, decoders')
  BY <1>2, <1>3, SourceStays DEF Inv
<1>5. QED
  BY <1>1, <1>3, <1>4 DEF Inv

\* A decoder goes from d to e and leaves its samples where they are.
Keeps(d, e) ==
  /\ e \in Decoder
  /\ e.from = d.from /\ e.base = d.base /\ e.next = d.next /\ e.canceled = d.canceled
  /\ e.pc = d.pc \/ e.pc \in {"Complete", "Failed", "Stopped"}

LEMMA KeptFits ==
  ASSUME Inv, NEW i \in DOMAIN decoders, NEW e, Keeps(decoders[i], e), DecoderGoes(i, e)
  PROVE  Inv'
<1> DEFINE d == decoders[i]
<1>1. DecoderFits(d) /\ d \in Decoder
  BY OneOfThem DEF Inv
<1>2. d.canceled \in BOOLEAN /\ d.base \in Nat
  BY <1>1, DecoderType
<1> HIDE DEF d
<1>3. DecoderFits(e)
  BY <1>1 DEF DecoderFits, Keeps, d
<1>4. Advances(d, e)
  BY <1>2 DEF Keeps, Advances, d
<1>5. QED
  BY <1>3, <1>4, DecoderGoesKeeps DEF d

(* Decoder i reads, pushes, trims and waits, or ends. *)
LEMMA DecodeKeeps ==
  ASSUME Inv, NEW i \in DOMAIN decoders, Decode(i) \/ DecodeFails(i)
  PROVE  Inv'
<1> DEFINE d == decoders[i]
<1>1. DecoderFits(d) /\ d \in Decoder
  BY OneOfThem DEF Inv
<1>2. /\ d.from \in Nat /\ d.from <= Duration /\ d.base \in Nat
      /\ d.next \in Nat /\ d.next <= Packets /\ d.canceled \in BOOLEAN
      /\ d.loaded \in Position /\ d.reported \in BOOLEAN
  BY <1>1, DecoderType
<1>3. d.base <= d.next
  BY <1>1 DEF DecoderFits
<1>4. position \in Position /\ 0 \in Position
  BY MediaTypes DEF Inv, Position
<1> DEFINE fail == [d EXCEPT !.pc = "Failed"]
           stop == [d EXCEPT !.pc = "Stopped"]
<1>5. Keeps(d, fail) /\ Keeps(d, stop) /\ Keeps(d, d)
  BY <1>1 DEF Decoder, Keeps
<1> HIDE DEF fail, stop
<1>6. CASE ReadEnds(i)
  <2> DEFINE e == [d EXCEPT !.pc = IF d.canceled THEN "Stopped" ELSE "Failed"]
  <2>1. DecoderGoes(i, e)
    BY <1>6 DEF ReadEnds
  <2>2. e \in {fail, stop}
    BY <1>2 DEF fail, stop
  <2> HIDE DEF e
  <2>3. Keeps(d, e)
    BY <1>5, <2>2
  <2>4. QED
    BY <2>1, <2>3, KeptFits
<1>7. CASE ReadWaits(i)
  <2>1. DecoderGoes(i, d)
    BY <1>7 DEF ReadWaits
  <2>2. QED
    BY <1>5, <2>1, KeptFits
<1>8. CASE Opened(i)
  <2> DEFINE e == [d EXCEPT !.pc = "Read", !.base = d.from, !.next = d.from]
  <2>0. CASE d.from >= Packets
    <3>1. DecoderGoes(i, fail)
      BY <1>2, <1>8, <2>0, MediaTypes DEF Opened, fail
    <3>2. QED
      BY <1>5, <3>1, KeptFits
  <2> SUFFICES ASSUME d.from < Packets PROVE Inv'
    BY <1>2, <2>0, MediaTypes
  <2>1. DecoderGoes(i, e) /\ d.pc = "Open"
    BY <1>8 DEF Opened
  <2>2. /\ e.pc = "Read" /\ e.base = d.from /\ e.next = d.from /\ e.from = d.from
        /\ e.canceled = d.canceled /\ e \in Decoder
    <3>1. d.from \in Position /\ d.from \in 0..Packets
      BY <1>2, MediaTypes DEF Position
    <3>2. QED
      BY <1>1, <3>1 DEF Decoder
  <2> HIDE DEF e
  <2>3. DecoderFits(e)
    BY <1>2, <2>1, <2>2, MediaTypes, WindowTypes DEF DecoderFits
  <2>4. Advances(d, e)
    BY <1>1, <1>2, <2>1, <2>2 DEF DecoderFits, Advances
  <2>5. QED
    BY <2>1, <2>3, <2>4, DecoderGoesKeeps
<1>9. CASE Pushed(i)
  <2> DEFINE e == [d EXCEPT !.pc = "Trim", !.next = @ + 1, !.loaded = position]
  <2>1. DecoderGoes(i, e) /\ d.pc = "Read" /\ d.next < Packets
    BY <1>9 DEF Pushed
  <2>2. /\ e.pc = "Trim" /\ e.base = d.base /\ e.next = d.next + 1 /\ e.from = d.from
        /\ e.canceled = d.canceled /\ e \in Decoder
    <3>1. d.next + 1 \in 0..Packets
      BY <1>2, <2>1, MediaTypes
    <3>2. QED
      BY <1>1, <1>4, <3>1 DEF Decoder
  <2> HIDE DEF e
  <2>3. DecoderFits(e)
    BY <1>1, <1>2, <2>1, <2>2 DEF DecoderFits
  <2>4. Advances(d, e)
    BY <1>2, <2>2 DEF Advances
  <2>5. QED
    BY <2>1, <2>3, <2>4, DecoderGoesKeeps
<1>10. CASE Completed(i)
  <2> DEFINE e == [d EXCEPT !.pc = "Complete", !.reported = @ \/ d.next >= d.from]
  <2>1. DecoderGoes(i, e)
    BY <1>10 DEF Completed
  <2>2. Keeps(d, e)
    BY <1>1, <1>2 DEF Decoder, Keeps
  <2>3. QED
    BY <2>1, <2>2, KeptFits
<1>11. CASE DecodeFails(i)
  <2>1. DecoderGoes(i, fail)
    BY <1>11 DEF DecodeFails, fail
  <2>2. QED
    BY <1>5, <2>1, KeptFits
<1> DEFINE t == Trimmed(d, d.loaded)
<1>12. /\ DecoderFits(t) /\ t \in Decoder /\ d.base <= t.base
       /\ t.from = d.from /\ t.next = d.next /\ t.pc = d.pc
       /\ t.loaded = d.loaded /\ t.reported = d.reported /\ t.canceled = d.canceled
       /\ HasSpec(d) => \/ t.base = d.next
                        \/ d.loaded - STREAM_PCM_RETAIN_BEHIND - t.base < TrimGranularity
  BY <1>1, <1>2, TrimmedFits DEF DecoderFits
<1>13. t.base \in Nat
  BY <1>12, DecoderType
<1> HIDE DEF t
<1>14. d.pc \in {"Trim", "Throttle"} => HasSpec(d)
  <2>1. d.pc \in {"Trim", "Throttle"} => d.next > d.from
    BY <1>1 DEF DecoderFits
  <2>2. d.pc \in {"Trim", "Throttle"} => d.pc # "Open"
    OBVIOUS
  <2>3. QED
    BY <2>1, <2>2 DEF HasSpec
<1>15. CASE TrimAndReport(i)
  <2> DEFINE ready_until == Smaller(d.from + ReadyWindow, Duration)
             e == [t EXCEPT !.pc = "Throttle", !.loaded = position,
                            !.reported = @ \/ t.next >= ready_until]
  <2>1. DecoderGoes(i, e) /\ d.pc = "Trim"
    BY <1>12, <1>15 DEF TrimAndReport, t
  <2> HIDE DEF ready_until
  <2>2. /\ e.pc = "Throttle" /\ e.base = t.base /\ e.next = t.next /\ e.from = t.from
        /\ e.canceled = t.canceled /\ e \in Decoder
    BY <1>4, <1>12 DEF Decoder
  <2> HIDE DEF e
  <2>3. DecoderFits(e)
    BY <1>12, <2>1, <2>2 DEF DecoderFits
  <2>4. Advances(d, e)
    BY <1>2, <1>12, <2>2 DEF Advances
  <2>5. QED
    BY <2>1, <2>3, <2>4, DecoderGoesKeeps
<1>16. CASE Throttled(i) /\ IsFarAhead(t, t.loaded)
  <2> DEFINE e == [t EXCEPT !.loaded = position]
  <2>1. DecoderGoes(i, e) /\ d.pc = "Throttle"
    BY <1>12, <1>16 DEF Throttled, t
  <2>2. /\ e.pc = t.pc /\ e.base = t.base /\ e.next = t.next /\ e.from = t.from
        /\ e.canceled = t.canceled /\ e \in Decoder
    BY <1>4, <1>12 DEF Decoder
  <2> HIDE DEF e
  <2>3. DecoderFits(e)
    BY <1>12, <2>2 DEF DecoderFits
  <2>4. Advances(d, e)
    BY <1>2, <1>12, <2>2 DEF Advances
  <2>5. QED
    BY <2>1, <2>3, <2>4, DecoderGoesKeeps
<1>17. CASE Throttled(i) /\ ~IsFarAhead(t, t.loaded)
  <2> DEFINE e == [t EXCEPT !.pc = "Read", !.loaded = 0]
  <2>1. DecoderGoes(i, e) /\ d.pc = "Throttle"
    BY <1>12, <1>17 DEF Throttled, t
  <2>2. /\ e.pc = "Read" /\ e.base = t.base /\ e.next = t.next /\ e.from = t.from
        /\ e.canceled = t.canceled /\ e \in Decoder
    BY <1>4, <1>12 DEF Decoder
  <2> HIDE DEF e
  <2>3. d.next < Packets => t.next + 1 - t.base < Window
    <3> SUFFICES ASSUME d.next < Packets PROVE t.next + 1 - t.base < Window
      OBVIOUS
    <3>1. CASE t.base = d.next
      BY <1>2, <1>12, <3>1, WindowTypes
    <3>2. CASE t.base # d.next
      <4>1. d.loaded - STREAM_PCM_RETAIN_BEHIND - t.base < TrimGranularity
        BY <1>12, <1>14, <2>1, <3>2
      <4>2. d.loaded \in Nat
        BY <1>2, MediaTypes DEF Position
      <4>3. CASE d.loaded + STREAM_BUFFER_TARGET < Duration
        <5>1. d.next < d.loaded + STREAM_BUFFER_TARGET
          BY <1>2, <1>12, <1>17, <4>2, <4>3, MediaTypes, WindowTypes DEF IsFarAhead
        <5>2. QED
          BY <1>2, <1>12, <1>13, <4>1, <4>2, <5>1, WindowTypes, MediaTypes
      <4>4. CASE d.loaded + STREAM_BUFFER_TARGET >= Duration
        BY <1>2, <1>12, <1>13, <4>1, <4>2, <4>4, WindowTypes, MediaTypes
      <4>5. QED
        BY <4>2, <4>3, <4>4, WindowTypes, MediaTypes
    <3>3. QED
      BY <3>1, <3>2
  <2>4. DecoderFits(e)
    BY <1>12, <2>1, <2>2, <2>3 DEF DecoderFits
  <2>5. Advances(d, e)
    BY <1>2, <1>12, <2>2 DEF Advances
  <2>6. QED
    BY <2>1, <2>4, <2>5, DecoderGoesKeeps
<1>18. CASE ThrottleEnds(i)
  <2>1. DecoderGoes(i, stop)
    BY <1>18 DEF ThrottleEnds, stop
  <2>2. QED
    BY <1>5, <2>1, KeptFits
<1>19. QED
  BY <1>6, <1>7, <1>8, <1>9, <1>10, <1>11, <1>15, <1>16, <1>17, <1>18 DEF Decode
-----------------------------------------------------------------------------
(* The mixer *)

LEMMA SourceType ==
  ASSUME NEW ds, DecodersFit(ds), NEW s, SourceFits(s, ds),
         s.pc \in {"Between", "Sync", "Sample"}
  PROVE  /\ s \in SourceOf(ds) /\ s.decoder \in 1..Len(ds) /\ s.base \in Nat
         /\ s.at \in Nat /\ s.at <= Larger(Duration, Packets)
         /\ ds[s.decoder] \in Decoder
  BY OneOfThem, MediaTypes DEF SourceFits, SourceOf, NoSource, Silent, Position

LEMMA NoSourceFits ==
  ASSUME NEW ds
  PROVE  /\ SourceFits(NoSource, ds) /\ SourceFits(Silent, ds)
         /\ ~InNext(NoSource) /\ ~InNext(Silent) /\ NoSource # Silent
<1>1. NoSource \notin SourceOf(ds) /\ Silent \notin SourceOf(ds)
  BY DEF SourceOf, NoSource, Silent
<1>2. QED
  BY <1>1 DEF SourceFits, InNext, NoSource, Silent

(* A source that stays with its decoder and its base, wherever it goes. *)
LEMMA MixerGoesKeeps ==
  ASSUME Inv, NEW of \in {"sink", "late"}, MayGo(of), of = "late" => late # NoSource,
         NEW s, SourceFits(s, decoders), MixerGoes(of, s), position' \in Position
  PROVE  Inv'
<1>1. UNCHANGED <<downloader, decoders, player>>
  BY DEF MixerGoes
<1>2. SourceFits(NoSource, decoders) /\ ~InNext(NoSource)
  BY NoSourceFits
<1>3. CASE of = "late"
  <2>1. sink' = sink /\ late' = IF InNext(s) THEN s ELSE NoSource
    BY <1>3 DEF MixerGoes
  <2>2. SourceFits(late', decoders)
    BY <1>2, <2>1
  <2>3. ~InNext(sink)
    BY <1>3 DEF Inv
  <2>4. late' # NoSource => InNext(late') /\ ~InNext(sink')
    BY <2>1, <2>3
  <2>5. QED
    BY <1>1, <2>1, <2>2, <2>4 DEF Inv, InNext
<1>4. CASE of = "sink"
  <2>1. sink' = s /\ late' = late /\ late = NoSource
    BY <1>4 DEF MixerGoes, MayGo
  <2>2. QED
    BY <1>1, <2>1 DEF Inv, InNext
<1>5. QED
  BY <1>3, <1>4

LEMMA SyncBaseKeeps ==
  ASSUME Inv, NEW of \in {"sink", "late"}, SyncBase(of)
  PROVE  Inv'
<1> DEFINE s == MixerIn(of)
           base == decoders[s.decoder].base
           at == Larger(s.at, base)
           t == [s EXCEPT !.pc = "Sample", !.base = base, !.at = at]
<1>1. /\ MayGo(of) /\ MixerGoes(of, t) /\ position' = position
      /\ s.pc \in {"Between", "Sync"}
  BY DEF SyncBase
<1>2. DecodersFit(decoders) /\ SourceFits(s, decoders)
  BY DEF Inv, MixerIn
<1>3. of = "late" => late # NoSource
  BY <1>1 DEF MixerIn, NoSource
<1> HIDE DEF s
<1>4. /\ s \in SourceOf(decoders) /\ s.decoder \in 1..Len(decoders)
      /\ s.at \in Nat /\ s.at <= Larger(Duration, Packets)
      /\ decoders[s.decoder] \in Decoder
  BY <1>1, <1>2, SourceType
<1>5. base \in Nat /\ base <= Duration
  BY <1>4, DecoderType
<1> HIDE DEF base
<1>6. base \in Position /\ at \in 0..Larger(Duration, Packets)
  <2>1. at \in {s.at, base}
    BY DEF Larger
  <2> HIDE DEF at
  <2>2. QED
    BY <1>4, <1>5, <2>1, MediaTypes DEF Position
<1> HIDE DEF at
<1>7. t \in SourceOf(decoders) /\ t.base = base /\ t.decoder = s.decoder
  BY <1>4, <1>6 DEF SourceOf
<1> HIDE DEF t
<1>8. t.base <= decoders[t.decoder].base
  BY <1>5, <1>7 DEF base
<1>9. SourceFits(t, decoders)
  BY <1>7, <1>8 DEF SourceFits
<1>10. position' \in Position
  BY <1>1 DEF Inv
<1>11. QED
  BY <1>1, <1>3, <1>9, <1>10, MixerGoesKeeps

(* The index stays before the end of the decoded samples: their base is never behind
   the one that it counts from. *)
LEMMA SampleTakenKeeps ==
  ASSUME Inv, NEW of \in {"sink", "late"}, SampleTaken(of)
  PROVE  Inv'
<1> DEFINE s == MixerIn(of)
           d == decoders[s.decoder]
           next == d.base + (s.at - s.base)
           ready == ~d.canceled /\ d.pc # "Failed" /\ next < d.next
           at == s.at + 1
           taken == [s EXCEPT !.pc = "Between", !.at = at]
           waits == [s EXCEPT !.pc = "Sync"]
           t == IF ready THEN taken
                ELSE IF d.canceled \/ d.pc \in {"Failed", "Complete"} THEN Silent
                ELSE waits
<1>1. /\ MayGo(of) /\ MixerGoes(of, t) /\ s.pc = "Sample"
      /\ position' = IF ready THEN Smaller(at, Duration) ELSE position
  BY DEF SampleTaken
<1>2. DecodersFit(decoders) /\ SourceFits(s, decoders) /\ position \in Position
  BY DEF Inv, MixerIn
<1>3. of = "late" => late # NoSource
  BY <1>1 DEF MixerIn, NoSource
<1> HIDE DEF s
<1>4. /\ s \in SourceOf(decoders) /\ s.decoder \in 1..Len(decoders) /\ s.base \in Nat
      /\ s.at \in Nat /\ d \in Decoder
  BY <1>1, <1>2, SourceType
<1>5. d.base \in Nat /\ d.next \in Nat /\ d.next <= Packets /\ d.canceled \in BOOLEAN
  BY <1>4, DecoderType
<1>6. s.base <= d.base
  BY <1>2, <1>4 DEF SourceFits
<1>7. ready => at \in Nat /\ at <= Packets
  BY <1>4, <1>5, <1>6, MediaTypes
<1>8. position' \in Position
  BY <1>1, <1>2, <1>7, MediaTypes DEF Position, Smaller
<1> HIDE DEF at
<1>9. ready => SourceFits(taken, decoders)
  <2> SUFFICES ASSUME ready PROVE SourceFits(taken, decoders)
    OBVIOUS
  <2>1. at \in 0..Larger(Duration, Packets)
    BY <1>7, MediaTypes
  <2>2. taken \in SourceOf(decoders) /\ taken.base = s.base /\ taken.decoder = s.decoder
    BY <1>4, <2>1 DEF SourceOf
  <2>3. QED
    BY <1>6, <2>2 DEF SourceFits
<1>10. SourceFits(waits, decoders)
  <2>1. waits \in SourceOf(decoders) /\ waits.base = s.base /\ waits.decoder = s.decoder
    BY <1>4 DEF SourceOf
  <2>2. QED
    BY <1>6, <2>1 DEF SourceFits
<1>11. SourceFits(t, decoders)
  BY <1>9, <1>10, NoSourceFits
<1> HIDE DEF t
<1>12. QED
  BY <1>1, <1>3, <1>8, <1>11, MixerGoesKeeps
-----------------------------------------------------------------------------
(* The downloader *)

LEMMA DownloadKeeps ==
  ASSUME Inv, Download \/ FetchFails
  PROVE  Inv'
<1>1. CASE Probed
  <2>1. /\ UNCHANGED <<position, decoders, sink, late, player>>
        /\ "pc" \in DOMAIN downloader' /\ downloader'.pc \in {"Plan", "Fetch"}
    BY <1>1 DEF Probed, Inv
  <2>2. QED
    BY <2>1 DEF Inv, InNext
<1>2. CASE Plan
  <2>1. /\ UNCHANGED <<position, decoders, sink, late, player>>
        /\ "pc" \in DOMAIN downloader' /\ downloader'.pc \in {"Plan", "Fetch"}
    BY <1>2 DEF Plan, Inv, DownloaderAt
  <2>2. QED
    BY <2>1 DEF Inv, InNext
<1>3. CASE Fetched
  <2>1. /\ UNCHANGED <<position, decoders, sink, late, player>>
        /\ "pc" \in DOMAIN downloader' /\ downloader'.pc = "Plan"
    BY <1>3 DEF Fetched, Inv
  <2>2. QED
    BY <2>1 DEF Inv, InNext
<1>4. CASE DownloadStops
  <2>1. /\ UNCHANGED <<position, decoders, sink, late, player>>
        /\ "pc" \in DOMAIN downloader' /\ downloader'.pc = "Stopped"
    BY <1>4 DEF DownloadStops, Inv
  <2>2. QED
    BY <2>1 DEF Inv, InNext
<1>5. CASE FetchFails
  <2>1. /\ UNCHANGED <<position, decoders, sink, late, player>>
        /\ "pc" \in DOMAIN downloader'
        /\ downloader'.pc \in {downloader.pc, "Failed"}
    BY <1>5 DEF FetchFails, Inv
  <2>2. QED
    BY <2>1 DEF Inv, InNext
<1>6. QED
  BY <1>1, <1>2, <1>3, <1>4, <1>5 DEF Download
-----------------------------------------------------------------------------
(* The player's calls *)

LEMMA CancelFits ==
  ASSUME NEW ds, DecodersFit(ds)
  PROVE  LET es == [ds EXCEPT ![Len(ds)] = Canceled(@)]
         IN  DecodersFit(es) /\ Goes(ds, es) /\ es[Len(es)].canceled
<1> DEFINE i == Len(ds)
           d == Canceled(ds[i])
           es == [ds EXCEPT ![i] = d]
<1>1. i \in 1..Len(ds) /\ DecoderFits(ds[i])
  BY OneOfThem
<1>2. DecoderFits(d) /\ d.canceled
  BY <1>1, CanceledFits
<1>3. Advances(ds[i], d)
  BY <1>1, CanceledFits
<1> HIDE DEF d, i, es
<1>4. DecodersFit(es) /\ Goes(ds, es) /\ Len(es) = Len(ds) /\ es[i] = d
  BY <1>1, <1>2, <1>3, ReplacedFits DEF es
<1>5. QED
  BY <1>2, <1>4 DEF d, i, es

(* The session's decoder is replaced, or left as it is. *)
LEMMA DecoderChosenFits ==
  ASSUME Inv, NEW at \in Targets, RestartDecoder(at) \/ KeepDecoder
  PROVE  /\ DecodersFit(decoders')
         /\ \A s : SourceFits(s, decoders) => SourceFits(s, decoders')
<1>1. DecodersFit(decoders)
  BY DEF Inv
<1>2. CASE KeepDecoder
  BY <1>1, <1>2 DEF KeepDecoder
<1>3. CASE RestartDecoder(at)
  <2> DEFINE canceled == [decoders EXCEPT ![Current] = Canceled(@)]
  <2>1. decoders' = Append(canceled, NewDecoder(at))
    BY <1>3 DEF RestartDecoder
  <2>2. /\ DecodersFit(canceled) /\ Goes(decoders, canceled)
        /\ canceled[Len(canceled)].canceled
    BY <1>1, CancelFits DEF Current
  <2> HIDE DEF canceled
  <2>3. DecodersFit(decoders') /\ Goes(canceled, decoders')
    BY <2>1, <2>2, NewDecoderFits, AddedFits
  <2>4. \A s : SourceFits(s, decoders) => SourceFits(s, canceled)
    BY <1>1, <2>2, SourceStays
  <2>5. \A s : SourceFits(s, canceled) => SourceFits(s, decoders')
    BY <2>2, <2>3, SourceStays
  <2>6. QED
    BY <2>3, <2>4, <2>5
<1>4. QED
  BY <1>2, <1>3

LEMMA CalledType ==
  ASSUME player \in Player, NEW playing \in BOOLEAN
  PROVE  Called(playing) \in Player
<1>1. player.calls + 1 \in Nat
  BY DEF Player
<1>2. QED
  BY <1>1 DEF Called, Player

(* What the mixer is within stays as the late source of the sink that is gone. *)
LEMMA StoppedSinkFits ==
  ASSUME Inv, StopSink, NEW ds, SourceFits(sink, ds), SourceFits(late, ds)
  PROVE  SourceFits(late', ds) /\ (late' # NoSource => InNext(late'))
  BY DEF StopSink, Inv

LEMMA RestartStreamingKeeps ==
  ASSUME Inv, NEW at \in Position, NEW playing \in BOOLEAN,
         RestartStreaming(at, playing), downloader' = downloader
  PROVE  Inv'
<1> DEFINE base == Pcm.base
           from == Larger(at, base)
           s == [decoder |-> Current, base |-> base, at |-> from,
                 pc |-> "Between", plays |-> playing]
<1>1. /\ position' = at /\ StopSink /\ sink' = s
      /\ player' = Called(playing /\ at < Duration) /\ decoders' = decoders
  BY DEF RestartStreaming, KeepDecoder
<1>2. DecodersFit(decoders) /\ SourceFits(sink, decoders) /\ SourceFits(late, decoders)
  BY DEF Inv
<1>3. Current \in 1..Len(decoders) /\ Pcm \in Decoder
  BY <1>2, OneOfThem DEF Current, Pcm, DecoderFits
<1>4. base \in Nat /\ base <= Duration
  BY <1>3, DecoderType
<1>5. base \in Position /\ from \in 0..Larger(Duration, Packets)
  <2>1. from \in {at, base} /\ at \in Nat /\ at <= Duration
    BY MediaTypes DEF Larger, Position
  <2> HIDE DEF from
  <2>2. QED
    BY <1>4, <2>1, MediaTypes DEF Position
<1>6. decoders[Current].base = base
  BY DEF Pcm
<1> HIDE DEF base, from
<1>7. s \in SourceOf(decoders) /\ s.base = base /\ s.decoder = Current /\ ~InNext(s)
  BY <1>3, <1>5 DEF SourceOf, InNext
<1> HIDE DEF s
<1>8. SourceFits(s, decoders)
  BY <1>4, <1>6, <1>7 DEF SourceFits
<1>9. SourceFits(late', decoders) /\ (late' # NoSource => InNext(late'))
  BY <1>1, <1>2, StoppedSinkFits
<1>10. player' \in Player
  BY <1>1, CalledType DEF Inv
<1>11. QED
  BY <1>1, <1>7, <1>8, <1>9, <1>10 DEF Inv, InNext

(* A call that moves the position and may replace the decoder. *)
LEMMA MovedKeeps ==
  ASSUME Inv, NEW at \in Targets, position' = at, RestartDecoder(at) \/ KeepDecoder,
         player' = Called(FALSE), UNCHANGED <<downloader, sink, late>>
  PROVE  Inv'
<1>1. /\ DecodersFit(decoders')
      /\ \A s : SourceFits(s, decoders) => SourceFits(s, decoders')
  BY DecoderChosenFits
<1>2. SourceFits(sink', decoders') /\ SourceFits(late', decoders')
  BY <1>1 DEF Inv
<1>3. player' \in Player /\ position' \in Position
  BY CalledType, TargetTypes DEF Inv
<1>4. QED
  BY <1>1, <1>2, <1>3 DEF Inv, InNext

LEMMA SetPlayingKeeps ==
  ASSUME Inv, NEW playing \in BOOLEAN, SetPlaying(playing)
  PROVE  Inv'
<1>1. downloader' = downloader /\ position \in Position
  BY DEF SetPlaying, Inv
<1>2. CASE RestartStreaming(position, TRUE)
  BY <1>1, <1>2, RestartStreamingKeeps
<1>3. CASE /\ sink' = SinkPlays(playing) /\ player' = Called(playing /\ HasSink)
           /\ UNCHANGED <<position, bytes, decoders, late>>
  <2>1. SourceFits(sink, decoders)
    BY DEF Inv
  <2>2. SourceFits(sink', decoders) /\ (InNext(sink') => InNext(sink))
    <3>1. CASE HasSink /\ sink # Silent
      <4> DEFINE s == [sink EXCEPT !.plays = playing]
      <4>1. sink \in SourceOf(decoders)
        BY <2>1, <3>1 DEF SourceFits, HasSink
      <4>2. /\ s \in SourceOf(decoders) /\ s.base = sink.base
            /\ s.decoder = sink.decoder /\ s.pc = sink.pc
        BY <4>1 DEF SourceOf
      <4> HIDE DEF s
      <4>3. SourceFits(s, decoders)
        BY <2>1, <4>1, <4>2 DEF SourceFits
      <4>4. sink' = s
        BY <1>3, <3>1 DEF SinkPlays, s
      <4>5. QED
        BY <4>2, <4>3, <4>4 DEF InNext
    <3>2. CASE ~(HasSink /\ sink # Silent)
      BY <1>3, <2>1, <3>2 DEF SinkPlays
    <3>3. QED
      BY <3>1, <3>2
  <2>3. player' \in Player
    BY <1>3, CalledType DEF Inv
  <2>4. QED
    BY <1>1, <1>3, <2>2, <2>3 DEF Inv, InNext
<1>4. QED
  BY <1>2, <1>3 DEF SetPlaying

LEMMA RecoverKeeps ==
  ASSUME Inv, RecoverOutputDevice
  PROVE  Inv'
<1>1. downloader' = downloader /\ position \in Position /\ player.playing \in BOOLEAN
  BY DEF RecoverOutputDevice, Inv, Player
<1>2. CASE RestartStreaming(position, player.playing)
  BY <1>1, <1>2, RestartStreamingKeeps
<1>3. CASE /\ StopSink /\ sink' = NoSource /\ player' = Called(player.playing)
           /\ UNCHANGED <<position, bytes, decoders>>
  <2>1. SourceFits(late', decoders) /\ (late' # NoSource => InNext(late'))
    BY <1>3, StoppedSinkFits DEF Inv
  <2>2. SourceFits(sink', decoders) /\ ~InNext(sink')
    BY <1>3, NoSourceFits DEF InNext
  <2>3. player' \in Player
    BY <1>1, <1>3, CalledType DEF Inv
  <2>4. QED
    BY <1>1, <1>3, <2>1, <2>2, <2>3 DEF Inv, InNext
<1>4. QED
  BY <1>2, <1>3 DEF RecoverOutputDevice

LEMMA StopKeeps ==
  ASSUME Inv, Stop
  PROVE  Inv'
<1>1. /\ player' = [Called(FALSE) EXCEPT !.stopped = TRUE]
      /\ decoders' = [decoders EXCEPT ![Current] = Canceled(@)]
      /\ StopSink /\ sink' = NoSource
      /\ UNCHANGED <<position, bytes, downloader>>
  BY DEF Stop
<1>2. DecodersFit(decoders) /\ SourceFits(sink, decoders) /\ SourceFits(late, decoders)
  BY DEF Inv
<1>3. DecodersFit(decoders') /\ Goes(decoders, decoders')
  BY <1>1, <1>2, CancelFits DEF Current
<1>4. SourceFits(sink, decoders') /\ SourceFits(late, decoders')
  BY <1>2, <1>3, SourceStays
<1>5. SourceFits(late', decoders') /\ (late' # NoSource => InNext(late'))
  BY <1>1, <1>4, StoppedSinkFits
<1>6. SourceFits(sink', decoders') /\ ~InNext(sink')
  BY <1>1, NoSourceFits DEF InNext
<1>7. Called(FALSE) \in Player
  BY CalledType DEF Inv
<1>8. player' \in Player
  BY <1>1, <1>7 DEF Player
<1>9. QED
  BY <1>1, <1>3, <1>5, <1>6, <1>8 DEF Inv, InNext

LEMMA CallKeeps ==
  ASSUME Inv, Call
  PROVE  Inv'
<1>1. ASSUME NEW at \in Targets, PrepareStream(at) PROVE Inv'
  BY <1>1, MovedKeeps DEF PrepareStream
<1>2. ASSUME NEW at \in Targets, NEW playing \in BOOLEAN, SeekStream(at, playing)
      PROVE  Inv'
  <2>1. CASE RestartStreaming(at, playing)
    BY <1>2, <2>1, TargetTypes, RestartStreamingKeeps DEF SeekStream
  <2>2. CASE ~RestartStreaming(at, playing)
    BY <1>2, <2>2, MovedKeeps DEF SeekStream
  <2>3. QED
    BY <2>1, <2>2
<1>3. ASSUME NEW at \in Targets, NEW playing \in BOOLEAN, StartPreparedStream(at, playing)
      PROVE  Inv'
  BY <1>3, TargetTypes, RestartStreamingKeeps DEF StartPreparedStream
<1>4. QED
  BY <1>1, <1>2, <1>3, SetPlayingKeeps, RecoverKeeps, StopKeeps DEF Call
-----------------------------------------------------------------------------
(* The bytes and the queue *)

Bytes ==
  [chunks : SUBSET Chunk, pinned : SUBSET Chunk, queue : Seq(Chunk), failed : BOOLEAN]

Downloader ==
  [pc : {"Probe", "Plan", "Fetch", "Failed", "Stopped"}, range : SUBSET Chunk,
   seen : Position, attempt : Nat, paused : BOOLEAN]

\* A queue is no longer than it may be.
FitsQueue(queue) == queue \in Seq(Chunk) /\ Len(queue) <= MaxPendingOffsets

BytesInv ==
  /\ bytes \in Bytes /\ FitsQueue(bytes.queue)
  /\ downloader \in Downloader

LEMMA ByteTypes ==
  /\ LastChunk \in Nat /\ MaxPendingOffsets \in Nat /\ ByteRetainBehind \in Nat
  /\ MaxPendingOffsets >= 1
  /\ \A t \in 0..Packets - 1 : PacketChunk[t] \in Chunk
  /\ Metadata \in Seq(Chunk)
  BY MediaAssumption, WindowAssumption

LEMMA LeastNumber ==
  ASSUME NEW T \in SUBSET Nat, T # {}
  PROVE  \E n \in T : \A k \in T : n <= k
<1> DEFINE less == {ss \in Nat \X Nat : ss[1] < ss[2]}
<1>1. IsWellFoundedOn(less, Nat)
  BY NatLessThanWellFounded DEF OpToRel
<1>2. PICK n \in T : \A k \in T : <<k, n>> \notin less
  <2> HIDE DEF less
  <2>1. QED
    BY <1>1, WFMin
<1>3. n \in Nat
  OBVIOUS
<1>4. ASSUME NEW k \in T PROVE n <= k
  <2>1. k \in Nat /\ <<k, n>> \in Nat \X Nat
    BY <1>3
  <2>2. ~(<<k, n>>[1] < <<k, n>>[2])
    BY <1>2, <2>1
  <2>3. QED
    BY <1>3, <2>1, <2>2
<1>5. QED
  BY <1>4

\* The least of the chunks that are missing is one of them.
LEMMA FirstMissing ==
  ASSUME NEW missing \in SUBSET Chunk, missing # {}
  PROVE  (CHOOSE c \in missing : \A d \in missing : c <= d) \in Chunk
<1>1. missing \in SUBSET Nat
  BY ByteTypes DEF Chunk
<1>2. \E c \in missing : \A d \in missing : c <= d
  BY <1>1, LeastNumber
<1>3. QED
  BY <1>2

\* The estimate stays within the media.
LEMMA ChunkOfPosition ==
  ASSUME NEW at \in Nat
  PROVE  ChunkAt(at) \in Chunk
<1> DEFINE p == Smaller(at, Duration)
           q == (p * (LastChunk + 1)) \div Duration
<1>1. p \in Nat /\ LastChunk \in Nat /\ Duration \in Nat /\ Duration > 0
  BY ByteTypes, MediaTypes DEF Smaller
<1> HIDE DEF p
<1>2. p * (LastChunk + 1) \in Nat
  BY <1>1
<1>3. q \in Nat
  <2> DEFINE n == p * (LastChunk + 1)
  <2>1. n \in Nat
    BY <1>2
  <2> HIDE DEF n
  <2>2. n \div Duration \in Nat
    BY <1>1, <2>1
  <2>3. QED
    BY <2>2 DEF n
<1>4. ChunkAt(at) = Smaller(q, LastChunk)
  BY DEF ChunkAt, p
<1> HIDE DEF q
<1>5. QED
  BY <1>1, <1>3, <1>4, MorePositions DEF Chunk

\* Of numbers up to n, there is for every k a k-th one: counting upwards, the
\* count grows by at most one.
LEMMA KthOfNumbers ==
  ASSUME NEW n \in Nat, NEW kept \in SUBSET (1..n), NEW k \in 1..Cardinality(kept)
  PROVE  \E i \in kept : Cardinality({j \in kept : j <= i}) = k
<1> DEFINE upto(m) == {j \in kept : j <= m}
           count == [m \in Nat |-> Cardinality(upto(m))]
           T == {m \in Nat : count[m] >= k}
<1>1. \A j \in kept : j \in Nat /\ 1 <= j /\ j <= n
  OBVIOUS
<1>2. IsFiniteSet(kept) /\ Cardinality(kept) \in Nat
  <2>1. IsFiniteSet(1..n)
    BY FS_Interval
  <2>2. IsFiniteSet(kept)
    BY <2>1, FS_Subset
  <2>3. QED
    BY <2>2, FS_CardinalityType
<1>3. k \in Nat /\ 1 <= k /\ k <= Cardinality(kept)
  BY <1>2
<1>4. ASSUME NEW m \in Nat PROVE IsFiniteSet(upto(m)) /\ Cardinality(upto(m)) \in Nat
  <2>1. upto(m) \in SUBSET kept
    OBVIOUS
  <2> HIDE DEF upto
  <2>2. IsFiniteSet(upto(m))
    BY <1>2, <2>1, FS_Subset
  <2>3. QED
    BY <2>2, FS_CardinalityType
<1>5. \A m \in Nat : count[m] = Cardinality(upto(m)) /\ count[m] \in Nat
  <2> HIDE DEF upto
  <2>1. QED
    BY <1>4
<1>6. \A m \in Nat : count[m] \in Nat
  BY <1>5
<1>7. count[0] = 0
  <2>1. ASSUME NEW j \in upto(0) PROVE FALSE
    BY <1>1
  <2>2. upto(0) = {}
    BY <2>1
  <2> HIDE DEF upto
  <2>3. QED
    BY <2>2, FS_EmptySet
<1>8. count[n] = Cardinality(kept)
  <2>1. upto(n) = kept
    BY <1>1
  <2> HIDE DEF upto
  <2>2. QED
    BY <2>1
<1>9. ASSUME NEW m \in Nat, m # 0
      PROVE  count[m] = IF m \in kept THEN count[m - 1] + 1 ELSE count[m - 1]
  <2>1. m - 1 \in Nat
    BY <1>9
  <2>2. upto(m) = IF m \in kept THEN upto(m - 1) \cup {m} ELSE upto(m - 1)
    <3>1. ASSUME NEW j \in kept PROVE j <= m <=> j <= m - 1 \/ j = m
      BY <1>1
    <3>2. QED
      BY <3>1
  <2>3. m \notin upto(m - 1)
    OBVIOUS
  <2>4. count[m] = Cardinality(upto(m)) /\ count[m - 1] = Cardinality(upto(m - 1))
    BY <1>5, <2>1
  <2>5. IsFiniteSet(upto(m - 1))
    BY <1>4, <2>1
  <2> HIDE DEF upto, count
  <2>6. Cardinality(upto(m - 1) \cup {m}) = Cardinality(upto(m - 1)) + 1
    BY <2>3, <2>5, FS_AddElement
  <2>7. QED
    BY <2>2, <2>4, <2>6
<1> HIDE DEF count
<1>10. n \in T
  BY <1>2, <1>8
<1>11. PICK m \in T : \A l \in T : m <= l
  <2>1. T \in SUBSET Nat /\ T # {}
    BY <1>10
  <2> HIDE DEF T
  <2>2. QED
    BY <2>1, LeastNumber
<1>12. m \in Nat /\ count[m] >= k /\ m # 0
  BY <1>7, <1>11
<1>13. m - 1 \in Nat /\ count[m - 1] < k
  <2>1. m - 1 \in Nat /\ m - 1 \notin T
    BY <1>11, <1>12
  <2>2. count[m - 1] \in Nat /\ ~(count[m - 1] >= k)
    BY <1>5, <2>1
  <2>3. QED
    BY <1>3, <2>1, <2>2
<1>14. m \in kept /\ count[m] = count[m - 1] + 1
  <2>1. count[m] = IF m \in kept THEN count[m - 1] + 1 ELSE count[m - 1]
    BY <1>9, <1>12
  <2>2. count[m] # count[m - 1]
    <3>1. count[m - 1] \in Nat
      BY <1>6, <1>13
    <3>2. QED
      BY <1>3, <3>1, <1>12, <1>13
  <2>3. QED
    BY <2>1, <2>2
<1>15. count[m] = k
  <2>1. count[m - 1] \in Nat
    BY <1>6, <1>13
  <2>2. QED
    BY <1>3, <1>12, <1>13, <1>14, <2>1
<1>16. Cardinality({j \in kept : j <= m}) = k
  BY <1>5, <1>12, <1>15
<1>17. QED
  BY <1>14, <1>16

\* What is left of a queue are members of it, and no more than it has.
LEMMA OnlyIsTyped ==
  ASSUME NEW queue \in Seq(Chunk), NEW chunks
  PROVE  Only(queue, chunks) \in Seq(Chunk) /\ Len(Only(queue, chunks)) <= Len(queue)
<1> DEFINE n == Len(queue)
           kept == {i \in DOMAIN queue : queue[i] \in chunks}
           place(k) == CHOOSE i \in kept : Cardinality({j \in kept : j <= i}) = k
           c == Cardinality(kept)
           only == [k \in 1..c |-> queue[place(k)]]
<1>1. n \in Nat /\ kept \in SUBSET (1..n) /\ \A i \in 1..n : queue[i] \in Chunk
  OBVIOUS
<1>2. IsFiniteSet(kept) /\ c \in Nat /\ c <= n
  <2>1. IsFiniteSet(1..n) /\ Cardinality(1..n) = n
    BY <1>1, FS_Interval
  <2> HIDE DEF kept, n
  <2>2. IsFiniteSet(kept) /\ Cardinality(kept) <= Cardinality(1..n)
    BY <1>1, <2>1, FS_Subset
  <2>3. QED
    BY <2>1, <2>2, FS_CardinalityType
<1>3. Only(queue, chunks) = only
  BY DEF Only
<1>4. ASSUME NEW k \in 1..c PROVE queue[place(k)] \in Chunk
  <2>1. \E i \in kept : Cardinality({j \in kept : j <= i}) = k
    <3> HIDE DEF kept, n
    <3>1. QED
      BY <1>1, KthOfNumbers
  <2>2. place(k) \in kept
    <3> HIDE DEF kept
    <3>1. QED
      BY <2>1
  <2>3. QED
    BY <1>1, <2>2
<1> HIDE DEF c, kept, place, n
<1>5. only \in Seq(Chunk) /\ Len(only) = c
  BY <1>2, <1>4
<1>6. QED
  BY <1>2, <1>3, <1>5 DEF n

LEMMA TruncatedIsTyped ==
  ASSUME NEW queue \in Seq(Chunk)
  PROVE  /\ Truncated(queue) \in Seq(Chunk) /\ Len(Truncated(queue)) <= MaxPendingOffsets
<1> DEFINE n == Smaller(Len(queue), MaxPendingOffsets)
<1>1. n \in 0..Len(queue) /\ n <= MaxPendingOffsets
  BY ByteTypes DEF Smaller
<1>2. Truncated(queue) = SubSeq(queue, 1, n)
  BY DEF Truncated
<1> HIDE DEF n
<1>3. SubSeq(queue, 1, n) \in Seq(Chunk) /\ Len(SubSeq(queue, 1, n)) = n
  BY <1>1
<1>4. QED
  BY <1>1, <1>2, <1>3

LEMMA QueuedFits ==
  ASSUME NEW queue, FitsQueue(queue), NEW c \in Chunk, NEW priority \in BOOLEAN
  PROVE  FitsQueue(Queued(queue, c, priority)) /\ FitsQueue(Requested(queue, c, priority))
<1> DEFINE others == Only(queue, Chunk \ {c})
           all == IF priority THEN <<c>> \o others ELSE Append(others, c)
<1>1. others \in Seq(Chunk)
  BY OnlyIsTyped DEF FitsQueue
<1> HIDE DEF others
<1>2. all \in Seq(Chunk)
  BY <1>1
<1>3. Queued(queue, c, priority) \in {queue, Truncated(all)}
  BY DEF Queued, others
<1> HIDE DEF all
<1>4. FitsQueue(Truncated(all))
  BY <1>2, TruncatedIsTyped DEF FitsQueue
<1>5. FitsQueue(Queued(queue, c, priority))
  BY <1>3, <1>4
<1>6. QED
  BY <1>5 DEF Requested

LEMMA RequestedInTurnFits ==
  ASSUME NEW queue, FitsQueue(queue)
  PROVE  FitsQueue(RequestedInTurn(queue, Metadata))
<1> DEFINE asked == Only(Metadata, Chunk \ (bytes.chunks \cup ToSet(queue)))
           all == queue \o asked
<1>1. asked \in Seq(Chunk)
  BY ByteTypes, OnlyIsTyped
<1> HIDE DEF asked
<1>2. all \in Seq(Chunk)
  BY <1>1 DEF FitsQueue
<1>3. RequestedInTurn(queue, Metadata) = Truncated(all)
  BY DEF RequestedInTurn, asked
<1> HIDE DEF all
<1>4. QED
  BY <1>2, <1>3, TruncatedIsTyped DEF FitsQueue

LEMMA WindowOfChunks ==
  ASSUME NEW at \in Nat, NEW ahead \in Nat
  PROVE  ByteWindow(at, ahead) \subseteq Chunk
<1> DEFINE m == ChunkAt(at)
           n == ChunkAt(at + ahead)
<1>1. m \in Chunk /\ n \in Chunk
  BY ChunkOfPosition
<1>2. ByteWindow(at, ahead) = m..n
  BY DEF ByteWindow
<1> HIDE DEF m, n
<1>3. QED
  BY <1>1, <1>2, ByteTypes DEF Chunk

LEMMA ProbedKeepsBytes ==
  ASSUME BytesInv, Probed
  PROVE  BytesInv'
<1> DEFINE first == ChunkAt(downloader.seen)
           metadata == RequestedInTurn(bytes.queue, Metadata)
           asked == Requested(metadata, first, TRUE)
           probed == [downloader EXCEPT !.attempt = 1, !.seen = 0]
<1>1. bytes \in Bytes /\ FitsQueue(bytes.queue) /\ downloader \in Downloader
  BY DEF BytesInv
<1>2. first \in Chunk
  BY <1>1, MediaTypes, ChunkOfPosition DEF Downloader, Position
<1>3. FitsQueue(metadata)
  BY <1>1, RequestedInTurnFits
<1>4. FitsQueue(asked)
  <2> HIDE DEF metadata, first
  <2>1. QED
    BY <1>2, <1>3, QueuedFits
<1>5. ToSet(Metadata) \in SUBSET Chunk
  BY ByteTypes DEF ToSet
<1>6. probed \in Downloader
  <2>1. 0 \in Position
    BY MediaTypes DEF Position
  <2>2. QED
    BY <1>1, <2>1 DEF Downloader
<1>7. \/ /\ bytes' = [bytes EXCEPT !.pinned = Chunk]
         /\ downloader' = [probed EXCEPT !.pc = "Fetch", !.range = Chunk]
      \/ /\ bytes' = [bytes EXCEPT !.pinned = ToSet(Metadata), !.queue = asked]
         /\ downloader' = [probed EXCEPT !.pc = "Plan"]
  BY DEF Probed
<1> HIDE DEF asked, probed
<1>8. downloader' \in Downloader
  BY <1>6, <1>7 DEF Downloader
<1>9. bytes' \in Bytes /\ bytes'.queue \in {bytes.queue, asked}
  BY <1>1, <1>4, <1>5, <1>7 DEF Bytes, FitsQueue
<1>10. FitsQueue(bytes'.queue)
  BY <1>1, <1>4, <1>9
<1>11. QED
  BY <1>8, <1>9, <1>10 DEF BytesInv, FitsQueue, Bytes, Downloader

LEMMA PlanKeepsBytes ==
  ASSUME Inv, BytesInv, Plan
  PROVE  BytesInv'
<1> DEFINE kept == bytes.chunks \cap Retained(position)
           waited == Only(bytes.queue, Chunk \ kept)
           missing == ByteWindow(position, STREAM_BUFFER_TARGET) \ kept
           queue == IF waited = <<>> THEN <<>> ELSE Tail(waited)
           fetch(c) == [downloader EXCEPT !.pc = "Fetch", !.range = {c},
                                          !.paused = FALSE]
           least == CHOOSE c \in missing : \A d \in missing : c <= d
<1>1. bytes \in Bytes /\ FitsQueue(bytes.queue) /\ downloader \in Downloader
  BY DEF BytesInv
<1>2. kept \in SUBSET Chunk
  BY <1>1 DEF Bytes
<1>3. FitsQueue(waited)
  <2> HIDE DEF kept
  <2>1. QED
    BY <1>1, ByteTypes, OnlyIsTyped DEF FitsQueue
<1>4. missing \in SUBSET Chunk
  BY MediaTypes, WindowTypes, WindowOfChunks DEF Inv, Position
<1>5. /\ bytes' = [bytes EXCEPT !.chunks = kept, !.queue = queue]
      /\ \/ waited # <<>> /\ downloader' = fetch(Head(waited))
         \/ downloader' = [downloader EXCEPT !.paused = TRUE]
         \/ downloader' = downloader
         \/ missing # {} /\ downloader' = fetch(least)
  BY DEF Plan
<1>6. \A c \in Chunk : fetch(c) \in Downloader
  BY <1>1 DEF Downloader
<1>7. missing # {} => least \in Chunk
  <2> HIDE DEF missing
  <2>1. QED
    BY <1>4, FirstMissing
<1> HIDE DEF kept, waited, missing, least, fetch
<1>8. waited # <<>> => Head(waited) \in Chunk
  BY <1>3 DEF FitsQueue
<1>9. FitsQueue(queue)
  BY <1>3, ByteTypes DEF FitsQueue
<1>10. downloader' \in Downloader
  BY <1>1, <1>5, <1>6, <1>7, <1>8 DEF Downloader
<1> HIDE DEF queue
<1>11. bytes' \in Bytes /\ bytes'.queue = queue
  BY <1>1, <1>2, <1>5, <1>9 DEF Bytes, FitsQueue
<1>12. QED
  BY <1>9, <1>10, <1>11 DEF BytesInv, FitsQueue, Bytes, Downloader

LEMMA FetchKeepsBytes ==
  ASSUME BytesInv, FetchFails \/ Fetched \/ DownloadStops
  PROVE  BytesInv'
<1>1. bytes \in Bytes /\ FitsQueue(bytes.queue) /\ downloader \in Downloader
  BY DEF BytesInv
<1>2. CASE FetchFails
  <2>1. downloader' \in Downloader
    BY <1>1, <1>2 DEF FetchFails, Downloader
  <2>2. bytes' \in Bytes /\ bytes'.queue = bytes.queue
    BY <1>1, <1>2 DEF FetchFails, Bytes
  <2>3. QED
    BY <1>1, <2>1, <2>2 DEF BytesInv, FitsQueue, Bytes, Downloader
<1>3. CASE Fetched
  <2> DEFINE chunks == bytes.chunks \cup downloader.range
             queue == Only(bytes.queue, Chunk \ chunks)
  <2>1. chunks \in SUBSET Chunk
    BY <1>1 DEF Bytes, Downloader
  <2>2. FitsQueue(queue)
    <3> HIDE DEF chunks
    <3>1. QED
      BY <1>1, ByteTypes, OnlyIsTyped DEF FitsQueue
  <2>3. /\ bytes' = [bytes EXCEPT !.chunks = chunks, !.queue = queue]
        /\ downloader' = [downloader EXCEPT !.pc = "Plan", !.range = {}, !.attempt = 1]
    BY <1>3, <1>1 DEF Fetched, Bytes
  <2> HIDE DEF chunks, queue
  <2>4. bytes' \in Bytes /\ bytes'.queue = queue
    BY <1>1, <2>1, <2>2, <2>3 DEF Bytes, FitsQueue
  <2>5. downloader' \in Downloader
    BY <1>1, <2>3 DEF Downloader
  <2>6. QED
    BY <2>2, <2>4, <2>5 DEF BytesInv, FitsQueue, Bytes, Downloader
<1>4. CASE DownloadStops
  <2>1. downloader' \in Downloader /\ bytes' = bytes
    BY <1>1, <1>4 DEF DownloadStops, Downloader
  <2>2. QED
    BY <1>1, <2>1 DEF BytesInv, FitsQueue, Bytes, Downloader
<1>5. QED
  BY <1>2, <1>3, <1>4

\* A decoder waits for chunks of the media only.
LEMMA NeededChunks ==
  ASSUME NEW d \in Decoder
  PROVE  Needed(d) \in SUBSET Chunk
<1>1. ToSet(Metadata) \in SUBSET Chunk
  BY ByteTypes DEF ToSet
<1>2. d.next < Packets => d.next \in 0..Packets - 1
  BY DecoderType, MediaTypes
<1>3. QED
  BY <1>1, <1>2, ByteTypes DEF Needed

LEMMA ReadWaitsKeepsBytes ==
  ASSUME Inv, BytesInv, NEW i \in DOMAIN decoders, ReadWaits(i)
  PROVE  BytesInv'
<1> DEFINE missing == Needed(decoders[i]) \ bytes.chunks
           c == CHOOSE c \in missing : \A e \in missing : c <= e
           queue == Queued(bytes.queue, c, FALSE)
<1>1. bytes \in Bytes /\ FitsQueue(bytes.queue) /\ downloader \in Downloader
  BY DEF BytesInv
<1>2. decoders[i] \in Decoder
  BY OneOfThem DEF Inv, DecodersFit, DecoderFits
<1>3. missing \in SUBSET Chunk
  BY <1>2, NeededChunks
<1>4. /\ missing # {} /\ bytes' = [bytes EXCEPT !.queue = queue]
      /\ downloader' = downloader
  BY <1>1 DEF ReadWaits, DecoderGoes, Bytes
<1>5. c \in Chunk
  <2> HIDE DEF missing
  <2>1. QED
    BY <1>3, <1>4, FirstMissing
<1>6. FitsQueue(queue)
  <2> HIDE DEF c
  <2>1. QED
    BY <1>1, <1>5, QueuedFits
<1> HIDE DEF queue, missing, c
<1>7. bytes' \in Bytes /\ bytes'.queue = queue
  BY <1>1, <1>4, <1>6 DEF Bytes, FitsQueue
<1>8. QED
  BY <1>1, <1>4, <1>6, <1>7 DEF BytesInv, FitsQueue, Bytes, Downloader

LEMMA OthersLeaveBytes ==
  ASSUME BytesInv, UNCHANGED <<bytes, downloader>>
  PROVE  BytesInv'
  BY DEF BytesInv, FitsQueue, Bytes, Downloader

LEMMA DecodeKeepsBytes ==
  ASSUME Inv, BytesInv, NEW i \in DOMAIN decoders, Decode(i) \/ DecodeFails(i)
  PROVE  BytesInv'
<1>1. CASE ReadWaits(i)
  BY <1>1, ReadWaitsKeepsBytes
<1>2. CASE ~ReadWaits(i)
  <2>1. UNCHANGED <<bytes, downloader>>
    BY <1>2 DEF Decode, ReadEnds, Opened, Pushed, Completed, TrimAndReport, Throttled,
       ThrottleEnds, DecodeFails, DecoderGoes
  <2>2. QED
    BY <2>1, OthersLeaveBytes
<1>3. QED
  BY <1>1, <1>2

LEMMA MixLeavesBytes ==
  ASSUME BytesInv, Mix
  PROVE  BytesInv'
<1>1. UNCHANGED <<bytes, downloader>>
  BY DEF Mix, SyncBase, SampleTaken, MixerGoes
<1>2. QED
  BY <1>1, OthersLeaveBytes

LEMMA RestartKeepsBytes ==
  ASSUME BytesInv, NEW at \in Targets, RestartDecoder(at) \/ KeepDecoder,
         UNCHANGED downloader
  PROVE  BytesInv'
<1>1. bytes \in Bytes /\ FitsQueue(bytes.queue) /\ downloader \in Downloader
  BY DEF BytesInv
<1> DEFINE queue == Requested(bytes.queue, ChunkAt(at), TRUE)
<1>2. FitsQueue(queue)
  <2>1. ChunkAt(at) \in Chunk
    BY TargetTypes, ChunkOfPosition
  <2>2. QED
    BY <1>1, <2>1, QueuedFits
<1>3. bytes' = bytes \/ bytes' = [bytes EXCEPT !.queue = queue]
  BY <1>1 DEF RestartDecoder, KeepDecoder, Bytes
<1> HIDE DEF queue
<1>4. bytes' \in Bytes /\ FitsQueue(bytes'.queue)
  BY <1>1, <1>2, <1>3 DEF Bytes, FitsQueue
<1>5. QED
  BY <1>1, <1>4 DEF BytesInv, FitsQueue, Bytes, Downloader

LEMMA CallKeepsBytes ==
  ASSUME BytesInv, Call
  PROVE  BytesInv'
<1>1. UNCHANGED downloader
  BY DEF Call, PrepareStream, SeekStream, StartPreparedStream, SetPlaying,
     RecoverOutputDevice, Stop
<1>2. UNCHANGED bytes \/ \E at \in Targets : RestartDecoder(at) \/ KeepDecoder
  BY DEF Call, PrepareStream, SeekStream, StartPreparedStream, SetPlaying,
     RecoverOutputDevice, Stop, RestartStreaming, KeepDecoder
<1>3. QED
  BY <1>1, <1>2, OthersLeaveBytes, RestartKeepsBytes
-----------------------------------------------------------------------------
(* The invariants *)

LEMMA InvInit == Init => Inv
<1> SUFFICES ASSUME Init PROVE Inv
  OBVIOUS
<1>1. PICK at \in Targets :
        /\ position = at
        /\ downloader = [pc |-> "Probe", range |-> {}, seen |-> at, attempt |-> 1,
                         paused |-> FALSE]
        /\ decoders = <<NewDecoder(at)>>
        /\ sink = NoSource /\ late = NoSource
        /\ player = [playing |-> FALSE, stopped |-> FALSE, calls |-> 0]
  BY DEF Init
<1> DEFINE d == NewDecoder(at)
<1>2. DecoderFits(d) /\ d \in Decoder
  BY NewDecoderFits DEF DecoderFits
<1> HIDE DEF d
<1>3. /\ <<d>> \in Seq(Decoder) /\ <<d>> # <<>> /\ Len(<<d>>) = 1 /\ <<d>>[1] = d
  BY <1>2
<1>4. DecodersFit(decoders)
  BY <1>1, <1>2, <1>3 DEF DecodersFit, d
<1>5. SourceFits(sink, decoders) /\ SourceFits(late, decoders)
  BY <1>1, NoSourceFits
<1>6. position \in Position /\ player \in Player
  BY <1>1, TargetTypes DEF Player
<1>7. "pc" \in DOMAIN downloader /\ downloader.pc = "Probe" /\ late = NoSource
  BY <1>1
<1>8. QED
  BY <1>4, <1>5, <1>6, <1>7 DEF Inv

LEMMA InvStep == Inv /\ [Next]_vars => Inv'
<1> SUFFICES ASSUME Inv, [Next]_vars PROVE Inv'
  OBVIOUS
<1>1. CASE UNCHANGED vars
  BY <1>1 DEF vars, Inv, InNext
<1>2. CASE Download \/ FetchFails
  BY <1>2, DownloadKeeps
<1>3. CASE \E i \in DOMAIN decoders : Decode(i) \/ DecodeFails(i)
  BY <1>3, DecodeKeeps
<1>4. CASE Mix
  BY <1>4, SyncBaseKeeps, SampleTakenKeeps DEF Mix
<1>5. CASE Call
  BY <1>5, CallKeeps
<1>6. QED
  BY <1>1, <1>2, <1>3, <1>4, <1>5 DEF Next
LEMMA BytesInit == Init => BytesInv
<1> SUFFICES ASSUME Init PROVE BytesInv
  OBVIOUS
<1>1. PICK at \in Targets :
        /\ bytes = [chunks |-> {}, pinned |-> {}, queue |-> <<>>, failed |-> FALSE]
        /\ downloader = [pc |-> "Probe", range |-> {}, seen |-> at, attempt |-> 1,
                         paused |-> FALSE]
  BY DEF Init
<1>2. QED
  BY <1>1, TargetTypes, ByteTypes DEF BytesInv, FitsQueue, Bytes, Downloader

LEMMA BytesStep == Inv /\ BytesInv /\ [Next]_vars => BytesInv'
<1> SUFFICES ASSUME Inv, BytesInv, [Next]_vars PROVE BytesInv'
  OBVIOUS
<1>1. CASE UNCHANGED vars
  BY <1>1, OthersLeaveBytes DEF vars
<1>2. CASE Download \/ FetchFails
  BY <1>2, ProbedKeepsBytes, PlanKeepsBytes, FetchKeepsBytes DEF Download
<1>3. CASE \E i \in DOMAIN decoders : Decode(i) \/ DecodeFails(i)
  BY <1>3, DecodeKeepsBytes
<1>4. CASE Mix
  BY <1>4, MixLeavesBytes
<1>5. CASE Call
  BY <1>5, CallKeepsBytes
<1>6. QED
  BY <1>1, <1>2, <1>3, <1>4, <1>5 DEF Next
-----------------------------------------------------------------------------
(* What follows from them *)

LEMMA ThreadsFit == Inv => ThreadsTypeOK
<1> SUFFICES ASSUME Inv PROVE ThreadsTypeOK
  OBVIOUS
<1>1. DOMAIN decoders = 1..Len(decoders)
  BY OneOfThem DEF Inv
<1>2. ASSUME NEW i \in DOMAIN decoders
      PROVE  /\ decoders[i] \in Decoder /\ decoders[i].base <= decoders[i].next
             /\ i < Current => decoders[i].canceled
  BY <1>1 DEF Inv, DecodersFit, DecoderFits, Current
<1>3. Source = SourceOf(decoders)
  BY <1>1 DEF Source, SourceOf
<1>4. {sink, late} \subseteq Source \cup {NoSource, Silent}
  BY <1>3 DEF Inv, SourceFits
<1>5. QED
  BY <1>2, <1>4 DEF Inv, ThreadsTypeOK

LEMMA BytesAreTyped == BytesInv => BytesTypeOK
  BY ByteTypes DEF BytesInv, BytesTypeOK, FitsQueue, Bytes, ToSet

(* Whatever the media, its windows and the listener's jumps are: the position never
   leaves the track, a decoder's samples end before the media does and start where it
   has some, a replaced decoder is canceled, and the mixer is within at most one of
   the sink's source and the late one.  Only chunks of the media are kept, pinned or
   asked for, though the queue is filled by the estimates of seeks, the misses of
   decoders and the metadata, and it is never longer than MAX_PENDING_OFFSETS. *)
THEOREM StreamTypeCorrect == Spec => []TypeOK
<1>1. Spec => []Inv
  BY InvInit, InvStep, PTL DEF Spec
<1>2. Spec => []BytesInv
  BY <1>1, BytesInit, BytesStep, PTL DEF Spec
<1>3. QED
  BY <1>1, <1>2, ThreadsFit, BytesAreTyped, PTL DEF TypeOK

(* No decoder, replaced or not, ever keeps more samples than a window that only the
   player's constants tell and what the media has after the end that the room knows,
   whichever of the two is longer and however the position jumps while the decoder
   sleeps (trim_before, throttle_streaming_decode). *)
THEOREM MemoryStaysBounded == Spec => []MemoryIsBounded
<1>1. Inv => MemoryIsBounded
  BY OneOfThem DEF Inv, MemoryIsBounded, DecoderFits, Window, Rest
<1>2. QED
  BY <1>1, InvInit, InvStep, PTL DEF Spec
=============================================================================
