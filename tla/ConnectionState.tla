-------------------------- MODULE ConnectionState --------------------------
(***************************************************************************)
(* What one peer keeps of its connections to one other peer of the room    *)
(* (connection_state.rs), as pure operators on a record: the entries of    *)
(* ConnectionState's maps under that peer's id.  Peers do not influence    *)
(* each other's entries.                                                   *)
(*                                                                         *)
(* An Instant is kept as its age, in units of a common clock, up to the    *)
(* age after which it makes no difference.  Status lines are left out, and *)
(* suspended_reported with them; a missing backoff is the default one.     *)
(***************************************************************************)
EXTENDS Integers

CONSTANTS
  Link,                \* connection ids, never reused
  RelayedLink,         \* those through the relay; the others are direct
  Address,             \* the other peer's direct addresses, normalized
  WarmupTimeout, HandoffGrace, DedupWindow,
  RetryInterval, MediumRetryInterval, SlowRetryInterval,
  MediumRetryFailures, SlowRetryFailures, MaxFailures

ASSUME ConnectionAssumption ==
  /\ RelayedLink \subseteq Link
  /\ WarmupTimeout \in Nat \ {0} /\ HandoffGrace \in Nat \ {0}
  /\ DedupWindow \in Nat /\ RetryInterval \in Nat
  /\ MediumRetryInterval \in Nat /\ SlowRetryInterval \in Nat
  /\ DedupWindow <= RetryInterval
  /\ RetryInterval <= MediumRetryInterval
  /\ MediumRetryInterval <= SlowRetryInterval
  /\ MediumRetryFailures \in Nat /\ SlowRetryFailures \in Nat
  /\ MaxFailures \in Nat \ {0}

DirectLink == Link \ RelayedLink

Unset == -1                       \* a timer that is not running
Old == SlowRetryInterval + 1      \* never, or too long ago to matter

Backoff == [attempts : Nat, failures : Nat, attempt_age : 0..Old,
            failure_age : 0..Old, in_flight : BOOLEAN]

State == [direct : SUBSET DirectLink, relayed : SUBSET RelayedLink,
          addresses : SUBSET Address, backoff : Backoff,
          warmup : {Unset} \cup 0..WarmupTimeout, warmup_completed : BOOLEAN,
          handoff : {Unset} \cup 0..HandoffGrace,
          subscribed : BOOLEAN, tracked : BOOLEAN]

NoBackoff == [attempts |-> 0, failures |-> 0, attempt_age |-> Old,
              failure_age |-> Old, in_flight |-> FALSE]

NewState == [direct |-> {}, relayed |-> {}, addresses |-> {},
             backoff |-> NoBackoff, warmup |-> Unset, warmup_completed |-> FALSE,
             handoff |-> Unset, subscribed |-> FALSE, tracked |-> FALSE]

Connected(s) == s.direct # {} \/ s.relayed # {}
IsRelayOnly(s) == s.direct = {} /\ s.relayed # {}
HasBothRoutes(s) == s.direct # {} /\ s.relayed # {}
-----------------------------------------------------------------------------
(* DirectPromotionBackoff *)

RetryAfter(b) ==
  IF b.failures < MediumRetryFailures THEN RetryInterval
  ELSE IF b.failures < SlowRetryFailures THEN MediumRetryInterval
  ELSE SlowRetryInterval

\* ShouldAttempt that retries as soon as the attempt before has failed.
ShouldAttemptAtOnce(b) == ~b.in_flight /\ b.failures < MaxFailures

ShouldAttempt(b) ==
  /\ ~b.in_flight
  /\ b.failures < MaxFailures
  /\ b.attempt_age > RetryAfter(b)

MarkAttempt(b) ==
  [b EXCEPT !.attempts = @ + 1, !.attempt_age = 0, !.in_flight = TRUE]

\* A MarkFailure that takes a repeated failure for one that ended no attempt.
MarkFailureOnce(b) ==
  IF b.failure_age < DedupWindow THEN b
  ELSE [b EXCEPT !.failures = @ + 1, !.failure_age = 0, !.in_flight = FALSE]

\* A dial and a hole punch that fail together are one failure.
MarkFailure(b) ==
  IF b.failure_age < DedupWindow THEN [b EXCEPT !.in_flight = FALSE]
  ELSE [b EXCEPT !.failures = @ + 1, !.failure_age = 0, !.in_flight = FALSE]
-----------------------------------------------------------------------------
(* Handlers.  A handling is the state with the effects that                *)
(* apply_connection_effects carries out: a dial, connections to close.     *)

Handling(s) == [state |-> s, dial |-> FALSE, close |-> {}]

ResetBackoff(s) == [s EXCEPT !.backoff = NoBackoff]

WarmupExpired(s) == s.warmup = WarmupTimeout

StartGossipWarmup(s) ==
  IF s.warmup_completed \/ s.warmup # Unset THEN s ELSE [s EXCEPT !.warmup = 0]

\* A warm-up without its timeout.
AllowedBySubscription(s) == s.subscribed

\* gossip_warmup_allows_promotion: its answer, and what it does to the state.
WarmupAllowsPromotion(s) == s.subscribed \/ s.warmup_completed \/ WarmupExpired(s)

AfterWarmupCheck(s) ==
  IF s.subscribed THEN [s EXCEPT !.warmup = Unset, !.warmup_completed = FALSE]
  ELSE IF s.warmup_completed THEN s
  ELSE IF WarmupExpired(s) THEN [s EXCEPT !.warmup = Unset, !.warmup_completed = TRUE]
  ELSE StartGossipWarmup(s)

MaybePromoteRelayedPeer(h) ==
  LET s == h.state
      checked == AfterWarmupCheck(s)
  IN IF ~IsRelayOnly(s) \/ s.addresses = {} THEN h
     ELSE IF WarmupAllowsPromotion(s) /\ ShouldAttempt(s.backoff)
          THEN [h EXCEPT !.state = [checked EXCEPT !.backoff = MarkAttempt(@)],
                         !.dial = TRUE]
          ELSE [h EXCEPT !.state = checked]

\* ScheduleRelayHandoff that keeps the deadline of a handoff under way.
ScheduleHandoffOnce(s) ==
  IF ~HasBothRoutes(s) THEN [s EXCEPT !.handoff = Unset]
  ELSE IF s.handoff # Unset THEN s
  ELSE [s EXCEPT !.handoff = HandoffGrace]

ScheduleRelayHandoff(s) ==
  [s EXCEPT !.handoff = IF HasBothRoutes(s) THEN HandoffGrace ELSE Unset]

CloseRelayAfterHandoff(h) ==
  LET s == h.state
      settled == HasBothRoutes(s) /\ s.subscribed
  IN [h EXCEPT !.state = [s EXCEPT !.handoff = Unset],
               !.close = @ \cup (IF settled THEN s.relayed ELSE {})]

\* The relayed half of connection_established.
RelayEstablished(s, l) ==
  LET routed == [s EXCEPT !.relayed = @ \cup {l}, !.tracked = TRUE]
  IN MaybePromoteRelayedPeer(
       Handling(IF s.subscribed THEN routed ELSE StartGossipWarmup(routed)))

\* The direct half: a direct connection next to a relayed one is closed again
\* while the peer is neither subscribed nor done with its warm-up.
DirectEstablished(s, l) ==
  LET routed == [s EXCEPT !.direct = @ \cup {l}, !.tracked = TRUE]
      alone == s.relayed = {} \/ s.subscribed
      checked == IF alone THEN routed ELSE AfterWarmupCheck(routed)
      promoted == ResetBackoff(checked)
  IN IF alone \/ WarmupAllowsPromotion(s)
     THEN Handling(IF s.subscribed /\ s.relayed # {}
                   THEN ScheduleRelayHandoff(promoted) ELSE promoted)
     ELSE [Handling(checked) EXCEPT !.close = {l}]

\* Every connection taken for a direct one.
EstablishedAsDirect(s, l) == DirectEstablished(s, l)

ConnectionEstablished(s, l) ==
  IF l \in RelayedLink THEN RelayEstablished(s, l) ELSE DirectEstablished(s, l)

\* connection_closed that forgets the routes only.
CloseRouteOnly(s, l) ==
  [s EXCEPT !.direct = @ \ {l}, !.relayed = @ \ {l}]

\* connection_closed: with the last connection everything is forgotten.
ConnectionClosed(s, l) ==
  LET left == [s EXCEPT !.direct = @ \ {l}, !.relayed = @ \ {l}]
  IN IF ~Connected(left) THEN NewState
     ELSE IF HasBothRoutes(left) THEN left ELSE [left EXCEPT !.handoff = Unset]

LearnDirectAddress(s, a) ==
  IF a \in s.addresses THEN Handling(s)
  ELSE MaybePromoteRelayedPeer(
         Handling(ResetBackoff([s EXCEPT !.addresses = @ \cup {a}])))

TrackGossipPeer(s) == [s EXCEPT !.tracked = TRUE]

\* An expired mDNS record: the address is forgotten, and a peer that is not
\* connected is no longer tracked.
ForgetDirectAddress(s, a) ==
  [s EXCEPT !.addresses = @ \ {a}, !.tracked = @ /\ Connected(s)]

ChatSubscribed(s) ==
  LET ready == [s EXCEPT !.subscribed = TRUE, !.warmup = Unset,
                         !.warmup_completed = FALSE]
      h == MaybePromoteRelayedPeer(Handling(ready))
  IN IF s.direct # {} THEN [h EXCEPT !.state = ScheduleRelayHandoff(@)] ELSE h

ChatUnsubscribed(s) ==
  [s EXCEPT !.subscribed = FALSE, !.handoff = IF Connected(s) THEN Unset ELSE @]

PromotionTick(s) == MaybePromoteRelayedPeer(Handling(s))

\* A WarmupTick that returns when no warm-up has expired.
WarmupTickForWarmups(s) ==
  LET promoted == MaybePromoteRelayedPeer(Handling(s))
  IN IF ~WarmupExpired(s) THEN Handling(s)
     ELSE IF s.handoff = 0 THEN CloseRelayAfterHandoff(promoted) ELSE promoted

WarmupTick(s) ==
  LET h == Handling(s)
      promoted == IF WarmupExpired(s) THEN MaybePromoteRelayedPeer(h) ELSE h
  IN IF s.handoff = 0 THEN CloseRelayAfterHandoff(promoted) ELSE promoted

RecordPromotionFailure(s) == [s EXCEPT !.backoff = MarkFailure(@)]

DcutrFailed(s) == IF IsRelayOnly(s) THEN RecordPromotionFailure(s) ELSE s

OutgoingConnectionError(s) ==
  IF s.backoff.in_flight THEN RecordPromotionFailure(s) ELSE s

\* A unit of time.
Older(age, limit) == IF age < limit THEN age + 1 ELSE age

AgedBackoff(b) ==
  [b EXCEPT !.attempt_age = Older(@, Old), !.failure_age = Older(@, Old)]

AdvanceClock(s) ==
  [s EXCEPT !.backoff = AgedBackoff(@),
            !.warmup = IF @ = Unset THEN @ ELSE Older(@, WarmupTimeout),
            !.handoff = IF @ > 0 THEN @ - 1 ELSE @]
=============================================================================
