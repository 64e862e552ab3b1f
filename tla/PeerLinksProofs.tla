-------------------------- MODULE PeerLinksProofs --------------------------
(***************************************************************************)
(* What the handlers of ConnectionState preserve, for every value of the   *)
(* constants: the type of the state, the routes a handoff needs, and the   *)
(* bound on attempts that the backoff keeps.  Then the invariants of       *)
(* PeerLinks, for any links, addresses, delays, bounds and intervals:      *)
(* GoodLinks is inductive on its own; Attempts is inductive with it as     *)
(* long as no subscription ends while connected, and so is Handoffs, which *)
(* relates each end's handoff timer to how long ago the other end may have *)
(* closed the direct link: from it, that a link both could use is left.    *)
(***************************************************************************)
EXTENDS PeerLinks, TLAPS

\* The backoff between its attempts and failures.  An attempt may follow a
\* failure that counted (attempts = 2 * failures) only when it is younger than
\* that failure, and the one after it starts when the window has passed.
BoundedBackoff(b) ==
  /\ b.attempts <= 2 * b.failures + 1
  /\ ~b.in_flight => b.attempts <= 2 * b.failures
  /\ b.attempts = 2 * b.failures + 1 => b.failure_age >= DedupWindow
  /\ b.attempts = 2 * b.failures => b.attempt_age <= b.failure_age

\* An attempt is made once the peer is ready for it, and stays so.
ReadyAttempt(s) == s.backoff.in_flight => s.subscribed \/ s.warmup_completed

Good(s) == s \in State /\ FitsRoutes(s) /\ BoundedBackoff(s.backoff)

GoodHandling(h) ==
  /\ h = [state |-> h.state, dial |-> h.dial, close |-> h.close]
  /\ Good(h.state) /\ h.dial \in BOOLEAN /\ h.close \in SUBSET Link
  /\ h.dial => Connected(h.state)

\* From s, an attempt is under way only if it was or if the handler dials.
KeepsAttempts(s, h) ==
  ReadyAttempt(s) => /\ ReadyAttempt(h.state)
                     /\ h.state.backoff.in_flight => s.backoff.in_flight \/ h.dial

\* An old enough age is old, and the empty backoff is a backoff.
LEMMA Ages ==
  Old \in Nat /\ DedupWindow < Old /\ SlowRetryInterval < Old /\ 0 \in 0..Old
BY ConnectionAssumption DEF Old

LEMMA NoBackoffIsGood == NoBackoff \in Backoff /\ BoundedBackoff(NoBackoff)
BY Ages, ConnectionAssumption DEF NoBackoff, Backoff, BoundedBackoff

\* Every retry interval lies beyond the window in which failures are one.
LEMMA RetryIsLate ==
  ASSUME NEW b \in Backoff
  PROVE  RetryAfter(b) \in Nat /\ DedupWindow <= RetryAfter(b)
BY ConnectionAssumption DEF RetryAfter

LEMMA AttemptIsBounded ==
  ASSUME NEW b \in Backoff, BoundedBackoff(b), ShouldAttempt(b)
  PROVE  MarkAttempt(b) \in Backoff /\ BoundedBackoff(MarkAttempt(b))
<1>1. /\ b.attempts \in Nat /\ b.failures \in Nat
      /\ b.attempt_age \in 0..Old /\ b.failure_age \in 0..Old
      /\ ~b.in_flight /\ b.attempt_age > RetryAfter(b)
  BY DEF Backoff, ShouldAttempt
<1>2. RetryAfter(b) \in Nat /\ DedupWindow \in Nat /\ DedupWindow <= RetryAfter(b)
  BY RetryIsLate, ConnectionAssumption
<1>3. MarkAttempt(b) \in Backoff
  <2>1. b.attempts + 1 \in Nat /\ 0 \in 0..Old
    BY <1>1, Ages
  <2>. QED
    BY <2>1 DEF MarkAttempt, Backoff
<1>4. /\ MarkAttempt(b).attempts = b.attempts + 1
      /\ MarkAttempt(b).failures = b.failures
      /\ MarkAttempt(b).attempt_age = 0
      /\ MarkAttempt(b).failure_age = b.failure_age
      /\ MarkAttempt(b).in_flight = TRUE
  BY DEF MarkAttempt, Backoff
<1>. QED
  BY <1>1, <1>2, <1>3, <1>4, Ages DEF BoundedBackoff

LEMMA FailureIsBounded ==
  ASSUME NEW b \in Backoff, BoundedBackoff(b)
  PROVE  /\ MarkFailure(b) \in Backoff /\ BoundedBackoff(MarkFailure(b))
         /\ ~MarkFailure(b).in_flight
<1>1. /\ b.attempts \in Nat /\ b.failures \in Nat
      /\ b.attempt_age \in 0..Old /\ b.failure_age \in 0..Old
  BY DEF Backoff
<1>2. CASE b.failure_age < DedupWindow
  <2>1. MarkFailure(b) = [b EXCEPT !.in_flight = FALSE]
    BY <1>2 DEF MarkFailure
  <2>2. /\ MarkFailure(b) \in Backoff
        /\ MarkFailure(b).attempts = b.attempts
        /\ MarkFailure(b).failures = b.failures
        /\ MarkFailure(b).attempt_age = b.attempt_age
        /\ MarkFailure(b).failure_age = b.failure_age
        /\ MarkFailure(b).in_flight = FALSE
    BY <2>1 DEF Backoff
  <2>. QED
    BY <1>1, <1>2, <2>2, ConnectionAssumption DEF BoundedBackoff
<1>3. CASE ~(b.failure_age < DedupWindow)
  <2>1. MarkFailure(b) = [b EXCEPT !.failures = @ + 1, !.failure_age = 0, !.in_flight = FALSE]
    BY <1>3 DEF MarkFailure
  <2>2. b.failures + 1 \in Nat /\ 0 \in 0..Old
    BY <1>1, Ages
  <2>3. /\ MarkFailure(b) \in Backoff
        /\ MarkFailure(b).attempts = b.attempts
        /\ MarkFailure(b).failures = b.failures + 1
        /\ MarkFailure(b).attempt_age = b.attempt_age
        /\ MarkFailure(b).failure_age = 0
        /\ MarkFailure(b).in_flight = FALSE
    BY <2>1, <2>2 DEF Backoff
  <2>. QED
    BY <1>1, <2>3, ConnectionAssumption DEF BoundedBackoff
<1>. QED
  BY <1>2, <1>3
-----------------------------------------------------------------------------
\* The timers' own starting values.
LEMMA Timers ==
  /\ Unset \in {Unset} \cup 0..WarmupTimeout /\ 0 \in {Unset} \cup 0..WarmupTimeout
  /\ Unset \in {Unset} \cup 0..HandoffGrace
  /\ HandoffGrace \in {Unset} \cup 0..HandoffGrace
BY ConnectionAssumption

LEMMA NewStateIsGood == Good(NewState) /\ ReadyAttempt(NewState)
BY NoBackoffIsGood, Timers
DEF Good, State, NewState, FitsRoutes, Connected, HasBothRoutes, ReadyAttempt, NoBackoff

\* A warm-up check touches the warm-up only.
LEMMA StartIsGood ==
  ASSUME NEW s, Good(s), Connected(s)
  PROVE  LET c == StartGossipWarmup(s) IN
         /\ Good(c)
         /\ c.direct = s.direct /\ c.relayed = s.relayed /\ c.backoff = s.backoff
         /\ c.addresses = s.addresses
         /\ c.subscribed = s.subscribed /\ c.warmup_completed = s.warmup_completed
BY Timers
DEF StartGossipWarmup, Good, State, FitsRoutes, Connected, HasBothRoutes

LEMMA CheckIsGood ==
  ASSUME NEW s, Good(s), Connected(s)
  PROVE  LET c == AfterWarmupCheck(s) IN
         /\ Good(c)
         /\ c.direct = s.direct /\ c.relayed = s.relayed /\ c.backoff = s.backoff
         /\ c.subscribed = s.subscribed
         /\ ReadyAttempt(s) => ReadyAttempt(c)
         /\ WarmupAllowsPromotion(s) => c.subscribed \/ c.warmup_completed
<1>1. CASE s.subscribed
  BY <1>1, Timers
  DEF AfterWarmupCheck, Good, State, FitsRoutes, Connected, HasBothRoutes, ReadyAttempt
<1>2. CASE ~s.subscribed /\ s.warmup_completed
  BY <1>2 DEF AfterWarmupCheck
<1>3. CASE ~s.subscribed /\ ~s.warmup_completed /\ WarmupExpired(s)
  BY <1>3, Timers
  DEF AfterWarmupCheck, Good, State, FitsRoutes, Connected, HasBothRoutes, ReadyAttempt
<1>4. CASE ~s.subscribed /\ ~s.warmup_completed /\ ~WarmupExpired(s)
  <2>1. AfterWarmupCheck(s) = StartGossipWarmup(s)
    BY <1>4 DEF AfterWarmupCheck
  <2>. QED
    BY <1>4, <2>1, StartIsGood DEF ReadyAttempt, WarmupAllowsPromotion
<1>. QED
  BY <1>1, <1>2, <1>3, <1>4

\* Any change of the backoff of a connected peer's state.
LEMMA BackoffChangeIsGood ==
  ASSUME NEW s, Good(s), NEW b \in Backoff, BoundedBackoff(b),
         Connected(s) \/ b = NoBackoff
  PROVE  LET c == [s EXCEPT !.backoff = b] IN
         /\ Good(c)
         /\ c.direct = s.direct /\ c.relayed = s.relayed /\ c.backoff = b
         /\ c.addresses = s.addresses /\ c.subscribed = s.subscribed
         /\ c.warmup_completed = s.warmup_completed /\ c.handoff = s.handoff
BY DEF Good, State, FitsRoutes, Connected, HasBothRoutes

\* Without routes there is no attempt, and only with one is a peer on the relay.
LEMMA PromotionIsGood ==
  ASSUME NEW h, GoodHandling(h), ~h.dial
  PROVE  LET g == MaybePromoteRelayedPeer(h) IN
         /\ GoodHandling(g) /\ g.close = h.close
         /\ KeepsAttempts(h.state, g)
         /\ g.state.direct = h.state.direct /\ g.state.relayed = h.state.relayed
         /\ g.state.subscribed = h.state.subscribed
<1> DEFINE s == h.state
           c == AfterWarmupCheck(s)
           g == MaybePromoteRelayedPeer(h)
<1>1. CASE ~IsRelayOnly(s) \/ s.addresses = {}
  <2>1. g = h
    BY <1>1 DEF MaybePromoteRelayedPeer
  <2>. QED
    BY <2>1 DEF KeepsAttempts
<1>2. CASE /\ IsRelayOnly(s) /\ s.addresses # {}
           /\ WarmupAllowsPromotion(s) /\ ShouldAttempt(s.backoff)
  <2> DEFINE b == MarkAttempt(c.backoff)
             a == [c EXCEPT !.backoff = b]
  <2>1. Connected(s) /\ Good(s)
    BY <1>2 DEF IsRelayOnly, Connected, GoodHandling
  <2>2. /\ Good(c) /\ c.direct = s.direct /\ c.relayed = s.relayed
        /\ c.backoff = s.backoff /\ c.subscribed = s.subscribed
        /\ c.subscribed \/ c.warmup_completed
    BY <1>2, <2>1, CheckIsGood
  <2>3. b \in Backoff /\ BoundedBackoff(b)
    BY <1>2, <2>2, AttemptIsBounded DEF Good, State
  <2>4. Connected(c)
    BY <2>1, <2>2 DEF Connected
  <2>5. /\ Good(a) /\ a.direct = c.direct /\ a.relayed = c.relayed
        /\ a.subscribed = c.subscribed /\ a.warmup_completed = c.warmup_completed
    <3> HIDE DEF b, c
    <3>. QED
      BY <2>2, <2>3, <2>4, BackoffChangeIsGood
  <2>6. g = [h EXCEPT !.state = a, !.dial = TRUE]
    BY <1>2 DEF MaybePromoteRelayedPeer
  <2>7. g = [state |-> a, dial |-> TRUE, close |-> h.close]
    <3> HIDE DEF a, g
    <3>. QED
      BY <2>6 DEF GoodHandling
  <2>8. Connected(a)
    BY <2>4, <2>5 DEF Connected
  <2> HIDE DEF a, g
  <2>. QED
    BY <2>2, <2>5, <2>7, <2>8 DEF GoodHandling, KeepsAttempts, ReadyAttempt, g
<1>3. CASE /\ IsRelayOnly(s) /\ s.addresses # {}
           /\ ~(WarmupAllowsPromotion(s) /\ ShouldAttempt(s.backoff))
  <2>1. Connected(s) /\ Good(s)
    BY <1>3 DEF IsRelayOnly, Connected, GoodHandling
  <2>2. /\ Good(c) /\ c.direct = s.direct /\ c.relayed = s.relayed
        /\ c.backoff = s.backoff /\ c.subscribed = s.subscribed
        /\ ReadyAttempt(s) => ReadyAttempt(c)
    BY <2>1, CheckIsGood
  <2>3. g = [h EXCEPT !.state = c]
    BY <1>3 DEF MaybePromoteRelayedPeer
  <2>4. g = [state |-> c, dial |-> h.dial, close |-> h.close]
    <3> HIDE DEF c, g
    <3>. QED
      BY <2>3 DEF GoodHandling
  <2> HIDE DEF c, g
  <2>. QED
    BY <2>2, <2>4 DEF GoodHandling, KeepsAttempts, g
<1>. QED
  BY <1>1, <1>2, <1>3

\* A handling that has done nothing yet.
LEMMA HandlingIsGood ==
  ASSUME NEW s, Good(s)
  PROVE  LET h == Handling(s) IN
         GoodHandling(h) /\ h.state = s /\ h.dial = FALSE /\ h.close = {}
BY DEF Handling, GoodHandling

\* A promotion that begins a handling.
LEMMA PromoteFrom ==
  ASSUME NEW s, Good(s)
  PROVE  LET h == MaybePromoteRelayedPeer(Handling(s)) IN
         /\ GoodHandling(h) /\ h.close = {}
         /\ KeepsAttempts(s, h)
         /\ h.state.direct = s.direct /\ h.state.relayed = s.relayed
         /\ h.state.subscribed = s.subscribed
<1> DEFINE k == Handling(s)
<1>1. GoodHandling(k) /\ k.state = s /\ ~k.dial /\ k.close = {}
  BY HandlingIsGood
<1> HIDE DEF k
<1>2. LET g == MaybePromoteRelayedPeer(k) IN
      /\ GoodHandling(g) /\ g.close = k.close
      /\ KeepsAttempts(k.state, g)
      /\ g.state.direct = k.state.direct /\ g.state.relayed = k.state.relayed
      /\ g.state.subscribed = k.state.subscribed
  BY <1>1, PromotionIsGood
<1>. QED
  BY <1>1, <1>2 DEF k
-----------------------------------------------------------------------------
(* The handlers *)

LEMMA ResetIsGood ==
  ASSUME NEW s, Good(s)
  PROVE  LET c == ResetBackoff(s) IN
         /\ Good(c) /\ ~c.backoff.in_flight
         /\ c.direct = s.direct /\ c.relayed = s.relayed
         /\ c.subscribed = s.subscribed /\ c.handoff = s.handoff
<1>1. ~NoBackoff.in_flight
  BY DEF NoBackoff
<1>. QED
  BY <1>1, NoBackoffIsGood, BackoffChangeIsGood DEF ResetBackoff

LEMMA RelayEstablishedIsGood ==
  ASSUME NEW s, Good(s), NEW l \in RelayedLink
  PROVE  GoodHandling(RelayEstablished(s, l)) /\ KeepsAttempts(s, RelayEstablished(s, l))
<1> DEFINE routed == [s EXCEPT !.relayed = @ \cup {l}, !.tracked = TRUE]
           r == IF s.subscribed THEN routed ELSE StartGossipWarmup(routed)
<1>1. /\ routed \in State /\ routed.relayed # {} /\ routed.tracked
      /\ routed.direct = s.direct /\ routed.handoff = s.handoff
      /\ routed.backoff = s.backoff /\ routed.subscribed = s.subscribed
      /\ routed.warmup_completed = s.warmup_completed
  BY DEF Good, State
<1>2. Good(routed) /\ Connected(routed)
  BY <1>1 DEF Good, FitsRoutes, Connected, HasBothRoutes
<1> HIDE DEF routed
<1>3. /\ Good(r) /\ r.backoff = s.backoff /\ r.subscribed = s.subscribed
      /\ r.warmup_completed = s.warmup_completed
  BY <1>1, <1>2, StartIsGood
<1>4. ReadyAttempt(s) => ReadyAttempt(r)
  BY <1>3 DEF ReadyAttempt
<1> HIDE DEF r
<1>5. RelayEstablished(s, l) = MaybePromoteRelayedPeer(Handling(r))
  BY DEF RelayEstablished, r, routed
<1>6. /\ GoodHandling(MaybePromoteRelayedPeer(Handling(r)))
      /\ KeepsAttempts(r, MaybePromoteRelayedPeer(Handling(r)))
  BY <1>3, PromoteFrom
<1>. QED
  BY <1>3, <1>4, <1>5, <1>6 DEF KeepsAttempts

\* A direct connection that is kept ends the attempt; one that is closed early
\* meets none.
LEMMA DirectEstablishedIsGood ==
  ASSUME NEW s, Good(s), NEW l \in DirectLink
  PROVE  LET h == DirectEstablished(s, l) IN
         /\ GoodHandling(h) /\ ~h.dial
         /\ ReadyAttempt(s) => ~h.state.backoff.in_flight
<1> DEFINE routed == [s EXCEPT !.direct = @ \cup {l}, !.tracked = TRUE]
           alone == s.relayed = {} \/ s.subscribed
           checked == IF alone THEN routed ELSE AfterWarmupCheck(routed)
           promoted == ResetBackoff(checked)
           h == DirectEstablished(s, l)
<1>0. l \in Link
  BY DEF DirectLink
<1>1. /\ routed \in State /\ routed.direct # {} /\ routed.tracked
      /\ routed.relayed = s.relayed /\ routed.handoff = s.handoff
      /\ routed.backoff = s.backoff /\ routed.subscribed = s.subscribed
  BY DEF Good, State
<1>2. Good(routed) /\ Connected(routed)
  BY <1>1 DEF Good, FitsRoutes, Connected, HasBothRoutes
<1> HIDE DEF routed
<1>3. /\ Good(checked) /\ checked.backoff = s.backoff
      /\ checked.direct = routed.direct /\ checked.relayed = s.relayed
      /\ checked.subscribed = s.subscribed
  BY <1>1, <1>2, CheckIsGood
<1> HIDE DEF checked
<1>4. /\ Good(promoted) /\ ~promoted.backoff.in_flight
      /\ promoted.direct # {} /\ promoted.relayed = s.relayed
      /\ promoted.subscribed = s.subscribed
  BY <1>1, <1>3, ResetIsGood
<1> HIDE DEF promoted
<1>5. CASE alone \/ WarmupAllowsPromotion(s)
  <2> DEFINE p == IF s.subscribed /\ s.relayed # {}
                  THEN ScheduleRelayHandoff(promoted) ELSE promoted
  <2>1. h = Handling(p)
    BY <1>5 DEF DirectEstablished, promoted, checked, routed
  <2>2. Good(p) /\ ~p.backoff.in_flight
    BY <1>4, Timers
    DEF ScheduleRelayHandoff, Good, State, FitsRoutes, HasBothRoutes, Connected
  <2> HIDE DEF p
  <2>. QED
    BY <2>1, <2>2, HandlingIsGood
<1>6. CASE ~(alone \/ WarmupAllowsPromotion(s))
  <2>1. h = [Handling(checked) EXCEPT !.close = {l}]
    BY <1>6 DEF DirectEstablished, checked, routed
  <2>2. h = [state |-> checked, dial |-> FALSE, close |-> {l}]
    BY <2>1 DEF Handling
  <2>3. ReadyAttempt(s) => ~checked.backoff.in_flight
    BY <1>3, <1>6 DEF ReadyAttempt, WarmupAllowsPromotion
  <2> HIDE DEF h
  <2>. QED
    BY <1>0, <1>3, <2>2, <2>3 DEF GoodHandling, h
<1>. QED
  BY <1>5, <1>6

LEMMA EstablishedIsGood ==
  ASSUME NEW s, Good(s), NEW l \in Link
  PROVE  LET h == ConnectionEstablished(s, l) IN
         /\ GoodHandling(h) /\ KeepsAttempts(s, h)
         /\ ReadyAttempt(s) /\ l \in DirectLink => ~h.state.backoff.in_flight
<1>1. CASE l \in RelayedLink
  BY <1>1, RelayEstablishedIsGood DEF ConnectionEstablished, DirectLink
<1>2. CASE l \notin RelayedLink
  <2>1. l \in DirectLink
    BY <1>2 DEF DirectLink
  <2>2. ConnectionEstablished(s, l) = DirectEstablished(s, l)
    BY <1>2 DEF ConnectionEstablished
  <2>. QED
    BY <2>1, <2>2, DirectEstablishedIsGood DEF KeepsAttempts, ReadyAttempt
<1>. QED
  BY <1>1, <1>2

LEMMA ClosedIsGood ==
  ASSUME NEW s, Good(s), NEW l \in Link
  PROVE  LET c == ConnectionClosed(s, l) IN
         /\ Good(c) /\ (ReadyAttempt(s) => ReadyAttempt(c))
         /\ c.backoff.in_flight => s.backoff.in_flight
<1> DEFINE left == [s EXCEPT !.direct = @ \ {l}, !.relayed = @ \ {l}]
<1>1. /\ left \in State /\ left.handoff = s.handoff /\ left.tracked = s.tracked
      /\ left.backoff = s.backoff /\ left.subscribed = s.subscribed
      /\ left.warmup_completed = s.warmup_completed
      /\ left.direct = s.direct \ {l} /\ left.relayed = s.relayed \ {l}
  BY DEF Good, State
<1>2. Connected(left) => Connected(s)
  BY <1>1 DEF Connected
<1> HIDE DEF left
<1>3. CASE ~Connected(left)
  <2>1. ConnectionClosed(s, l) = NewState
    BY <1>3 DEF ConnectionClosed, left
  <2>2. ~NewState.backoff.in_flight
    BY DEF NewState, NoBackoff
  <2>. QED
    BY <2>1, <2>2, NewStateIsGood
<1>4. CASE Connected(left) /\ HasBothRoutes(left)
  <2>1. ConnectionClosed(s, l) = left
    BY <1>4 DEF ConnectionClosed, left
  <2>. QED
    BY <1>1, <1>2, <1>4, <2>1 DEF Good, FitsRoutes, ReadyAttempt
<1>5. CASE Connected(left) /\ ~HasBothRoutes(left)
  <2>1. ConnectionClosed(s, l) = [left EXCEPT !.handoff = Unset]
    BY <1>5 DEF ConnectionClosed, left
  <2>2. [left EXCEPT !.handoff = Unset] \in State
    BY <1>1, Timers DEF State
  <2>. QED
    BY <1>1, <1>2, <1>5, <2>1, <2>2
    DEF Good, FitsRoutes, ReadyAttempt, State, Connected
<1>. QED
  BY <1>3, <1>4, <1>5

LEMMA TrackIsGood ==
  ASSUME NEW s, Good(s)
  PROVE  LET c == TrackGossipPeer(s) IN
         /\ Good(c) /\ c.backoff = s.backoff
         /\ c.subscribed = s.subscribed /\ c.warmup_completed = s.warmup_completed
BY DEF TrackGossipPeer, Good, State, FitsRoutes, Connected, HasBothRoutes

LEMMA LearnIsGood ==
  ASSUME NEW s, Good(s), NEW a \in Address
  PROVE  LET h == LearnDirectAddress(s, a) IN GoodHandling(h) /\ KeepsAttempts(s, h)
<1> DEFINE known == [s EXCEPT !.addresses = @ \cup {a}]
           r == ResetBackoff(known)
<1>1. CASE a \in s.addresses
  BY <1>1, HandlingIsGood DEF LearnDirectAddress, KeepsAttempts
<1>2. CASE a \notin s.addresses
  <2>1. Good(known)
    BY DEF Good, State, FitsRoutes, Connected, HasBothRoutes
  <2> HIDE DEF known
  <2>2. Good(r) /\ ~r.backoff.in_flight
    BY <2>1, ResetIsGood
  <2>3. LearnDirectAddress(s, a) = MaybePromoteRelayedPeer(Handling(r))
    BY <1>2 DEF LearnDirectAddress, known
  <2> HIDE DEF r
  <2>4. ReadyAttempt(r)
    BY <2>2 DEF ReadyAttempt
  <2>5. /\ GoodHandling(MaybePromoteRelayedPeer(Handling(r)))
        /\ KeepsAttempts(r, MaybePromoteRelayedPeer(Handling(r)))
    BY <2>2, PromoteFrom
  <2>. QED
    BY <2>2, <2>3, <2>4, <2>5 DEF KeepsAttempts
<1>. QED
  BY <1>1, <1>2

LEMMA ForgetIsGood ==
  ASSUME NEW s, Good(s), NEW a
  PROVE  LET c == ForgetDirectAddress(s, a) IN
         /\ Good(c) /\ c.backoff = s.backoff
         /\ c.subscribed = s.subscribed /\ c.warmup_completed = s.warmup_completed
<1>1. (s.tracked /\ Connected(s)) \in BOOLEAN
  BY DEF Connected
<1>. QED
  BY <1>1 DEF ForgetDirectAddress, Good, State, FitsRoutes, Connected, HasBothRoutes

LEMMA SubscribedIsGood ==
  ASSUME NEW s, Good(s), Connected(s)
  PROVE  LET h == ChatSubscribed(s) IN GoodHandling(h) /\ KeepsAttempts(s, h)
<1> DEFINE ready == [s EXCEPT !.subscribed = TRUE, !.warmup = Unset,
                              !.warmup_completed = FALSE]
           p == MaybePromoteRelayedPeer(Handling(ready))
           h == ChatSubscribed(s)
<1>1. Good(ready) /\ ready.backoff = s.backoff /\ ready.subscribed /\ ready.direct = s.direct
  BY Timers DEF Good, State, FitsRoutes, Connected, HasBothRoutes
<1>2. ReadyAttempt(ready)
  BY <1>1 DEF ReadyAttempt
<1> HIDE DEF ready
<1>3. /\ GoodHandling(p) /\ KeepsAttempts(ready, p)
      /\ p.state.direct = ready.direct /\ p.state.subscribed = ready.subscribed
  BY <1>1, PromoteFrom
<1> HIDE DEF p
<1>4. CASE s.direct = {}
  <2>1. h = p
    BY <1>4 DEF ChatSubscribed, p, ready
  <2>. QED
    BY <1>1, <1>2, <1>3, <2>1 DEF KeepsAttempts
<1>5. CASE s.direct # {}
  <2> DEFINE c == ScheduleRelayHandoff(p.state)
  <2>1. h = [p EXCEPT !.state = c]
    BY <1>5 DEF ChatSubscribed, p, ready
  <2>2. /\ Good(c) /\ c.backoff = p.state.backoff /\ c.subscribed
        /\ c.direct = p.state.direct
    BY <1>1, <1>3, Timers
    DEF ScheduleRelayHandoff, GoodHandling, Good, State, FitsRoutes, HasBothRoutes, Connected
  <2>3. h = [state |-> c, dial |-> p.dial, close |-> p.close]
    <3> HIDE DEF c, h
    <3>. QED
      BY <1>3, <2>1 DEF GoodHandling
  <2>4. Connected(c)
    BY <1>1, <1>3, <1>5, <2>2 DEF Connected
  <2> HIDE DEF c, h
  <2>. QED
    BY <1>1, <1>2, <1>3, <2>2, <2>3, <2>4 DEF GoodHandling, KeepsAttempts, ReadyAttempt, h
<1>. QED
  BY <1>4, <1>5

LEMMA UnsubscribedIsGood ==
  ASSUME NEW s, Good(s), Connected(s)
  PROVE  LET c == ChatUnsubscribed(s) IN Good(c) /\ c.backoff = s.backoff
BY Timers DEF ChatUnsubscribed, Good, State, FitsRoutes, Connected, HasBothRoutes

LEMMA WarmupTickIsGood ==
  ASSUME NEW s, Good(s)
  PROVE  GoodHandling(WarmupTick(s)) /\ KeepsAttempts(s, WarmupTick(s))
<1> DEFINE k == Handling(s)
           p == IF WarmupExpired(s) THEN MaybePromoteRelayedPeer(k) ELSE k
           c == [p.state EXCEPT !.handoff = Unset]
           settled == HasBothRoutes(p.state) /\ p.state.subscribed
           close == p.close \cup (IF settled THEN p.state.relayed ELSE {})
<1>1. GoodHandling(k) /\ KeepsAttempts(s, k)
  BY HandlingIsGood DEF KeepsAttempts
<1>2. GoodHandling(p) /\ KeepsAttempts(s, p)
  BY <1>1, PromoteFrom
<1> HIDE DEF p
<1>3. CASE s.handoff # 0
  BY <1>2, <1>3 DEF WarmupTick, p
<1>4. CASE s.handoff = 0
  <2>1. WarmupTick(s) = [p EXCEPT !.state = c, !.close = close]
    <3>1. WarmupTick(s) = CloseRelayAfterHandoff(p)
      BY <1>4 DEF WarmupTick, p
    <3>. QED
      BY <3>1, <1>2 DEF CloseRelayAfterHandoff, GoodHandling
  <2>2. /\ Good(c) /\ c.backoff = p.state.backoff /\ c.subscribed = p.state.subscribed
        /\ c.warmup_completed = p.state.warmup_completed
        /\ c.direct = p.state.direct /\ c.relayed = p.state.relayed
    BY <1>2, Timers DEF GoodHandling, Good, State, FitsRoutes, HasBothRoutes, Connected
  <2>3. close \in SUBSET Link
    BY <1>2, ConnectionAssumption DEF GoodHandling, Good, State
  <2> HIDE DEF c, close
  <2>4. WarmupTick(s) = [state |-> c, dial |-> p.dial, close |-> close]
    BY <1>2, <2>1 DEF GoodHandling
  <2>. QED
    BY <1>2, <2>2, <2>3, <2>4 DEF GoodHandling, KeepsAttempts, ReadyAttempt, Connected
<1>. QED
  BY <1>3, <1>4

LEMMA FailureIsGood ==
  ASSUME NEW s, Good(s), Connected(s)
  PROVE  LET c == RecordPromotionFailure(s) IN
         Good(c) /\ ~c.backoff.in_flight
<1>1. s.backoff \in Backoff /\ BoundedBackoff(s.backoff)
  BY DEF Good, State
<1>. QED
  BY <1>1, FailureIsBounded, BackoffChangeIsGood DEF RecordPromotionFailure

\* An attempt is of a connected peer.
LEMMA AttemptIsConnected ==
  ASSUME NEW s, Good(s), s.backoff.in_flight
  PROVE  Connected(s)
BY DEF Good, FitsRoutes, NoBackoff

LEMMA DialErrorIsGood ==
  ASSUME NEW s, Good(s)
  PROVE  LET c == OutgoingConnectionError(s) IN Good(c) /\ ~c.backoff.in_flight
BY FailureIsGood, AttemptIsConnected DEF OutgoingConnectionError, Good, State, Backoff

LEMMA DcutrFailedIsGood ==
  ASSUME NEW s, Good(s)
  PROVE  LET c == DcutrFailed(s) IN
         /\ Good(c) /\ (ReadyAttempt(s) => ReadyAttempt(c))
         /\ c.backoff.in_flight => s.backoff.in_flight
BY FailureIsGood DEF DcutrFailed, IsRelayOnly, Connected, ReadyAttempt

LEMMA OlderIsAge ==
  ASSUME NEW limit \in Nat, NEW age \in 0..limit
  PROVE  Older(age, limit) \in 0..limit /\ Older(age, limit) >= age
BY DEF Older

LEMMA ClockIsGood ==
  ASSUME NEW s, Good(s)
  PROVE  LET c == AdvanceClock(s) IN
         /\ Good(c) /\ c.backoff.in_flight = s.backoff.in_flight
         /\ c.subscribed = s.subscribed /\ c.warmup_completed = s.warmup_completed
<1> DEFINE b == s.backoff
           o == AgedBackoff(b)
           w == IF s.warmup = Unset THEN s.warmup ELSE Older(s.warmup, WarmupTimeout)
           d == IF s.handoff > 0 THEN s.handoff - 1 ELSE s.handoff
           c == [s EXCEPT !.backoff = o, !.warmup = w, !.handoff = d]
<1>0. AdvanceClock(s) = c
  BY DEF AdvanceClock
<1>1. b \in Backoff /\ BoundedBackoff(b)
  BY DEF Good, State
<1>2. /\ b.attempts \in Nat /\ b.failures \in Nat
      /\ b.attempt_age \in 0..Old /\ b.failure_age \in 0..Old
  BY <1>1 DEF Backoff
<1>3. /\ Older(b.attempt_age, Old) \in 0..Old /\ Older(b.failure_age, Old) \in 0..Old
      /\ Older(b.failure_age, Old) >= b.failure_age
      /\ b.attempt_age <= b.failure_age
          => Older(b.attempt_age, Old) <= Older(b.failure_age, Old)
  BY <1>2, Ages DEF Older
<1>4. /\ o \in Backoff /\ o.attempts = b.attempts /\ o.failures = b.failures
      /\ o.attempt_age = Older(b.attempt_age, Old)
      /\ o.failure_age = Older(b.failure_age, Old) /\ o.in_flight = b.in_flight
  BY <1>1, <1>3 DEF Backoff, AgedBackoff
<1> HIDE DEF b, o
<1>5. BoundedBackoff(o)
  BY <1>1, <1>2, <1>3, <1>4, Ages, ConnectionAssumption DEF BoundedBackoff
<1>6. w \in {Unset} \cup 0..WarmupTimeout /\ (s.warmup = Unset => w = Unset)
  BY OlderIsAge, Timers, ConnectionAssumption DEF Good, State
<1>7. d \in {Unset} \cup 0..HandoffGrace /\ (d # Unset => s.handoff # Unset)
  BY ConnectionAssumption DEF Good, State, Unset
<1>8. b = NoBackoff => o = NoBackoff
  <2>1. Older(Old, Old) = Old
    BY Ages DEF Older
  <2>2. o.attempts = 0 /\ o.failures = 0 /\ o.attempt_age = Old
        /\ o.failure_age = Old /\ o.in_flight = FALSE
        <=> o = NoBackoff
    BY <1>4 DEF NoBackoff, Backoff
  <2>. QED
    BY <1>4, <2>1, <2>2 DEF NoBackoff
<1> HIDE DEF w, d
<1>9. /\ c \in State /\ c.backoff = o /\ c.warmup = w /\ c.handoff = d
       /\ c.direct = s.direct /\ c.relayed = s.relayed /\ c.tracked = s.tracked
       /\ c.subscribed = s.subscribed /\ c.warmup_completed = s.warmup_completed
  BY <1>4, <1>6, <1>7 DEF Good, State
<1> HIDE DEF c
<1>10. FitsRoutes(c)
  BY <1>6, <1>7, <1>8, <1>9 DEF Good, FitsRoutes, HasBothRoutes, Connected, b
<1>. QED
  BY <1>0, <1>4, <1>5, <1>9, <1>10 DEF Good, b

-----------------------------------------------------------------------------

GoodLinks == TypeOK /\ \A e \in End : Good(conn[e])

Attempts ==
  \A e \in End : /\ ReadyAttempt(conn[e])
                 /\ conn[e].backoff.in_flight => dials[e] > 0

\* What a step owes to both invariants.
Keeps == GoodLinks' /\ (Attempts /\ Leavers = {} => Attempts')

LEMMA InitIsGood ==
  ASSUME Init
  PROVE  GoodLinks /\ Attempts
<1>1. Good(NewState) /\ ReadyAttempt(NewState) /\ ~NewState.backoff.in_flight
  BY NewStateIsGood DEF NewState, NoBackoff
<1>2. conn \in [End -> State] /\ \A e \in End : conn[e] = NewState
  BY <1>1 DEF Init, Good
<1>3. link \in [Link -> LinkState]
  BY LinksAssumption DEF Init, LinkState, View
<1>4. dials \in [End -> Nat] /\ learns \in [End -> 0..MaxLearns] /\ breaks \in 0..MaxBreaks
  BY LinksAssumption DEF Init
<1>. QED
  BY <1>1, <1>2, <1>3, <1>4 DEF GoodLinks, TypeOK, Attempts

LEMMA AskIsTyped ==
  ASSUME NEW links \in [Link -> LinkState], NEW e \in End, NEW close
  PROVE  AskToClose(links, e, close) \in [Link -> LinkState]
<1>1. ASSUME NEW l \in Link
      PROVE  [links[l] EXCEPT !.asked = @ \cup {e},
                              !.age = IF links[l].asked = {} THEN 0 ELSE @] \in LinkState
  <2> DEFINE age == IF links[l].asked = {} THEN 0 ELSE links[l].age
             asked == links[l].asked \cup {e}
  <2>1. links[l] \in LinkState /\ 0 \in 0..Delay
    BY LinksAssumption
  <2>2. age \in 0..Delay /\ asked \in SUBSET End
    BY <2>1 DEF LinkState
  <2>3. [links[l] EXCEPT !.asked = asked, !.age = age] \in LinkState
    <3> HIDE DEF age, asked
    <3>. QED
      BY <2>1, <2>2 DEF LinkState
  <2>4. [links[l] EXCEPT !.asked = @ \cup {e},
                         !.age = IF links[l].asked = {} THEN 0 ELSE @]
          = [links[l] EXCEPT !.asked = asked, !.age = age]
    BY <2>1
  <2>. QED
    BY <2>3, <2>4
<1>. QED
  BY <1>1 DEF AskToClose

\* An event at an end, given what its handler does.
LEMMA HandleKeeps ==
  ASSUME GoodLinks,
         NEW e \in End, NEW h, GoodHandling(h), NEW links \in [Link -> LinkState],
         NEW n \in {0, 1}, n <= dials[e], Handle(e, h, links, n),
         learns' \in [End -> 0..MaxLearns], breaks' \in 0..MaxBreaks
  PROVE  /\ GoodLinks'
         /\ /\ Attempts /\ ReadyAttempt(h.state)
            /\ h.state.backoff.in_flight => h.dial \/ dials[e] - n > 0
            => Attempts'
<1>1. /\ conn \in [End -> State] /\ dials \in [End -> Nat]
      /\ \A x \in End : Good(conn[x])
  BY DEF GoodLinks, TypeOK
<1>2. PICK refused \in BOOLEAN :
        /\ refused => h.dial
        /\ conn' = [conn EXCEPT ![e] =
                      IF refused THEN RecordPromotionFailure(h.state) ELSE h.state]
        /\ dials' = [dials EXCEPT ![e] =
                       @ - n + (IF h.dial /\ ~refused THEN 1 ELSE 0)]
  BY DEF Handle
<1>3. link' \in [Link -> LinkState]
  BY AskIsTyped DEF Handle
<1>4. Good(h.state) /\ h.dial \in BOOLEAN /\ (h.dial => Connected(h.state))
  BY DEF GoodHandling
<1> DEFINE s == IF refused THEN RecordPromotionFailure(h.state) ELSE h.state
<1>5. /\ Good(s)
      /\ refused => ~s.backoff.in_flight
      /\ ~refused => s = h.state
  BY <1>2, <1>4, FailureIsGood
<1>6. conn' = [conn EXCEPT ![e] = s]
  BY <1>2
<1> HIDE DEF s
<1>7. s \in State
  BY <1>5 DEF Good
<1>8. /\ conn' \in [End -> State] /\ conn'[e] = s
      /\ \A x \in End : x # e => conn'[x] = conn[x]
  BY <1>1, <1>6, <1>7
<1>9. /\ dials' \in [End -> Nat]
      /\ dials'[e] = dials[e] - n + (IF h.dial /\ ~refused THEN 1 ELSE 0)
      /\ \A x \in End : x # e => dials'[x] = dials[x]
  BY <1>1, <1>2
<1>10. GoodLinks'
  BY <1>1, <1>3, <1>5, <1>8, <1>9 DEF GoodLinks, TypeOK
<1>11. ASSUME Attempts, ReadyAttempt(h.state),
              h.state.backoff.in_flight => h.dial \/ dials[e] - n > 0,
              NEW x \in End
       PROVE  ReadyAttempt(conn'[x]) /\ (conn'[x].backoff.in_flight => dials'[x] > 0)
  <2>1. CASE x # e
    BY <1>8, <1>9, <1>11, <2>1 DEF Attempts
  <2>2. CASE x = e /\ refused
    BY <1>5, <1>8, <2>2 DEF ReadyAttempt
  <2>3. CASE x = e /\ ~refused
    <3>1. dials[e] \in Nat
      BY <1>1
    <3>2. conn'[x] = h.state /\ dials'[x] = dials[e] - n + (IF h.dial THEN 1 ELSE 0)
      BY <1>5, <1>8, <1>9, <2>3
    <3>. QED
      BY <1>4, <1>11, <3>1, <3>2
  <2>. QED
    BY <1>2, <2>1, <2>2, <2>3
<1>. QED
  BY <1>10, <1>11 DEF Attempts

\* An event that answers no dial.
LEMMA EventKeeps ==
  ASSUME GoodLinks,
         NEW e \in End, NEW h, GoodHandling(h), KeepsAttempts(conn[e], h),
         NEW links \in [Link -> LinkState], Handle(e, h, links, 0),
         learns' \in [End -> 0..MaxLearns], breaks' \in 0..MaxBreaks
  PROVE  GoodLinks' /\ (Attempts => Attempts')
<1>1. dials[e] \in Nat
  BY DEF GoodLinks, TypeOK
<1>2. Attempts => /\ ReadyAttempt(h.state)
                  /\ h.state.backoff.in_flight => h.dial \/ dials[e] - 0 > 0
  BY <1>1 DEF Attempts, KeepsAttempts
<1>. QED
  BY <1>1, <1>2, HandleKeeps

\* A handler without effects.
LEMMA ChangeKeeps ==
  ASSUME GoodLinks,
         NEW e \in End, NEW s, Good(s), ReadyAttempt(conn[e]) => ReadyAttempt(s),
         s.backoff.in_flight => conn[e].backoff.in_flight,
         NEW links \in [Link -> LinkState], Handle(e, Handling(s), links, 0), Unbounded
  PROVE  GoodLinks' /\ (Attempts => Attempts')
<1> DEFINE h == Handling(s)
<1>1. GoodHandling(h) /\ h.state = s
  BY HandlingIsGood
<1>2. Handle(e, h, links, 0)
  OBVIOUS
<1> HIDE DEF h
<1>3. KeepsAttempts(conn[e], h)
  BY <1>1 DEF KeepsAttempts
<1>4. learns' \in [End -> 0..MaxLearns] /\ breaks' \in 0..MaxBreaks
  BY DEF GoodLinks, TypeOK, Unbounded
<1>. QED
  BY <1>1, <1>2, <1>3, <1>4, EventKeeps
-----------------------------------------------------------------------------
(* Every event at an end *)

LEMMA SeenLinkIsTyped ==
  ASSUME TypeOK, NEW e \in End, NEW l \in Link, NEW v \in View, NEW age \in 0..Delay
  PROVE  [link EXCEPT ![l].at[e] = v, ![l].age = age] \in [Link -> LinkState]
<1>1. link[l] \in LinkState /\ link \in [Link -> LinkState]
  BY DEF TypeOK
<1>. QED
  BY <1>1 DEF LinkState

LEMMA EstablishKeeps ==
  ASSUME GoodLinks, NEW e \in End, NEW l \in Link, Establish(e, l)
  PROVE  Keeps
<1> DEFINE h == ConnectionEstablished(conn[e], l)
           age == IF Seen(l) THEN link[l].age ELSE 0
           links == [link EXCEPT ![l].at[e] = "up", ![l].age = age]
<1>1. TypeOK /\ Good(conn[e]) /\ dials[e] \in Nat
  BY DEF GoodLinks, TypeOK
<1>2. age \in 0..Delay /\ "up" \in View
  BY <1>1, LinksAssumption DEF TypeOK, LinkState, View
<1>3. /\ GoodHandling(h) /\ KeepsAttempts(conn[e], h)
      /\ ReadyAttempt(conn[e]) /\ l \in DirectLink => ~h.state.backoff.in_flight
  BY <1>1, EstablishedIsGood
<1>4. PICK n \in {0, 1} : /\ n = 1 => l \in DirectLink /\ dials[e] > 0
                          /\ Handle(e, h, links, n)
  BY <1>1 DEF Establish, TypeOK
<1> HIDE DEF h, age
<1>5. links \in [Link -> LinkState]
  BY <1>1, <1>2, SeenLinkIsTyped
<1> HIDE DEF links
<1>6. learns' \in [End -> 0..MaxLearns] /\ breaks' \in 0..MaxBreaks
  BY <1>1 DEF TypeOK, Establish, Unbounded
<1>7. CASE n = 0
  BY <1>3, <1>4, <1>5, <1>6, <1>7, EventKeeps DEF Keeps
<1>8. CASE n = 1
  <2>1. Attempts => /\ ReadyAttempt(h.state)
                    /\ h.state.backoff.in_flight => h.dial \/ dials[e] - n > 0
    BY <1>3, <1>4, <1>8 DEF Attempts, KeepsAttempts
  <2>2. n <= dials[e]
    BY <1>1, <1>4, <1>8
  <2>. QED
    BY <1>3, <1>4, <1>5, <1>6, <2>1, <2>2, HandleKeeps DEF Keeps
<1>. QED
  BY <1>7, <1>8

LEMMA ClosedKeeps ==
  ASSUME GoodLinks, NEW e \in End, NEW l \in Link, Closed(e, l)
  PROVE  Keeps
<1> DEFINE s == ConnectionClosed(conn[e], l)
           links == [link EXCEPT ![l].at[e] = "down"]
<1>1. TypeOK /\ Good(conn[e]) /\ "down" \in View
  BY DEF GoodLinks, View
<1>2. /\ Good(s) /\ (ReadyAttempt(conn[e]) => ReadyAttempt(s))
      /\ s.backoff.in_flight => conn[e].backoff.in_flight
  BY <1>1, ClosedIsGood
<1>3. links \in [Link -> LinkState]
  BY <1>1 DEF TypeOK, LinkState
<1>4. Handle(e, Handling(s), links, 0) /\ Unbounded
  BY DEF Closed
<1> HIDE DEF s, links
<1>. QED
  BY <1>2, <1>3, <1>4, ChangeKeeps DEF Keeps

LEMMA LearnKeeps ==
  ASSUME GoodLinks, NEW e \in End, NEW a \in Address, LearnAddress(e, a)
  PROVE  Keeps
<1>1. TypeOK /\ Good(conn[e]) /\ learns[e] \in 0..MaxLearns
  BY DEF GoodLinks, TypeOK
<1>2. PICK found \in BOOLEAN :
        Handle(e, LearnDirectAddress(IF found THEN TrackGossipPeer(conn[e]) ELSE conn[e], a),
               link, 0)
  BY DEF LearnAddress
<1> DEFINE s == IF found THEN TrackGossipPeer(conn[e]) ELSE conn[e]
           h == LearnDirectAddress(s, a)
<1>3. /\ Good(s) /\ s.backoff = conn[e].backoff /\ s.subscribed = conn[e].subscribed
      /\ s.warmup_completed = conn[e].warmup_completed
  BY <1>1, TrackIsGood
<1>4. Handle(e, h, link, 0)
  BY <1>2
<1> HIDE DEF s
<1>5. GoodHandling(h) /\ KeepsAttempts(s, h)
  BY <1>3, LearnIsGood
<1> HIDE DEF h
<1>6. KeepsAttempts(conn[e], h)
  BY <1>3, <1>5 DEF KeepsAttempts, ReadyAttempt
<1>7. learns[e] + 1 \in 0..MaxLearns
  BY <1>1, LinksAssumption DEF LearnAddress
<1>8. learns' \in [End -> 0..MaxLearns] /\ breaks' \in 0..MaxBreaks
  BY <1>1, <1>7 DEF TypeOK, LearnAddress
<1>9. link \in [Link -> LinkState]
  BY <1>1 DEF TypeOK
<1>. QED
  BY <1>4, <1>5, <1>6, <1>8, <1>9, EventKeeps DEF Keeps

\* An event whose handler keeps attempts and changes no link itself.
LEMMA HandlerKeeps ==
  ASSUME GoodLinks, NEW e \in End, NEW h, GoodHandling(h), KeepsAttempts(conn[e], h),
         Handle(e, h, link, 0), Unbounded
  PROVE  Keeps
<1>1. /\ link \in [Link -> LinkState]
      /\ learns' \in [End -> 0..MaxLearns] /\ breaks' \in 0..MaxBreaks
  BY DEF GoodLinks, TypeOK, Unbounded
<1>. QED
  BY <1>1, EventKeeps DEF Keeps

LEMMA SubscribeKeeps ==
  ASSUME GoodLinks, NEW e \in End, Subscribe(e)
  PROVE  Keeps
<1>1. Good(conn[e]) /\ Connected(conn[e])
  BY DEF GoodLinks, Subscribe
<1>. QED
  BY <1>1, SubscribedIsGood, HandlerKeeps DEF Subscribe

LEMMA PromotionTickKeeps ==
  ASSUME GoodLinks, NEW e \in End, RetryDirectPromotions(e)
  PROVE  Keeps
<1>1. Good(conn[e])
  BY DEF GoodLinks
<1>. QED
  BY <1>1, PromoteFrom, HandlerKeeps DEF RetryDirectPromotions, PromotionTick

LEMMA WarmupTickKeeps ==
  ASSUME GoodLinks, NEW e \in End, RetryWarmupPromotions(e)
  PROVE  Keeps
<1>1. Good(conn[e])
  BY DEF GoodLinks
<1>. QED
  BY <1>1, WarmupTickIsGood, HandlerKeeps DEF RetryWarmupPromotions

\* An event whose handler has no effect on links and keeps attempts.
LEMMA StateKeeps ==
  ASSUME GoodLinks, NEW e \in End, NEW s, Good(s),
         ReadyAttempt(conn[e]) => ReadyAttempt(s),
         s.backoff.in_flight => conn[e].backoff.in_flight,
         Changes(e, s), Unbounded
  PROVE  Keeps
<1>1. link \in [Link -> LinkState]
  BY DEF GoodLinks, TypeOK
<1>2. Handle(e, Handling(s), link, 0)
  BY DEF Changes
<1>. QED
  BY <1>1, <1>2, ChangeKeeps DEF Keeps

LEMMA ExpireKeeps ==
  ASSUME GoodLinks, NEW e \in End, NEW a, ExpireAddress(e, a)
  PROVE  Keeps
<1> DEFINE s == ForgetDirectAddress(conn[e], a)
<1>1. /\ Good(s) /\ s.backoff = conn[e].backoff
      /\ s.subscribed = conn[e].subscribed /\ s.warmup_completed = conn[e].warmup_completed
  BY ForgetIsGood DEF GoodLinks
<1>2. Changes(e, s) /\ Unbounded
  BY DEF ExpireAddress
<1> HIDE DEF s
<1>. QED
  BY <1>1, <1>2, StateKeeps DEF ReadyAttempt

LEMMA OtherDialFailsKeeps ==
  ASSUME GoodLinks, NEW e \in End, OtherDialFails(e)
  PROVE  Keeps
<1>1. /\ Good(OutgoingConnectionError(conn[e]))
      /\ ~OutgoingConnectionError(conn[e]).backoff.in_flight
  BY DialErrorIsGood DEF GoodLinks
<1>. QED
  BY <1>1, StateKeeps DEF OtherDialFails, ReadyAttempt

LEMMA HolePunchSucceedsKeeps ==
  ASSUME GoodLinks, NEW e \in End, HolePunchSucceeds(e)
  PROVE  Keeps
<1>1. Good(ResetBackoff(conn[e])) /\ ~ResetBackoff(conn[e]).backoff.in_flight
  BY ResetIsGood DEF GoodLinks
<1>. QED
  BY <1>1, StateKeeps DEF HolePunchSucceeds, ReadyAttempt

LEMMA HolePunchFailsKeeps ==
  ASSUME GoodLinks, NEW e \in End, HolePunchFails(e)
  PROVE  Keeps
<1> DEFINE s == DcutrFailed(conn[e])
<1>1. /\ Good(s) /\ (ReadyAttempt(conn[e]) => ReadyAttempt(s))
      /\ s.backoff.in_flight => conn[e].backoff.in_flight
  BY DcutrFailedIsGood DEF GoodLinks
<1>2. Changes(e, s) /\ Unbounded
  BY DEF HolePunchFails
<1> HIDE DEF s
<1>. QED
  BY <1>1, <1>2, StateKeeps

\* A failed dial ends the attempt under way whatever dial it was.
LEMMA DialFailsKeeps ==
  ASSUME GoodLinks, NEW e \in End, DialFails(e)
  PROVE  Keeps
<1> DEFINE s == OutgoingConnectionError(conn[e])
           h == Handling(s)
<1>1. TypeOK /\ Good(conn[e]) /\ dials[e] \in Nat
  BY DEF GoodLinks, TypeOK
<1>2. Good(s) /\ ~s.backoff.in_flight
  BY <1>1, DialErrorIsGood
<1>3. Handle(e, h, link, 1)
  BY DEF DialFails
<1> HIDE DEF s
<1>4. GoodHandling(h) /\ h.state = s
  BY <1>2, HandlingIsGood
<1> HIDE DEF h
<1>5. ReadyAttempt(h.state) /\ ~h.state.backoff.in_flight
  BY <1>2, <1>4 DEF ReadyAttempt
<1>6. /\ link \in [Link -> LinkState] /\ 1 <= dials[e]
      /\ learns' \in [End -> 0..MaxLearns] /\ breaks' \in 0..MaxBreaks
  BY <1>1 DEF TypeOK, DialFails, Unbounded
<1>. QED
  BY <1>3, <1>4, <1>5, <1>6, HandleKeeps DEF Keeps

\* Only a peer that never unsubscribes keeps the attempts it was ready for.
LEMMA UnsubscribeKeeps ==
  ASSUME GoodLinks, NEW e \in End, Unsubscribe(e)
  PROVE  Keeps
<1> DEFINE s == ChatUnsubscribed(conn[e])
           h == Handling(s)
<1>1. Good(conn[e]) /\ conn[e].subscribed /\ Leavers # {} /\ dials[e] \in Nat
  BY DEF GoodLinks, Unsubscribe, TypeOK
<1>2. Connected(conn[e])
  BY <1>1 DEF Good, FitsRoutes
<1>3. Good(s)
  BY <1>1, <1>2, UnsubscribedIsGood
<1>4. Handle(e, h, link, 0)
  BY DEF Unsubscribe, Changes
<1> HIDE DEF s
<1>5. GoodHandling(h)
  BY <1>3, HandlingIsGood
<1>6. /\ link \in [Link -> LinkState] /\ 0 <= dials[e]
      /\ learns' \in [End -> 0..MaxLearns] /\ breaks' \in 0..MaxBreaks
  BY <1>1 DEF GoodLinks, TypeOK, Unsubscribe, Unbounded
<1> HIDE DEF h
<1>7. GoodLinks'
  BY <1>4, <1>5, <1>6, HandleKeeps
<1>. QED
  BY <1>1, <1>7 DEF Keeps
-----------------------------------------------------------------------------
(* Steps of the network, and time *)

\* A step that leaves what the ends keep as it is.
LEMMA LinkChangeKeeps ==
  ASSUME GoodLinks, UNCHANGED <<conn, dials>>, link' \in [Link -> LinkState],
         learns' \in [End -> 0..MaxLearns], breaks' \in 0..MaxBreaks
  PROVE  Keeps
BY DEF GoodLinks, TypeOK, Attempts, Keeps

LEMMA NeverEstablishedKeeps ==
  ASSUME GoodLinks, NEW e \in End, NEW l \in Link, NeverEstablished(e, l)
  PROVE  Keeps
<1>1. "down" \in View
  BY DEF View
<1>2. link' \in [Link -> LinkState]
  BY <1>1 DEF GoodLinks, TypeOK, LinkState, NeverEstablished
<1>. QED
  BY <1>2, LinkChangeKeeps DEF GoodLinks, TypeOK, NeverEstablished, Unbounded

LEMMA BreakKeeps ==
  ASSUME GoodLinks, NEW l \in Link, Break(l)
  PROVE  Keeps
<1>1. link' \in [Link -> LinkState]
  BY DEF GoodLinks, TypeOK, LinkState, Break
<1>2. breaks' \in 0..MaxBreaks
  BY LinksAssumption DEF GoodLinks, TypeOK, Break
<1>. QED
  BY <1>1, <1>2, LinkChangeKeeps DEF GoodLinks, TypeOK, Break

LEMMA TimeKeeps ==
  ASSUME GoodLinks, TimePasses
  PROVE  Keeps
<1>1. TypeOK /\ \A e \in End : Good(conn[e])
  BY DEF GoodLinks
<1>2. ASSUME NEW e \in End
      PROVE  /\ Good(conn'[e])
             /\ conn'[e].backoff.in_flight = conn[e].backoff.in_flight
             /\ conn'[e].subscribed = conn[e].subscribed
             /\ conn'[e].warmup_completed = conn[e].warmup_completed
  <2>1. conn'[e] = AdvanceClock(conn[e])
    BY DEF TimePasses
  <2>. QED
    BY <1>1, <2>1, ClockIsGood
<1>3. conn' \in [End -> State]
  <2>1. conn' = [e \in End |-> AdvanceClock(conn[e])]
    BY DEF TimePasses
  <2>2. \A e \in End : AdvanceClock(conn[e]) \in State
    BY <1>1, ClockIsGood DEF Good
  <2>. QED
    BY <2>1, <2>2
<1>4. ASSUME NEW l \in Link
      PROVE  [link[l] EXCEPT !.age = IF Awaited(l) THEN @ + 1 ELSE 0] \in LinkState
  <2> DEFINE age == IF Awaited(l) THEN link[l].age + 1 ELSE 0
  <2>1. link[l] \in LinkState
    BY <1>1 DEF TypeOK
  <2>2. link[l].age \in 0..Delay /\ (Awaited(l) => link[l].age < Delay)
    BY <2>1 DEF LinkState, TimePasses
  <2>3. age \in 0..Delay
    BY <2>2, LinksAssumption
  <2>4. [link[l] EXCEPT !.age = IF Awaited(l) THEN @ + 1 ELSE 0]
          = [link[l] EXCEPT !.age = age]
    BY <2>1 DEF LinkState
  <2> HIDE DEF age
  <2>. QED
    BY <2>1, <2>3, <2>4 DEF LinkState
<1>5. link' \in [Link -> LinkState]
  BY <1>4 DEF TimePasses
<1>6. GoodLinks'
  BY <1>1, <1>2, <1>3, <1>5 DEF GoodLinks, TypeOK, TimePasses, Unbounded
<1>. QED
  BY <1>2, <1>6 DEF Keeps, Attempts, ReadyAttempt, TimePasses
-----------------------------------------------------------------------------
LEMMA NextKeeps ==
  ASSUME GoodLinks, [Next]_vars
  PROVE  Keeps
<1>1. CASE UNCHANGED vars
  BY <1>1 DEF vars, Keeps, GoodLinks, TypeOK, Attempts
<1>2. ASSUME NEW e \in End, EndStep(e)
      PROVE  Keeps
  BY <1>2, EstablishKeeps, ClosedKeeps, NeverEstablishedKeeps, LearnKeeps,
     ExpireKeeps, SubscribeKeeps, UnsubscribeKeeps, DialFailsKeeps,
     OtherDialFailsKeeps, HolePunchSucceedsKeeps, HolePunchFailsKeeps,
     PromotionTickKeeps, WarmupTickKeeps
  DEF EndStep
<1>. QED
  BY <1>1, <1>2, BreakKeeps, TimeKeeps DEF Next

LEMMA LinksStayGood == Spec => []GoodLinks
<1>1. Init => GoodLinks
  BY InitIsGood
<1>2. GoodLinks /\ [Next]_vars => GoodLinks'
  BY NextKeeps DEF Keeps
<1>. QED
  BY <1>1, <1>2, PTL DEF Spec

\* Every entry that connection_state.rs keeps of a peer has its type: backoff,
\* warm-up and handoff included.
THEOREM LinksTypeCorrect == Spec => []TypeOK
<1>1. GoodLinks => TypeOK
  BY DEF GoodLinks
<1>. QED
  BY <1>1, LinksStayGood, PTL

\* A handoff deadline stands only beside both kinds of route and a subscription,
\* and the last connection takes backoff, warm-up and subscription with it.
THEOREM RoutesFit == Spec => []StateFitsRoutes
<1>1. GoodLinks => StateFitsRoutes
  BY DEF GoodLinks, Good, StateFitsRoutes
<1>. QED
  BY <1>1, LinksStayGood, PTL

\* However failures of dials and of hole punches fall into the window in which
\* mark_failure counts them once, attempts stay below twice the failures.
THEOREM AttemptsStayBounded == Spec => []AttemptsAreBounded
<1>1. GoodLinks => AttemptsAreBounded
  BY DEF GoodLinks, Good, BoundedBackoff, AttemptsAreBounded
<1>. QED
  BY <1>1, LinksStayGood, PTL

\* Among peers that stay subscribed while connected, an attempt marked as under
\* way always has a dial that libp2p still has to answer.
THEOREM AttemptsAnswered ==
  ASSUME Leavers = {}
  PROVE  Spec => []AttemptsAreDials
<1>1. Init => GoodLinks /\ Attempts
  BY InitIsGood
<1>2. GoodLinks /\ Attempts /\ [Next]_vars => (GoodLinks /\ Attempts)'
  BY NextKeeps DEF Keeps
<1>3. Attempts => AttemptsAreDials
  BY DEF Attempts, AttemptsAreDials
<1>. QED
  BY <1>1, <1>2, <1>3, PTL DEF Spec
-----------------------------------------------------------------------------
(* Handoffs and the links they leave.  A direct link that an end still     *)
(* takes for up when its handoff is over has been up at both ends since    *)
(* before: the grace is longer than the time in which the other end's      *)
(* early close becomes known here.                                         *)

\* How far the handoff of s at end e has come beside what has become of one
\* direct link, v: since a close was asked for no more than the age of that
\* and a Delay before it, since the link was not at both ends its age.
Timely(s, v, e) ==
  v.at[e] = "up" /\ s.handoff # Unset =>
    LET elapsed == HandoffGrace - s.handoff
    IN /\ e \in v.asked \/ (v.asked # {} /\ ~v.broken) => elapsed <= v.age + Delay
       /\ v.asked = {} /\ ~v.broken /\ (\E f \in End : v.at[f] = "unseen")
            => elapsed <= v.age

Routed(s, links, e) == \A l \in s.direct \cup s.relayed : links[l].at[e] = "up"

LostForAReason(v) == (\E f \in End : v.at[f] = "down") => v.asked # {} \/ v.broken

Handoffs ==
  /\ \A e \in End : Routed(conn[e], link, e)
  /\ \A l \in Link : LostForAReason(link[l])
  /\ \A e \in End : \A d \in DirectLink : Timely(conn[e], link[d], e)

\* What a handler that establishes no route may do to routes and handoff.
SameRoutes(s, c) == c.direct = s.direct /\ c.relayed = s.relayed /\ c.handoff = s.handoff

Gives(s, h) ==
  /\ h.state.direct \subseteq s.direct /\ h.state.relayed \subseteq s.relayed
  /\ h.state.handoff \in {s.handoff, Unset, HandoffGrace}
  /\ h.close \subseteq RelayedLink

LEMMA CheckKeepsRoutes ==
  ASSUME NEW s \in State
  PROVE  SameRoutes(s, AfterWarmupCheck(s))
BY DEF State, SameRoutes, AfterWarmupCheck, StartGossipWarmup

LEMMA PromotionKeepsRoutes ==
  ASSUME NEW s, Good(s)
  PROVE  LET h == MaybePromoteRelayedPeer(Handling(s)) IN
         SameRoutes(s, h.state) /\ h.close = {}
<1> DEFINE c == AfterWarmupCheck(s)
           k == Handling(s)
           h == MaybePromoteRelayedPeer(k)
<1>1. s \in State /\ SameRoutes(s, c)
  BY CheckKeepsRoutes DEF Good
<1>2. k = [state |-> s, dial |-> FALSE, close |-> {}]
  BY DEF Handling
<1>3. CASE ~IsRelayOnly(s) \/ s.addresses = {}
  BY <1>2, <1>3 DEF MaybePromoteRelayedPeer, SameRoutes
<1>4. CASE /\ IsRelayOnly(s) /\ s.addresses # {}
           /\ WarmupAllowsPromotion(s) /\ ShouldAttempt(s.backoff)
  <2>1. c \in State
    BY <1>4, CheckIsGood DEF IsRelayOnly, Connected, Good
  <2> DEFINE a == [c EXCEPT !.backoff = MarkAttempt(@)]
  <2>2. h = [k EXCEPT !.state = a, !.dial = TRUE]
    BY <1>2, <1>4 DEF MaybePromoteRelayedPeer
  <2>3. SameRoutes(c, a)
    BY <2>1 DEF State, SameRoutes
  <2> HIDE DEF a, c, h
  <2>4. h.state = a /\ h.close = {}
    BY <1>2, <2>2
  <2>. QED
    BY <1>1, <2>3, <2>4 DEF SameRoutes, h
<1>5. CASE /\ IsRelayOnly(s) /\ s.addresses # {}
           /\ ~(WarmupAllowsPromotion(s) /\ ShouldAttempt(s.backoff))
  <2>1. h = [k EXCEPT !.state = c]
    BY <1>2, <1>5 DEF MaybePromoteRelayedPeer
  <2> HIDE DEF c, h
  <2>2. h.state = c /\ h.close = {}
    BY <1>2, <2>1
  <2>. QED
    BY <1>1, <2>2 DEF h
<1>. QED
  BY <1>3, <1>4, <1>5

\* Each handler that establishes no route.
LEMMA HandlingGives ==
  ASSUME NEW s, NEW c, SameRoutes(s, c)
  PROVE  LET h == Handling(c) IN Gives(s, h) /\ h.close = {}
BY DEF SameRoutes, Gives, Handling

LEMMA PromotionGives ==
  ASSUME NEW s, NEW r, Good(r), SameRoutes(s, r)
  PROVE  LET h == MaybePromoteRelayedPeer(Handling(r)) IN Gives(s, h) /\ h.close = {}
BY PromotionKeepsRoutes DEF SameRoutes, Gives

LEMMA LearnGives ==
  ASSUME NEW s, Good(s), NEW a \in Address, NEW found \in BOOLEAN
  PROVE  LET h == LearnDirectAddress(IF found THEN TrackGossipPeer(s) ELSE s, a) IN
         Gives(s, h) /\ h.close = {}
<1> DEFINE t == IF found THEN TrackGossipPeer(s) ELSE s
           known == [t EXCEPT !.addresses = @ \cup {a}]
           r == ResetBackoff(known)
<1>1. Good(t) /\ SameRoutes(s, t)
  BY TrackIsGood DEF TrackGossipPeer, SameRoutes, Good, State
<1> HIDE DEF t
<1>2. Good(known) /\ SameRoutes(s, known)
  BY <1>1 DEF Good, State, FitsRoutes, Connected, HasBothRoutes, SameRoutes
<1> HIDE DEF known
<1>3. Good(r) /\ SameRoutes(s, r)
  BY <1>2, ResetIsGood DEF SameRoutes
<1> HIDE DEF r
<1>4. LearnDirectAddress(t, a) = Handling(t)
      \/ LearnDirectAddress(t, a) = MaybePromoteRelayedPeer(Handling(r))
  BY DEF LearnDirectAddress, r, known
<1>. QED
  BY <1>1, <1>3, <1>4, HandlingGives, PromotionGives DEF t

LEMMA SubscribedGives ==
  ASSUME NEW s, Good(s), Connected(s)
  PROVE  LET h == ChatSubscribed(s) IN Gives(s, h) /\ h.close = {}
<1> DEFINE ready == [s EXCEPT !.subscribed = TRUE, !.warmup = Unset,
                              !.warmup_completed = FALSE]
           p == MaybePromoteRelayedPeer(Handling(ready))
           h == ChatSubscribed(s)
<1>1. Good(ready) /\ SameRoutes(s, ready)
  BY Timers DEF Good, State, FitsRoutes, Connected, HasBothRoutes, SameRoutes
<1> HIDE DEF ready
<1>2. GoodHandling(p) /\ SameRoutes(s, p.state) /\ p.close = {}
  BY <1>1, PromoteFrom, PromotionKeepsRoutes DEF SameRoutes
<1>3. h = (IF s.direct # {} THEN [p EXCEPT !.state = ScheduleRelayHandoff(@)] ELSE p)
  BY DEF ChatSubscribed, ready
<1> HIDE DEF p, h
<1>4. CASE s.direct = {}
  BY <1>2, <1>3, <1>4 DEF Gives, SameRoutes, h
<1>5. CASE s.direct # {}
  <2> DEFINE c == ScheduleRelayHandoff(p.state)
  <2>1. /\ c.direct = s.direct /\ c.relayed = s.relayed
        /\ c.handoff \in {Unset, HandoffGrace}
    BY <1>2 DEF ScheduleRelayHandoff, GoodHandling, Good, State, SameRoutes
  <2> HIDE DEF c
  <2>2. h.state = c /\ h.close = {}
    BY <1>2, <1>3, <1>5 DEF GoodHandling, c
  <2>. QED
    BY <2>1, <2>2 DEF Gives, h
<1>. QED
  BY <1>4, <1>5

\* What the handoff of the warm-up tick leaves, and what it asks to close.
LEMMA WarmupTickGives ==
  ASSUME NEW s, Good(s)
  PROVE  LET h == WarmupTick(s) IN
         /\ Gives(s, h)
         /\ h.close # {} => s.handoff = 0 /\ s.direct # {}
<1> DEFINE p == IF WarmupExpired(s) THEN MaybePromoteRelayedPeer(Handling(s)) ELSE Handling(s)
           c == [p.state EXCEPT !.handoff = Unset]
           close == IF HasBothRoutes(p.state) /\ p.state.subscribed THEN p.state.relayed ELSE {}
           h == WarmupTick(s)
<1>1. GoodHandling(p) /\ SameRoutes(s, p.state) /\ p.close = {}
  BY PromoteFrom, PromotionKeepsRoutes, HandlingIsGood DEF SameRoutes
<1>2. h = IF s.handoff = 0 THEN CloseRelayAfterHandoff(p) ELSE p
  BY DEF WarmupTick
<1> HIDE DEF p, h
<1>3. CASE s.handoff # 0
  BY <1>1, <1>2, <1>3 DEF Gives, SameRoutes, h
<1>4. CASE s.handoff = 0
  <2>1. h = [p EXCEPT !.state = c, !.close = @ \cup close]
    BY <1>2, <1>4 DEF CloseRelayAfterHandoff
  <2>2. p.state \in State
    BY <1>1 DEF GoodHandling, Good
  <2>3. c.direct = s.direct /\ c.relayed = s.relayed /\ c.handoff = Unset
    BY <1>1, <2>2 DEF SameRoutes, State
  <2>4. close \subseteq RelayedLink /\ (close # {} => s.direct # {})
    BY <1>1, <2>2 DEF SameRoutes, State, HasBothRoutes
  <2> HIDE DEF c, close
  <2>5. h.state = c /\ h.close = close
    BY <1>1, <2>1 DEF GoodHandling
  <2>. QED
    BY <1>4, <2>3, <2>4, <2>5 DEF Gives, h
<1>. QED
  BY <1>3, <1>4
-----------------------------------------------------------------------------
\* A handoff that has just been scheduled, or none, is timely.
LEMMA NoTimeIsTimely ==
  ASSUME NEW s, s.handoff \in {Unset, HandoffGrace}, NEW v \in LinkState, NEW e
  PROVE  Timely(s, v, e)
<1>1. v.age \in Nat /\ Delay \in Nat /\ HandoffGrace \in Nat
  BY LinksAssumption, ConnectionAssumption DEF LinkState
<1>. QED
  BY <1>1 DEF Timely

\* Timeliness depends on the handoff only.
LEMMA TimelyAsBefore ==
  ASSUME NEW s, NEW c, NEW v \in LinkState, NEW e, Timely(s, v, e),
         c.handoff \in {s.handoff, Unset, HandoffGrace}
  PROVE  Timely(c, v, e)
<1>1. CASE c.handoff = s.handoff
  BY <1>1 DEF Timely
<1>2. CASE c.handoff \in {Unset, HandoffGrace}
  BY <1>2, NoTimeIsTimely
<1>. QED
  BY <1>1, <1>2

\* Asking leaves what the ends see, and links that are not asked, as they are.
\* v and u: a link after and before.
AfterAsking(v, u, e, asks) ==
  /\ v \in LinkState
  /\ v.at = u.at /\ v.broken = u.broken
  /\ v.asked = IF asks THEN u.asked \cup {e} ELSE u.asked
  /\ v.age = IF asks /\ u.asked = {} THEN 0 ELSE u.age
  /\ ~asks => v = u

LEMMA Asking ==
  ASSUME NEW links \in [Link -> LinkState], NEW e \in End, NEW close, NEW l \in Link
  PROVE  AfterAsking(AskToClose(links, e, close)[l], links[l], e, l \in close)
<1> DEFINE v == AskToClose(links, e, close)[l]
<1>1. v \in LinkState
  BY AskIsTyped
<1>2. CASE l \notin close
  BY <1>1, <1>2 DEF AskToClose, AfterAsking
<1>3. CASE l \in close
  <2> DEFINE age == IF links[l].asked = {} THEN 0 ELSE links[l].age
             asked == links[l].asked \cup {e}
  <2>1. v = [links[l] EXCEPT !.asked = asked, !.age = age]
    BY <1>3 DEF AskToClose
  <2> HIDE DEF v, age, asked
  <2>2. v.at = links[l].at /\ v.broken = links[l].broken /\ v.asked = asked /\ v.age = age
    BY <2>1 DEF LinkState
  <2>. QED
    BY <1>1, <1>3, <2>2 DEF v, age, asked, AfterAsking
<1>. QED
  BY <1>2, <1>3

\* What an event at e owes to Handoffs, given what its handler leaves of e's
\* state and of the links.
LEMMA EventKeepsHandoffs ==
  ASSUME GoodLinks, NEW e \in End, NEW h, GoodHandling(h), NEW links, NEW n,
         Handle(e, h, links, n),
         \A l \in Link : link'[l] \in LinkState,
         Routed(h.state, link', e),
         \A x \in End \ {e} : Routed(conn[x], link', x),
         \A l \in Link : LostForAReason(link'[l]),
         \A d \in DirectLink : Timely(h.state, link'[d], e),
         \A x \in End \ {e} : \A d \in DirectLink : Timely(conn[x], link'[d], x)
  PROVE  Handoffs'
<1>1. PICK refused \in BOOLEAN :
        conn' = [conn EXCEPT ![e] =
                   IF refused THEN RecordPromotionFailure(h.state) ELSE h.state]
  BY DEF Handle
<1> DEFINE s == IF refused THEN RecordPromotionFailure(h.state) ELSE h.state
<1>2. SameRoutes(h.state, s)
  BY DEF SameRoutes, RecordPromotionFailure, GoodHandling, Good, State
<1>3. conn' = [conn EXCEPT ![e] = s]
  BY <1>1
<1> HIDE DEF s
<1>4. conn'[e] = s /\ \A x \in End \ {e} : conn'[x] = conn[x]
  BY <1>3 DEF GoodLinks, TypeOK
<1>5. ASSUME NEW x \in End PROVE Routed(conn'[x], link', x)
  <2>1. CASE x = e
    BY <1>2, <1>4, <2>1 DEF SameRoutes, Routed
  <2>2. CASE x # e
    BY <1>4, <2>2
  <2>. QED
    BY <2>1, <2>2
<1>6. ASSUME NEW x \in End, NEW d \in DirectLink PROVE Timely(conn'[x], link'[d], x)
  <2>1. CASE x = e
    <3>1. link'[d] \in LinkState /\ Timely(h.state, link'[d], e)
      BY DEF DirectLink
    <3>2. Timely(s, link'[d], e)
      BY <1>2, <3>1, TimelyAsBefore DEF SameRoutes
    <3>. QED
      BY <1>4, <2>1, <3>2
  <2>2. CASE x # e
    BY <1>4, <2>2
  <2>. QED
    BY <2>1, <2>2
<1>. QED
  BY <1>5, <1>6 DEF Handoffs

\* An event whose handler establishes no route and asks for relays at most.
LEMMA HandlerKeepsHandoffs ==
  ASSUME GoodLinks, Handoffs, NEW e \in End, NEW h, GoodHandling(h), Gives(conn[e], h),
         NEW n, Handle(e, h, link, n)
  PROVE  Handoffs'
<1>1. link' = AskToClose(link, e, h.close) /\ link \in [Link -> LinkState]
  BY DEF Handle, GoodLinks, TypeOK
<1>2. ASSUME NEW l \in Link
      PROVE  /\ link'[l] \in LinkState /\ link'[l].at = link[l].at
             /\ link'[l].broken = link[l].broken /\ link[l].asked \subseteq link'[l].asked
             /\ l \in DirectLink => link'[l] = link[l]
  <2>1. l \in DirectLink => l \notin h.close
    BY DEF Gives, DirectLink
  <2>2. AfterAsking(AskToClose(link, e, h.close)[l], link[l], e, l \in h.close)
    <3>1. link \in [Link -> LinkState]
      BY <1>1
    <3>. QED
      BY <3>1, Asking
  <2>3. AfterAsking(link'[l], link[l], e, l \in h.close)
    BY <1>1, <2>2
  <2>. QED
    BY <2>1, <2>3 DEF AfterAsking
<1>3. \A l \in Link : LostForAReason(link'[l])
  BY <1>2 DEF Handoffs, LostForAReason
<1>4. \A x \in End : conn[x].direct \cup conn[x].relayed \subseteq Link
  BY ConnectionAssumption DEF GoodLinks, TypeOK, State, DirectLink
<1>5. \A x \in End : Routed(conn[x], link', x)
  BY <1>2, <1>4 DEF Handoffs, Routed
<1>6. Routed(h.state, link', e)
  BY <1>5 DEF Gives, Routed
<1>7. \A x \in End : \A d \in DirectLink : Timely(conn[x], link'[d], x)
  BY <1>2 DEF Handoffs, DirectLink
<1>8. \A d \in DirectLink : Timely(h.state, link'[d], e)
  <2> TAKE d \in DirectLink
  <2>1. link'[d] \in LinkState /\ Timely(conn[e], link'[d], e)
    BY <1>2, <1>7 DEF DirectLink
  <2>. QED
    BY <2>1, TimelyAsBefore DEF Gives
<1>. QED
  BY <1>2, <1>3, <1>5, <1>6, <1>7, <1>8, EventKeepsHandoffs

\* The same for a handler without effects.
LEMMA ChangeKeepsHandoffs ==
  ASSUME GoodLinks, Handoffs, NEW e \in End, NEW s, Good(s), SameRoutes(conn[e], s),
         NEW n, Handle(e, Handling(s), link, n)
  PROVE  Handoffs'
<1> DEFINE h == Handling(s)
<1>1. GoodHandling(h) /\ Gives(conn[e], h) /\ Handle(e, h, link, n)
  BY HandlingIsGood, HandlingGives
<1> HIDE DEF h
<1>. QED
  BY <1>1, HandlerKeepsHandoffs
-----------------------------------------------------------------------------
(* The events at an end *)

\* With a handoff under way both routes are there, so that a direct
\* connection beside them is kept and starts the handoff anew.
LEMMA DirectRestartsHandoff ==
  ASSUME NEW s, Good(s), NEW l \in DirectLink
  PROVE  LET h == DirectEstablished(s, l) IN
         /\ h.state.direct = s.direct \cup {l} /\ h.state.relayed = s.relayed
         /\ h.state.handoff \in {Unset, HandoffGrace}
         /\ h.close \subseteq {l}
<1> DEFINE routed == [s EXCEPT !.direct = @ \cup {l}, !.tracked = TRUE]
           alone == s.relayed = {} \/ s.subscribed
           checked == IF alone THEN routed ELSE AfterWarmupCheck(routed)
           promoted == ResetBackoff(checked)
           h == DirectEstablished(s, l)
<1>1. /\ routed \in State /\ routed.direct = s.direct \cup {l}
      /\ routed.relayed = s.relayed /\ routed.handoff = s.handoff
  BY DEF Good, State
<1> HIDE DEF routed
<1>2. checked \in State /\ SameRoutes(routed, checked)
  <2>1. Good(routed) /\ Connected(routed)
    <3>1. Good([s EXCEPT !.direct = @ \cup {l}, !.tracked = TRUE])
      BY DEF Good, State, FitsRoutes, Connected, HasBothRoutes
    <3>. QED
      BY <1>1, <3>1 DEF routed, Connected
  <2>2. AfterWarmupCheck(routed) \in State /\ SameRoutes(routed, AfterWarmupCheck(routed))
    BY <1>1, <2>1, CheckIsGood, CheckKeepsRoutes DEF Good
  <2>. QED
    BY <1>1, <2>2 DEF SameRoutes
<1> HIDE DEF checked
<1>3. promoted \in State /\ SameRoutes(routed, promoted)
  BY <1>2, NoBackoffIsGood DEF ResetBackoff, State, SameRoutes
<1> HIDE DEF promoted
<1>4. s.handoff # Unset => s.relayed # {} /\ s.subscribed
  BY DEF Good, FitsRoutes, HasBothRoutes
<1>5. CASE alone \/ WarmupAllowsPromotion(s)
  <2> DEFINE p == IF s.subscribed /\ s.relayed # {}
                  THEN ScheduleRelayHandoff(promoted) ELSE promoted
  <2>1. h = Handling(p)
    BY <1>5 DEF DirectEstablished, promoted, checked, routed
  <2>2. /\ p.direct = routed.direct /\ p.relayed = routed.relayed
        /\ p.handoff \in {Unset, HandoffGrace}
    BY <1>1, <1>3, <1>4 DEF SameRoutes, ScheduleRelayHandoff, State
  <2> HIDE DEF p
  <2>. QED
    BY <1>1, <2>1, <2>2 DEF Handling
<1>6. CASE ~(alone \/ WarmupAllowsPromotion(s))
  <2>1. h = [Handling(checked) EXCEPT !.close = {l}]
    BY <1>6 DEF DirectEstablished, checked, routed
  <2>2. h.state = checked /\ h.close = {l}
    BY <2>1 DEF Handling
  <2>3. s.handoff = Unset
    BY <1>4, <1>6
  <2> HIDE DEF h
  <2>4. h.state.handoff = Unset
    BY <1>1, <1>2, <2>2, <2>3 DEF SameRoutes
  <2>. QED
    BY <1>1, <1>2, <2>2, <2>4 DEF SameRoutes, h
<1>. QED
  BY <1>5, <1>6

LEMMA RelayKeepsHandoff ==
  ASSUME NEW s, Good(s), NEW l \in RelayedLink
  PROVE  LET h == RelayEstablished(s, l) IN
         /\ h.state.direct = s.direct /\ h.state.relayed = s.relayed \cup {l}
         /\ h.state.handoff = s.handoff /\ h.close = {}
<1> DEFINE routed == [s EXCEPT !.relayed = @ \cup {l}, !.tracked = TRUE]
           r == IF s.subscribed THEN routed ELSE StartGossipWarmup(routed)
<1>1. /\ Good(routed) /\ Connected(routed)
      /\ routed.direct = s.direct /\ routed.relayed = s.relayed \cup {l}
      /\ routed.handoff = s.handoff
  BY DEF Good, State, FitsRoutes, Connected, HasBothRoutes
<1> HIDE DEF routed
<1>2. Good(r) /\ SameRoutes(routed, r)
  BY <1>1, StartIsGood DEF SameRoutes, StartGossipWarmup, Good, State
<1> HIDE DEF r
<1>3. RelayEstablished(s, l) = MaybePromoteRelayedPeer(Handling(r))
  BY DEF RelayEstablished, r, routed
<1>4. LET h == MaybePromoteRelayedPeer(Handling(r)) IN
      SameRoutes(r, h.state) /\ h.close = {}
  BY <1>2, PromotionKeepsRoutes
<1>. QED
  BY <1>1, <1>2, <1>3, <1>4 DEF SameRoutes

\* What one end's connection, kept or closed early, is to the other's handoff:
\* the link is no longer unseen, and if it is now on its way out, then it was
\* not at both ends for as long as the handoff has lasted, at most a Delay.
LEMMA TimelyAtTheOther ==
  ASSUME NEW u \in LinkState, NEW v \in LinkState, NEW x \in End, NEW e \in End, x # e,
         NEW s \in State, NEW asks \in BOOLEAN,
         u.at[e] = "unseen", v.at = [u.at EXCEPT ![e] = "up"], v.broken = u.broken,
         v.asked = IF asks THEN u.asked \cup {e} ELSE u.asked,
         u.at[x] = "up" => v.age = IF asks /\ u.asked = {} THEN 0 ELSE u.age,
         Timely(s, u, x)
  PROVE  Timely(s, v, x)
<1> DEFINE elapsed == HandoffGrace - s.handoff
<1> SUFFICES ASSUME v.at[x] = "up", s.handoff # Unset
             PROVE  /\ x \in v.asked \/ (v.asked # {} /\ ~v.broken)
                         => elapsed <= v.age + Delay
                    /\ v.asked = {} /\ ~v.broken /\ (\E f \in End : v.at[f] = "unseen")
                         => elapsed <= v.age
  BY DEF Timely
<1>1. /\ u.at \in [End -> View] /\ u.asked \subseteq End
      /\ u.age \in 0..Delay /\ Delay \in Nat /\ elapsed \in Int
  <2>1. s.handoff \in Int /\ HandoffGrace \in Nat /\ Delay \in Nat
    BY ConnectionAssumption, LinksAssumption DEF State, Unset
  <2>. QED
    BY <2>1 DEF LinkState
<1>2. u.at[x] = "up" /\ v.age = (IF asks /\ u.asked = {} THEN 0 ELSE u.age)
  BY <1>1
<1>3. /\ x \in u.asked \/ (u.asked # {} /\ ~u.broken) => elapsed <= u.age + Delay
      /\ u.asked = {} /\ ~u.broken => elapsed <= u.age
  BY <1>2 DEF Timely
<1> HIDE DEF elapsed
<1>4. x \in v.asked \/ (v.asked # {} /\ ~v.broken) => elapsed <= v.age + Delay
  <2>1. CASE asks /\ u.asked = {}
    <3>1. v.asked = {e} /\ v.age = 0
      BY <1>2, <2>1
    <3>. QED
      BY <1>1, <1>3, <2>1, <3>1
  <2>2. CASE asks /\ u.asked # {}
    BY <1>2, <1>3, <2>2
  <2>3. CASE ~asks
    BY <1>2, <1>3, <2>3
  <2>. QED
    BY <2>1, <2>2, <2>3
<1>5. v.asked = {} /\ ~v.broken /\ (\E f \in End : v.at[f] = "unseen") => elapsed <= v.age
  BY <1>2, <1>3
<1>. QED
  BY <1>4, <1>5

LEMMA EstablishKeepsHandoffs ==
  ASSUME GoodLinks, Handoffs, NEW e \in End, NEW l \in Link, Establish(e, l)
  PROVE  Handoffs'
<1> DEFINE h == ConnectionEstablished(conn[e], l)
           age == IF Seen(l) THEN link[l].age ELSE 0
           links == [link EXCEPT ![l].at[e] = "up", ![l].age = age]
<1>1. TypeOK /\ Good(conn[e]) /\ link[l].at[e] = "unseen"
  BY DEF GoodLinks, Establish
<1>2. age \in 0..Delay /\ "up" \in View
  BY <1>1, LinksAssumption DEF TypeOK, LinkState, View
<1>3. PICK n \in {0, 1} : Handle(e, h, links, n)
  BY <1>1 DEF Establish, TypeOK
<1>4. GoodHandling(h)
  BY <1>1, EstablishedIsGood
<1>5. /\ h.close \subseteq {l} \ RelayedLink
      /\ h.state.direct \cup h.state.relayed = conn[e].direct \cup conn[e].relayed \cup {l}
      /\ l \in DirectLink => h.state.handoff \in {Unset, HandoffGrace}
      /\ l \notin DirectLink => h.state.handoff = conn[e].handoff
  <2>1. CASE l \in RelayedLink
    <3>1. h = RelayEstablished(conn[e], l)
      BY <2>1 DEF ConnectionEstablished
    <3>. QED
      BY <1>1, <2>1, <3>1, RelayKeepsHandoff DEF DirectLink
  <2>2. CASE l \notin RelayedLink
    <3>1. h = DirectEstablished(conn[e], l) /\ l \in DirectLink
      BY <2>2 DEF ConnectionEstablished, DirectLink
    <3> HIDE DEF h
    <3>2. /\ h.state.direct = conn[e].direct \cup {l}
          /\ h.state.relayed = conn[e].relayed
          /\ h.state.handoff \in {Unset, HandoffGrace} /\ h.close \subseteq {l}
      BY <1>1, <3>1, DirectRestartsHandoff
    <3>. QED
      BY <2>2, <3>1, <3>2
  <2>. QED
    BY <2>1, <2>2
<1> HIDE DEF h
<1>6. /\ links[l].at = [link[l].at EXCEPT ![e] = "up"] /\ links[l].age = age
      /\ links[l].asked = link[l].asked /\ links[l].broken = link[l].broken
      /\ \A m \in Link : m # l => links[m] = link[m]
  <2> HIDE DEF age
  <2>. QED
    BY <1>1 DEF TypeOK, LinkState
<1>7. links \in [Link -> LinkState]
  <2> HIDE DEF age
  <2>. QED
    BY <1>1, <1>2, SeenLinkIsTyped
<1> HIDE DEF links, age
<1>8. ASSUME NEW m \in Link
      PROVE  AfterAsking(link'[m], links[m], e, m \in h.close)
  BY <1>3, <1>7, Asking DEF Handle
<1>9. \A m \in Link : link'[m] \in LinkState
  BY <1>8 DEF AfterAsking
<1>10. ASSUME NEW m \in Link, m # l
       PROVE  link'[m] = link[m]
  BY <1>5, <1>6, <1>8, <1>10 DEF AfterAsking
<1>11. /\ link'[l].at = [link[l].at EXCEPT ![e] = "up"]
       /\ link'[l].broken = link[l].broken
       /\ link'[l].asked = IF l \in h.close THEN link[l].asked \cup {e} ELSE link[l].asked
       /\ link'[l].age = IF l \in h.close /\ link[l].asked = {} THEN 0 ELSE age
  BY <1>6, <1>8 DEF AfterAsking
<1>12. link[l].at \in [End -> View]
  BY <1>1 DEF TypeOK, LinkState
<1>13. \A m \in Link : LostForAReason(link'[m])
  <2> TAKE m \in Link
  <2>1. CASE m # l
    BY <1>10, <2>1 DEF Handoffs
  <2>2. CASE m = l
    <3>1. ASSUME NEW f \in End, link'[l].at[f] = "down"
          PROVE  link[l].at[f] = "down"
      BY <1>11, <1>12, <3>1
    <3>. QED
      BY <1>11, <2>2, <3>1 DEF Handoffs, LostForAReason
  <2>. QED
    BY <2>1, <2>2
<1>14. \A x \in End : conn[x].direct \cup conn[x].relayed \subseteq Link
  BY <1>1, ConnectionAssumption DEF TypeOK, State, DirectLink
<1>15. ASSUME NEW x \in End, NEW m \in Link, link[m].at[x] = "up"
       PROVE  link'[m].at[x] = "up"
  BY <1>10, <1>11, <1>12, <1>15
<1>16. \A x \in End : Routed(conn[x], link', x)
  BY <1>14, <1>15 DEF Handoffs, Routed
<1>17. Routed(h.state, link', e)
  <2>1. link'[l].at[e] = "up"
    BY <1>11, <1>12
  <2>. QED
    BY <1>5, <1>16, <2>1 DEF Routed
<1>18. \A d \in DirectLink : Timely(h.state, link'[d], e)
  <2> TAKE d \in DirectLink
  <2>1. CASE l \in DirectLink
    BY <1>5, <1>9, <2>1, NoTimeIsTimely DEF DirectLink
  <2>2. CASE l \notin DirectLink
    <3>1. d \in Link /\ d # l /\ link'[d] = link[d] /\ link'[d] \in LinkState
      BY <1>9, <1>10, <2>2 DEF DirectLink
    <3>2. Timely(conn[e], link'[d], e)
      BY <3>1 DEF Handoffs
    <3>. QED
      BY <1>5, <2>2, <3>1, <3>2, TimelyAsBefore
  <2>. QED
    BY <2>1, <2>2
<1>19. \A x \in End \ {e} : \A d \in DirectLink : Timely(conn[x], link'[d], x)
  <2> TAKE x \in End \ {e}
  <2> TAKE d \in DirectLink
  <2>1. d \in Link /\ Timely(conn[x], link[d], x) /\ x \in End /\ x # e
    BY DEF Handoffs, DirectLink
  <2>2. CASE d # l
    BY <1>10, <2>1, <2>2
  <2>3. CASE d = l
    <3> DEFINE u == link[l]
               v == link'[l]
               asks == l \in h.close
    <3>1. u \in LinkState /\ v \in LinkState /\ conn[x] \in State /\ asks \in BOOLEAN
      BY <1>1, <1>9, <2>1 DEF TypeOK
    <3>2. u.at[e] = "unseen" /\ v.at = [u.at EXCEPT ![e] = "up"] /\ v.broken = u.broken
      BY <1>1, <1>11
    <3>3. v.asked = IF asks THEN u.asked \cup {e} ELSE u.asked
      BY <1>11
    <3>4. u.at[x] = "up" => v.age = IF asks /\ u.asked = {} THEN 0 ELSE u.age
      <4>1. u.at[x] = "up" => Seen(l)
        BY <2>1 DEF Seen
      <4>. QED
        BY <1>11, <4>1 DEF age
    <3>5. Timely(conn[x], u, x)
      BY <2>1, <2>3
    <3> HIDE DEF u, v, asks
    <3>6. Timely(conn[x], v, x)
      BY <2>1, <3>1, <3>2, <3>3, <3>4, <3>5, TimelyAtTheOther
    <3>. QED
      BY <2>3, <3>6 DEF v
  <2>. QED
    BY <2>2, <2>3
<1>. QED
  BY <1>3, <1>4, <1>9, <1>13, <1>16, <1>17, <1>18, <1>19, EventKeepsHandoffs

\* A link that is on its way out is no longer awaited at either end.
LEMMA TimelyOfTheLost ==
  ASSUME NEW u \in LinkState, NEW v \in LinkState, NEW x \in End, NEW e \in End, NEW s,
         v.at = [u.at EXCEPT ![e] = "down"], v.asked = u.asked, v.broken = u.broken,
         v.age = u.age, u.asked # {} \/ u.broken, Timely(s, u, x)
  PROVE  Timely(s, v, x)
<1>1. u.at \in [End -> View]
  BY DEF LinkState
<1>. QED
  BY <1>1 DEF Timely

\* A link whose end e has lost it, and only that.
LostAt(e, l, links) ==
  /\ \A m \in Link : links[m] \in LinkState /\ (m # l => links[m] = link[m])
  /\ links[l].at = [link[l].at EXCEPT ![e] = "down"]
  /\ links[l].asked = link[l].asked /\ links[l].broken = link[l].broken
  /\ links[l].age = link[l].age

LEMMA LosingKeepsHandoffs ==
  ASSUME GoodLinks, Handoffs, NEW e \in End, NEW l \in Link, Doomed(l),
         NEW links, LostAt(e, l, links)
  PROVE  /\ \A m \in Link : LostForAReason(links[m])
         /\ \A x \in End : \A d \in DirectLink : Timely(conn[x], links[d], x)
         /\ \A x \in End : \A m \in Link :
              (x # e \/ m # l) /\ link[m].at[x] = "up" => links[m].at[x] = "up"
<1>1. \A m \in Link : link[m] \in LinkState /\ link[m].at \in [End -> View]
  BY DEF GoodLinks, TypeOK, LinkState
<1>2. \A m \in Link : LostForAReason(links[m])
  BY DEF LostAt, Doomed, Handoffs, LostForAReason
<1>3. ASSUME NEW x \in End, NEW d \in DirectLink PROVE Timely(conn[x], links[d], x)
  <2>1. d \in Link /\ Timely(conn[x], link[d], x)
    BY DEF Handoffs, DirectLink
  <2>2. CASE d # l
    BY <2>1, <2>2 DEF LostAt
  <2>3. CASE d = l
    <3> DEFINE u == link[l]
               v == links[l]
    <3>1. /\ u \in LinkState /\ v \in LinkState
          /\ v.at = [u.at EXCEPT ![e] = "down"] /\ v.asked = u.asked
          /\ v.broken = u.broken /\ v.age = u.age
          /\ u.asked # {} \/ u.broken
      BY <1>1 DEF LostAt, Doomed
    <3>2. Timely(conn[x], u, x)
      BY <2>1, <2>3
    <3> HIDE DEF u, v
    <3>3. Timely(conn[x], v, x)
      BY <3>1, <3>2, TimelyOfTheLost
    <3>. QED
      BY <2>3, <3>3 DEF v
  <2>. QED
    BY <2>2, <2>3
<1>4. ASSUME NEW x \in End, NEW m \in Link, x # e \/ m # l, link[m].at[x] = "up"
      PROVE  links[m].at[x] = "up"
  BY <1>1, <1>4 DEF LostAt
<1>. QED
  BY <1>2, <1>3, <1>4

LEMMA ClosedLeaves ==
  ASSUME NEW s, Good(s), NEW l
  PROVE  LET c == ConnectionClosed(s, l) IN
         /\ c.direct \subseteq s.direct \ {l} /\ c.relayed \subseteq s.relayed \ {l}
         /\ c.handoff \in {s.handoff, Unset, HandoffGrace}
BY DEF ConnectionClosed, NewState, Good, State

LEMMA ClosedKeepsHandoffs ==
  ASSUME GoodLinks, Handoffs, NEW e \in End, NEW l \in Link, Closed(e, l)
  PROVE  Handoffs'
<1> DEFINE s == ConnectionClosed(conn[e], l)
           h == Handling(s)
           links == [link EXCEPT ![l].at[e] = "down"]
<1>1. TypeOK /\ Good(conn[e]) /\ Doomed(l) /\ "down" \in View
  BY DEF GoodLinks, Closed, View
<1>2. Handle(e, h, links, 0)
  BY DEF Closed
<1>3. links \in [Link -> LinkState] /\ LostAt(e, l, links)
  BY <1>1 DEF TypeOK, LinkState, LostAt
<1>4. /\ s.direct \subseteq conn[e].direct \ {l} /\ s.relayed \subseteq conn[e].relayed \ {l}
      /\ s.handoff \in {conn[e].handoff, Unset, HandoffGrace}
  BY <1>1, ClosedLeaves
<1>5. Good(s)
  BY <1>1, ClosedIsGood
<1> HIDE DEF s
<1>6. GoodHandling(h) /\ h.state = s /\ h.close = {}
  BY <1>5, HandlingIsGood
<1> HIDE DEF h, links
<1>7. ASSUME NEW m \in Link
      PROVE  link'[m] = links[m]
  <2>1. AfterAsking(AskToClose(links, e, {})[m], links[m], e, m \in {})
    BY <1>3, Asking
  <2>. QED
    BY <1>2, <1>6, <2>1 DEF Handle, AfterAsking
<1>8. LostAt(e, l, link')
  BY <1>3, <1>7 DEF LostAt
<1>9. /\ \A m \in Link : LostForAReason(link'[m])
      /\ \A x \in End : \A d \in DirectLink : Timely(conn[x], link'[d], x)
      /\ \A x \in End : \A m \in Link :
           (x # e \/ m # l) /\ link[m].at[x] = "up" => link'[m].at[x] = "up"
  BY <1>1, <1>8, LosingKeepsHandoffs
<1>10. \A x \in End : conn[x].direct \cup conn[x].relayed \subseteq Link
  BY <1>1, ConnectionAssumption DEF TypeOK, State, DirectLink
<1>11. \A x \in End \ {e} : Routed(conn[x], link', x)
  BY <1>9, <1>10 DEF Handoffs, Routed
<1>12. Routed(h.state, link', e)
  BY <1>4, <1>6, <1>9, <1>10 DEF Handoffs, Routed
<1>13. \A m \in Link : link'[m] \in LinkState
  BY <1>8 DEF LostAt
<1>14. \A d \in DirectLink : Timely(h.state, link'[d], e)
  <2> TAKE d \in DirectLink
  <2>1. link'[d] \in LinkState /\ Timely(conn[e], link'[d], e)
    BY <1>9, <1>13 DEF DirectLink
  <2>. QED
    BY <1>4, <1>6, <2>1, TimelyAsBefore
<1>. QED
  BY <1>2, <1>6, <1>9, <1>11, <1>12, <1>13, <1>14, EventKeepsHandoffs

LEMMA NeverEstablishedKeepsHandoffs ==
  ASSUME GoodLinks, Handoffs, NEW e \in End, NEW l \in Link, NeverEstablished(e, l)
  PROVE  Handoffs'
<1>1. /\ TypeOK /\ Doomed(l) /\ conn' = conn /\ link[l].at[e] = "unseen"
      /\ link' = [link EXCEPT ![l].at[e] = "down"]
  BY DEF GoodLinks, NeverEstablished
<1>2. LostAt(e, l, link')
  <2>1. "down" \in View
    BY DEF View
  <2>. QED
    BY <1>1, <2>1 DEF TypeOK, LinkState, LostAt
<1>3. /\ \A m \in Link : LostForAReason(link'[m])
      /\ \A x \in End : \A d \in DirectLink : Timely(conn[x], link'[d], x)
      /\ \A x \in End : \A m \in Link :
           (x # e \/ m # l) /\ link[m].at[x] = "up" => link'[m].at[x] = "up"
  <2>1. Doomed(l)
    BY <1>1
  <2>. QED
    BY <1>2, <2>1, LosingKeepsHandoffs
<1>4. \A x \in End : conn[x].direct \cup conn[x].relayed \subseteq Link
  BY <1>1, ConnectionAssumption DEF TypeOK, State, DirectLink
<1>5. \A x \in End : Routed(conn[x], link', x)
  BY <1>1, <1>3, <1>4 DEF Handoffs, Routed
<1>. QED
  BY <1>1, <1>3, <1>5 DEF Handoffs

LEMMA BreakKeepsHandoffs ==
  ASSUME GoodLinks, Handoffs, NEW l \in Link, Break(l)
  PROVE  Handoffs'
<1>1. /\ conn' = conn
      /\ \A m \in Link : /\ link'[m].at = link[m].at /\ link'[m].asked = link[m].asked
                         /\ link'[m].age = link[m].age
                         /\ link[m].broken => link'[m].broken
  BY DEF Break, GoodLinks, TypeOK, LinkState
<1>2. \A x \in End : conn[x].direct \cup conn[x].relayed \subseteq Link
  BY ConnectionAssumption DEF GoodLinks, TypeOK, State, DirectLink
<1>3. \A x \in End : Routed(conn[x], link', x)
  BY <1>1, <1>2 DEF Handoffs, Routed
<1>4. \A m \in Link : LostForAReason(link'[m])
  BY <1>1 DEF Handoffs, LostForAReason
<1>5. ASSUME NEW x \in End, NEW d \in DirectLink PROVE Timely(conn[x], link'[d], x)
  <2>1. d \in Link /\ Timely(conn[x], link[d], x)
    BY DEF Handoffs, DirectLink
  <2>. QED
    BY <1>1, <2>1 DEF Timely
<1>. QED
  BY <1>1, <1>3, <1>4, <1>5 DEF Handoffs

\* A unit of time is one for the handoff and one for what is awaited.
LEMMA TimelyLater ==
  ASSUME NEW u \in LinkState, NEW x \in End, NEW s \in State, NEW c,
         c.handoff = IF s.handoff > 0 THEN s.handoff - 1 ELSE s.handoff,
         NEW v, v.at = u.at, v.asked = u.asked, v.broken = u.broken,
         NEW awaited \in BOOLEAN, v.age = IF awaited THEN u.age + 1 ELSE 0,
         /\ u.at[x] = "up"
         /\ \/ x \in u.asked
            \/ u.asked # {} /\ ~u.broken
            \/ ~u.broken /\ \E f \in End : u.at[f] = "unseen"
         => awaited,
         Timely(s, u, x)
  PROVE  Timely(c, v, x)
<1> DEFINE before == HandoffGrace - s.handoff
           elapsed == HandoffGrace - c.handoff
<1> SUFFICES ASSUME v.at[x] = "up", c.handoff # Unset
             PROVE  /\ x \in v.asked \/ (v.asked # {} /\ ~v.broken)
                         => elapsed <= v.age + Delay
                    /\ v.asked = {} /\ ~v.broken /\ (\E f \in End : v.at[f] = "unseen")
                         => elapsed <= v.age
  BY DEF Timely
<1>1. /\ s.handoff \in Int /\ HandoffGrace \in Nat /\ Delay \in Nat /\ u.age \in Nat
      /\ s.handoff # Unset => s.handoff \in Nat
  BY ConnectionAssumption, LinksAssumption DEF State, LinkState, Unset
<1>2. s.handoff # Unset
  BY <1>1 DEF Unset
<1>3. elapsed \in Int /\ before \in Int /\ elapsed <= before + 1
  BY <1>1
<1>4. /\ x \in u.asked \/ (u.asked # {} /\ ~u.broken) => before <= u.age + Delay
      /\ u.asked = {} /\ ~u.broken /\ (\E f \in End : u.at[f] = "unseen") => before <= u.age
  BY <1>2 DEF Timely
<1> HIDE DEF before, elapsed
<1>5. CASE awaited
  BY <1>1, <1>3, <1>4, <1>5
<1>6. CASE ~awaited
  BY <1>6
<1>. QED
  BY <1>5, <1>6

LEMMA TimeKeepsHandoffs ==
  ASSUME GoodLinks, Handoffs, TimePasses
  PROVE  Handoffs'
<1>1. ASSUME NEW m \in Link
      PROVE  /\ link[m] \in LinkState
             /\ link'[m].at = link[m].at /\ link'[m].asked = link[m].asked
             /\ link'[m].broken = link[m].broken
             /\ link'[m].age = IF Awaited(m) THEN link[m].age + 1 ELSE 0
  <2>1. link[m] \in LinkState
    BY DEF GoodLinks, TypeOK
  <2> DEFINE age == IF Awaited(m) THEN link[m].age + 1 ELSE 0
  <2>2. link'[m] = [link[m] EXCEPT !.age = age]
    BY DEF TimePasses
  <2> HIDE DEF age
  <2>3. /\ link'[m].at = link[m].at /\ link'[m].asked = link[m].asked
        /\ link'[m].broken = link[m].broken /\ link'[m].age = age
    BY <2>1, <2>2 DEF LinkState
  <2>. QED
    BY <2>1, <2>3 DEF age
<1>2. ASSUME NEW x \in End
      PROVE  /\ conn[x] \in State
             /\ conn'[x].direct = conn[x].direct /\ conn'[x].relayed = conn[x].relayed
             /\ conn'[x].handoff
                  = IF conn[x].handoff > 0 THEN conn[x].handoff - 1 ELSE conn[x].handoff
  <2>1. conn[x] \in State
    BY DEF GoodLinks, TypeOK
  <2>2. conn'[x] = AdvanceClock(conn[x])
    BY DEF TimePasses
  <2> DEFINE s == conn[x]
             b == AgedBackoff(s.backoff)
             w == IF s.warmup = Unset THEN s.warmup ELSE Older(s.warmup, WarmupTimeout)
             d == IF s.handoff > 0 THEN s.handoff - 1 ELSE s.handoff
  <2>3. conn'[x] = [s EXCEPT !.backoff = b, !.warmup = w, !.handoff = d]
    BY <2>2 DEF AdvanceClock
  <2> HIDE DEF b, w, d
  <2>4. conn'[x].direct = s.direct /\ conn'[x].relayed = s.relayed /\ conn'[x].handoff = d
    BY <2>1, <2>3 DEF State
  <2>. QED
    BY <2>1, <2>4 DEF d
<1>3. \A x \in End : conn[x].direct \cup conn[x].relayed \subseteq Link
  BY <1>2, ConnectionAssumption DEF State, DirectLink
<1>4. \A x \in End : Routed(conn'[x], link', x)
  BY <1>1, <1>2, <1>3 DEF Handoffs, Routed
<1>5. \A m \in Link : LostForAReason(link'[m])
  BY <1>1 DEF Handoffs, LostForAReason
<1>6. ASSUME NEW x \in End, NEW d \in DirectLink PROVE Timely(conn'[x], link'[d], x)
  <2>1. d \in Link /\ Timely(conn[x], link[d], x)
    BY DEF Handoffs, DirectLink
  <2>2. /\ link[d].at[x] = "up"
        /\ \/ x \in link[d].asked
           \/ link[d].asked # {} /\ ~link[d].broken
           \/ ~link[d].broken /\ \E f \in End : link[d].at[f] = "unseen"
        => Awaited(d)
    BY DEF Awaited, Seen
  <2> DEFINE awaited == Awaited(d)
  <2>3. awaited \in BOOLEAN
    BY DEF Awaited
  <2>4. link'[d].age = IF awaited THEN link[d].age + 1 ELSE 0
    BY <1>1, <2>1
  <2> HIDE DEF awaited
  <2>. QED
    BY <1>1, <1>2, <2>1, <2>2, <2>3, <2>4, TimelyLater DEF awaited
<1>. QED
  BY <1>4, <1>5, <1>6 DEF Handoffs
-----------------------------------------------------------------------------
LEMMA EndKeepsHandoffs ==
  ASSUME GoodLinks, Handoffs, NEW e \in End, EndStep(e)
  PROVE  Handoffs'
<1>1. Good(conn[e]) /\ conn[e] \in State
  BY DEF GoodLinks, Good
<1>2. ASSUME NEW l \in Link, Establish(e, l) \/ Closed(e, l) \/ NeverEstablished(e, l)
      PROVE  Handoffs'
  BY <1>2, EstablishKeepsHandoffs, ClosedKeepsHandoffs, NeverEstablishedKeepsHandoffs
<1>3. ASSUME NEW a \in Address, LearnAddress(e, a)
      PROVE  Handoffs'
  <2>1. PICK found \in BOOLEAN :
          Handle(e, LearnDirectAddress(IF found THEN TrackGossipPeer(conn[e]) ELSE conn[e], a),
                 link, 0)
    BY <1>3 DEF LearnAddress
  <2> DEFINE s == IF found THEN TrackGossipPeer(conn[e]) ELSE conn[e]
             h == LearnDirectAddress(s, a)
  <2>2. Gives(conn[e], h)
    BY <1>1, LearnGives
  <2>3. Good(s)
    BY <1>1, TrackIsGood
  <2>4. Handle(e, h, link, 0)
    BY <2>1
  <2> HIDE DEF s
  <2>5. GoodHandling(h)
    BY <2>3, LearnIsGood
  <2> HIDE DEF h
  <2>. QED
    BY <2>2, <2>4, <2>5, HandlerKeepsHandoffs
<1>4. ASSUME NEW a \in Address, ExpireAddress(e, a)
      PROVE  Handoffs'
  <2> DEFINE s == ForgetDirectAddress(conn[e], a)
  <2>1. Good(s)
    BY <1>1, ForgetIsGood
  <2>2. SameRoutes(conn[e], s)
    BY <1>1 DEF ForgetDirectAddress, SameRoutes, State
  <2>3. Handle(e, Handling(s), link, 0)
    BY <1>4 DEF ExpireAddress, Changes
  <2> HIDE DEF s
  <2>. QED
    BY <2>1, <2>2, <2>3, ChangeKeepsHandoffs
<1>5. ASSUME Subscribe(e)
      PROVE  Handoffs'
  <2> DEFINE h == ChatSubscribed(conn[e])
  <2>1. GoodHandling(h) /\ Gives(conn[e], h) /\ Handle(e, h, link, 0)
    BY <1>1, <1>5, SubscribedIsGood, SubscribedGives DEF Subscribe
  <2> HIDE DEF h
  <2>. QED
    BY <2>1, HandlerKeepsHandoffs
<1>6. ASSUME Unsubscribe(e)
      PROVE  Handoffs'
  <2> DEFINE s == ChatUnsubscribed(conn[e])
             h == Handling(s)
  <2>1. Connected(conn[e])
    BY <1>1, <1>6 DEF Unsubscribe, Good, FitsRoutes
  <2>2. Good(s)
    BY <1>1, <2>1, UnsubscribedIsGood
  <2>3. /\ s.direct = conn[e].direct /\ s.relayed = conn[e].relayed
        /\ s.handoff \in {conn[e].handoff, Unset, HandoffGrace}
    BY <1>1 DEF ChatUnsubscribed, State
  <2>4. Handle(e, h, link, 0)
    BY <1>6 DEF Unsubscribe, Changes
  <2> HIDE DEF s
  <2>5. GoodHandling(h) /\ Gives(conn[e], h)
    BY <2>2, <2>3, HandlingIsGood DEF Gives
  <2> HIDE DEF h
  <2>. QED
    BY <2>4, <2>5, HandlerKeepsHandoffs
<1>7. ASSUME DialFails(e) \/ OtherDialFails(e)
      PROVE  Handoffs'
  <2> DEFINE s == OutgoingConnectionError(conn[e])
  <2>1. Good(s) /\ SameRoutes(conn[e], s)
    BY <1>1, DialErrorIsGood
    DEF OutgoingConnectionError, RecordPromotionFailure, SameRoutes, State
  <2>2. PICK n \in {0, 1} : Handle(e, Handling(s), link, n)
    BY <1>7 DEF DialFails, OtherDialFails, Changes
  <2> HIDE DEF s
  <2>. QED
    BY <2>1, <2>2, ChangeKeepsHandoffs
<1>8. ASSUME HolePunchSucceeds(e)
      PROVE  Handoffs'
  <2> DEFINE s == ResetBackoff(conn[e])
  <2>1. Good(s) /\ SameRoutes(conn[e], s)
    BY <1>1, ResetIsGood DEF SameRoutes
  <2>2. Handle(e, Handling(s), link, 0)
    BY <1>8 DEF HolePunchSucceeds, Changes
  <2> HIDE DEF s
  <2>. QED
    BY <2>1, <2>2, ChangeKeepsHandoffs
<1>9. ASSUME HolePunchFails(e)
      PROVE  Handoffs'
  <2> DEFINE s == DcutrFailed(conn[e])
  <2>1. Good(s) /\ SameRoutes(conn[e], s)
    BY <1>1, DcutrFailedIsGood DEF DcutrFailed, RecordPromotionFailure, SameRoutes, State
  <2>2. Handle(e, Handling(s), link, 0)
    BY <1>9 DEF HolePunchFails, Changes
  <2> HIDE DEF s
  <2>. QED
    BY <2>1, <2>2, ChangeKeepsHandoffs
<1>10. ASSUME RetryDirectPromotions(e)
       PROVE  Handoffs'
  <2> DEFINE h == MaybePromoteRelayedPeer(Handling(conn[e]))
  <2>1. GoodHandling(h)
    BY <1>1, PromoteFrom
  <2>2. Gives(conn[e], h)
    BY <1>1, PromotionGives DEF SameRoutes
  <2>3. Handle(e, h, link, 0)
    BY <1>10 DEF RetryDirectPromotions, PromotionTick
  <2> HIDE DEF h
  <2>. QED
    BY <2>1, <2>2, <2>3, HandlerKeepsHandoffs
<1>11. ASSUME RetryWarmupPromotions(e)
       PROVE  Handoffs'
  <2> DEFINE h == WarmupTick(conn[e])
  <2>1. GoodHandling(h) /\ Gives(conn[e], h) /\ Handle(e, h, link, 0)
    BY <1>1, <1>11, WarmupTickIsGood, WarmupTickGives DEF RetryWarmupPromotions
  <2> HIDE DEF h
  <2>. QED
    BY <2>1, HandlerKeepsHandoffs
<1>. QED
  BY <1>2, <1>3, <1>4, <1>5, <1>6, <1>7, <1>8, <1>9, <1>10, <1>11 DEF EndStep

LEMMA HandoffsKept == Spec => [](GoodLinks /\ Handoffs)
<1>1. Init => GoodLinks /\ Handoffs
  <2> SUFFICES ASSUME Init PROVE Handoffs
    BY InitIsGood
  <2>1. \A e \in End : conn[e].direct = {} /\ conn[e].relayed = {}
    BY DEF Init, NewState
  <2>2. \A l \in Link : \A e \in End : link[l].at[e] = "unseen"
    BY DEF Init
  <2>. QED
    BY <2>1, <2>2 DEF Handoffs, Routed, LostForAReason, Timely, DirectLink
<1>2. GoodLinks /\ Handoffs /\ [Next]_vars => (GoodLinks /\ Handoffs)'
  <2> SUFFICES ASSUME GoodLinks, Handoffs, [Next]_vars PROVE Handoffs'
    BY NextKeeps DEF Keeps
  <2>1. CASE UNCHANGED vars
    BY <2>1 DEF vars, Handoffs
  <2>. QED
    BY <2>1, EndKeepsHandoffs, BreakKeepsHandoffs, TimeKeepsHandoffs DEF Next
<1>. QED
  BY <1>1, <1>2, PTL DEF Spec
-----------------------------------------------------------------------------
(* Who asks to close a link, and what is left then *)

LEMMA AskedByTheEnd ==
  ASSUME NEW x \in End, NEW h, NEW links \in [Link -> LinkState], NEW n,
         Handle(x, h, links, n), NEW e \in End, NEW m \in Link,
         links[m].asked = link[m].asked, AsksToClose(e, m)
  PROVE  e = x /\ m \in h.close
<1>1. AfterAsking(link'[m], links[m], x, m \in h.close)
  <2>1. AfterAsking(AskToClose(links, x, h.close)[m], links[m], x, m \in h.close)
    BY Asking
  <2>. QED
    BY <2>1 DEF Handle
<1>. QED
  BY <1>1 DEF AfterAsking, AsksToClose

\* A connection that is established, and the tick that ends a handoff, are the
\* events that may ask.
LEMMA TwoEventsAsk ==
  ASSUME GoodLinks, NEW x \in End, EndStep(x),
         NEW e \in End, NEW m \in Link, AsksToClose(e, m)
  PROVE  e = x /\ (RetryWarmupPromotions(e) \/ \E l \in Link : Establish(e, l))
<1>1. Good(conn[x]) /\ link \in [Link -> LinkState]
  BY DEF GoodLinks, TypeOK
<1>2. ASSUME NEW h, NEW n, Handle(x, h, link, n)
      PROVE  e = x /\ m \in h.close
  BY <1>1, <1>2, AskedByTheEnd
<1>3. ASSUME NEW s, NEW n, Handle(x, Handling(s), link, n)
      PROVE  FALSE
  <2>1. Handling(s).close = {}
    BY DEF Handling
  <2>. QED
    BY <1>2, <1>3, <2>1
<1>4. ~(\/ \E a \in Address : ExpireAddress(x, a)
        \/ Unsubscribe(x) \/ DialFails(x) \/ OtherDialFails(x)
        \/ HolePunchSucceeds(x) \/ HolePunchFails(x))
  BY <1>3
  DEF ExpireAddress, Unsubscribe, DialFails, OtherDialFails, HolePunchSucceeds,
      HolePunchFails, Changes
<1>5. ASSUME NEW a \in Address, LearnAddress(x, a)
      PROVE  FALSE
  <2>1. PICK found \in BOOLEAN :
          Handle(x, LearnDirectAddress(IF found THEN TrackGossipPeer(conn[x]) ELSE conn[x], a),
                 link, 0)
    BY <1>5 DEF LearnAddress
  <2> DEFINE h == LearnDirectAddress(IF found THEN TrackGossipPeer(conn[x]) ELSE conn[x], a)
  <2>2. h.close = {} /\ Handle(x, h, link, 0)
    BY <1>1, <2>1, LearnGives
  <2> HIDE DEF h
  <2>. QED
    BY <1>2, <2>2
<1>6. ASSUME Subscribe(x)
      PROVE  FALSE
  <2> DEFINE h == ChatSubscribed(conn[x])
  <2>1. h.close = {} /\ Handle(x, h, link, 0)
    BY <1>1, <1>6, SubscribedGives DEF Subscribe
  <2> HIDE DEF h
  <2>. QED
    BY <1>2, <2>1
<1>7. ASSUME RetryDirectPromotions(x)
      PROVE  FALSE
  <2> DEFINE h == MaybePromoteRelayedPeer(Handling(conn[x]))
  <2>1. h.close = {} /\ Handle(x, h, link, 0)
    BY <1>1, <1>7, PromotionKeepsRoutes DEF RetryDirectPromotions, PromotionTick
  <2> HIDE DEF h
  <2>. QED
    BY <1>2, <2>1
<1>8. ASSUME RetryWarmupPromotions(x)
      PROVE  e = x
  BY <1>2, <1>8 DEF RetryWarmupPromotions
<1>9. ASSUME NEW l \in Link, Establish(x, l)
      PROVE  e = x
  <2> DEFINE age == IF Seen(l) THEN link[l].age ELSE 0
             links == [link EXCEPT ![l].at[x] = "up", ![l].age = age]
             h == ConnectionEstablished(conn[x], l)
  <2>1. PICK n \in {0, 1} : Handle(x, h, links, n)
    BY <1>1, <1>9 DEF Establish
  <2>2. age \in 0..Delay /\ "up" \in View
    BY <1>1, LinksAssumption DEF LinkState, View
  <2> HIDE DEF age, h
  <2>3. links \in [Link -> LinkState]
    BY <2>2, SeenLinkIsTyped DEF GoodLinks
  <2>4. links[m].asked = link[m].asked
    BY <1>1 DEF LinkState
  <2> HIDE DEF links
  <2>. QED
    BY <2>1, <2>3, <2>4, AskedByTheEnd
<1>10. ASSUME NEW l \in Link, Closed(x, l)
       PROVE  FALSE
  <2> DEFINE links == [link EXCEPT ![l].at[x] = "down"]
             h == Handling(ConnectionClosed(conn[x], l))
  <2>1. Handle(x, h, links, 0)
    BY <1>10 DEF Closed
  <2>2. links \in [Link -> LinkState] /\ links[m].asked = link[m].asked
    BY <1>1 DEF LinkState, View
  <2>3. h.close = {}
    BY DEF Handling
  <2> HIDE DEF links, h
  <2>. QED
    BY <2>1, <2>2, <2>3, AskedByTheEnd
<1>11. ASSUME NEW l \in Link, NeverEstablished(x, l)
       PROVE  FALSE
  <2>1. link'[m].asked = link[m].asked
    BY <1>1, <1>11 DEF NeverEstablished, LinkState
  <2>. QED
    BY <2>1 DEF AsksToClose
<1>. QED
  BY <1>4, <1>5, <1>6, <1>7, <1>8, <1>9, <1>10, <1>11 DEF EndStep

\* A connection closed early is not the usable one: that was there before.
LEMMA EarlyCloseLeavesALink ==
  ASSUME GoodLinks, NEW e \in End, NEW l \in Link, Establish(e, l),
         NEW u \in Link, Usable(u)
  PROVE  LooksUsable(e, u)'
<1> DEFINE h == ConnectionEstablished(conn[e], l)
           age == IF Seen(l) THEN link[l].age ELSE 0
           links == [link EXCEPT ![l].at[e] = "up", ![l].age = age]
<1>1. TypeOK /\ Good(conn[e]) /\ link[l].at[e] = "unseen"
  BY DEF GoodLinks, Establish
<1>2. u # l
  BY <1>1 DEF Usable, AtBothEnds
<1>3. PICK n \in {0, 1} : Handle(e, h, links, n)
  BY <1>1 DEF Establish, TypeOK
<1>4. h.close \subseteq {l}
  BY <1>1, DirectRestartsHandoff, RelayKeepsHandoff DEF ConnectionEstablished, DirectLink
<1>5. age \in 0..Delay /\ "up" \in View
  BY <1>1, LinksAssumption DEF TypeOK, LinkState, View
<1> HIDE DEF h, age
<1>6. links \in [Link -> LinkState]
  BY <1>1, <1>5, SeenLinkIsTyped
<1>7. links[u] = link[u]
  BY <1>1, <1>2 DEF TypeOK
<1> HIDE DEF links
<1>8. AfterAsking(AskToClose(links, e, h.close)[u], links[u], e, u \in h.close)
  BY <1>6, Asking
<1>9. link'[u] = link[u]
  BY <1>2, <1>3, <1>4, <1>7, <1>8 DEF Handle, AfterAsking
<1>. QED
  BY <1>9 DEF Usable, LooksUsable, AtBothEnds

\* When a handoff is over, its direct route has been at both ends, or has broken.
LEMMA HandoffLeavesALink ==
  ASSUME 2 * Delay < HandoffGrace, GoodLinks, Handoffs,
         NEW e \in End, RetryWarmupPromotions(e), NEW m \in Link, AsksToClose(e, m)
  PROVE  \E d \in Link : LooksUsable(e, d)'
<1> DEFINE h == WarmupTick(conn[e])
<1>1. Good(conn[e]) /\ link \in [Link -> LinkState]
  BY DEF GoodLinks, TypeOK
<1>2. Handle(e, h, link, 0)
  BY DEF RetryWarmupPromotions
<1>3. /\ h.close \subseteq RelayedLink
      /\ h.close # {} => conn[e].handoff = 0 /\ conn[e].direct # {}
  BY <1>1, WarmupTickGives DEF Gives
<1> HIDE DEF h
<1>4. m \in h.close
  BY <1>1, <1>2, AskedByTheEnd
<1>5. PICK d : d \in conn[e].direct
  BY <1>3, <1>4
<1>6. d \in DirectLink /\ d \in Link /\ d \notin h.close
  BY <1>1, <1>3, <1>5 DEF Good, State, DirectLink
<1>7. link[d].at[e] = "up"
  BY <1>5 DEF Handoffs, Routed
<1>8. /\ link[d].age <= Delay /\ link[d].age \in Nat
      /\ Delay \in Nat /\ HandoffGrace \in Nat
  BY <1>1, <1>6, LinksAssumption, ConnectionAssumption DEF LinkState
<1>9. /\ ~(e \in link[d].asked \/ (link[d].asked # {} /\ ~link[d].broken))
      /\ ~(link[d].asked = {} /\ ~link[d].broken /\ \E f \in End : link[d].at[f] = "unseen")
  <2>1. Timely(conn[e], link[d], e) /\ conn[e].handoff = 0
    BY <1>3, <1>4, <1>6 DEF Handoffs
  <2>. QED
    BY <1>7, <1>8, <2>1 DEF Timely, Unset
<1>10. link[d].broken \/ AtBothEnds(d)
  <2>1. link[d].at \in [End -> View] /\ LostForAReason(link[d])
    BY <1>1, <1>6 DEF LinkState, Handoffs
  <2>. QED
    BY <1>9, <2>1 DEF AtBothEnds, LostForAReason, View
<1>11. link'[d] = link[d]
  <2>1. AfterAsking(AskToClose(link, e, h.close)[d], link[d], e, d \in h.close)
    BY <1>1, <1>6, Asking
  <2>. QED
    BY <1>2, <1>6, <2>1 DEF Handle, AfterAsking
<1>12. LooksUsable(e, d)'
  BY <1>7, <1>9, <1>10, <1>11 DEF LooksUsable, AtBothEnds
<1>. QED
  BY <1>6, <1>12

\* With a grace of more than twice the time in which one end's close becomes
\* known at the other, direct connections closed early here and relays closed
\* after a handoff there never take the last link that both ends could use.
THEOREM HandoffsLeaveALink ==
  ASSUME 2 * Delay < HandoffGrace
  PROVE  Spec => KeepsALink
<1> DEFINE Kept == \A e \in End :
                     (\E l \in Link : AsksToClose(e, l)) /\ (\E l \in Link : Usable(l))
                       => (\E l \in Link : LooksUsable(e, l))'
<1>1. GoodLinks /\ Handoffs /\ [Next]_vars => [Kept]_vars
  <2> SUFFICES ASSUME GoodLinks, Handoffs, [Next]_vars,
                      NEW e \in End, NEW m \in Link, AsksToClose(e, m),
                      NEW u \in Link, Usable(u)
               PROVE  (\E l \in Link : LooksUsable(e, l))'
    OBVIOUS
  <2>1. CASE UNCHANGED vars
    BY <2>1 DEF vars, AsksToClose
  <2>2. ASSUME NEW l \in Link, Break(l)
        PROVE  FALSE
    <3>1. link'[m].asked = link[m].asked
      BY <2>2 DEF Break, GoodLinks, TypeOK, LinkState
    <3>. QED
      BY <3>1 DEF AsksToClose
  <2>3. ASSUME TimePasses
        PROVE  FALSE
    <3>1. link'[m].asked = link[m].asked
      BY <2>3 DEF TimePasses, GoodLinks, TypeOK, LinkState
    <3>. QED
      BY <3>1 DEF AsksToClose
  <2>4. ASSUME NEW x \in End, EndStep(x)
        PROVE  (\E l \in Link : LooksUsable(e, l))'
    <3>1. RetryWarmupPromotions(e) \/ \E l \in Link : Establish(e, l)
      BY <2>4, TwoEventsAsk
    <3>2. CASE RetryWarmupPromotions(e)
      BY <3>2, HandoffLeavesALink
    <3>3. CASE \E l \in Link : Establish(e, l)
      <4>1. LooksUsable(e, u)'
        BY <3>3, EarlyCloseLeavesALink
      <4>. QED
        BY <4>1
    <3>. QED
      BY <3>1, <3>2, <3>3
  <2>. QED
    BY <2>1, <2>2, <2>3, <2>4 DEF Next
<1>. QED
  BY <1>1, HandoffsKept, PTL DEF Spec, KeepsALink
=============================================================================
