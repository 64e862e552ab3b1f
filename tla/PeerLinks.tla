------------------------------ MODULE PeerLinks ------------------------------
(***************************************************************************)
(* The connections between two peers of a room as both ends see them: each *)
(* end runs connection_state.rs on its swarm's events (backend.rs) and     *)
(* asks its swarm to dial or to close.  With one end, the other one is     *)
(* part of the environment.                                                *)
(*                                                                         *)
(* A link is seen by one end before the other; an end that asks to close   *)
(* one still has it among its routes until its swarm says it is closed.    *)
(***************************************************************************)
EXTENDS ConnectionState, FiniteSets

CONSTANTS
  End,            \* the ends that are modelled
  Leavers,        \* ends whose peer may unsubscribe while connected
  Delay,          \* how long an end may not know what the other one knows
  MaxLearns,      \* bound: addresses learned by an end
  MaxBreaks       \* bound: links that break

VARIABLES
  conn,           \* an end's ConnectionState of the other one
  dials,          \* direct promotion dials an end has not heard of yet
  link,           \* what has become of each link
  learns, breaks

vars == <<conn, dials, link, learns, breaks>>

View == {"unseen", "up", "down"}

LinkState == [at : [End -> View], asked : SUBSET End, broken : BOOLEAN,
              age : 0..Delay]

ASSUME LinksAssumption ==
  /\ IsFiniteSet(End) /\ Leavers \subseteq End
  /\ Delay \in Nat /\ MaxLearns \in Nat /\ MaxBreaks \in Nat

TypeOK ==
  /\ conn \in [End -> State]
  /\ dials \in [End -> Nat]
  /\ link \in [Link -> LinkState]
  /\ learns \in [End -> 0..MaxLearns]
  /\ breaks \in 0..MaxBreaks

Init ==
  /\ conn = [e \in End |-> NewState]
  /\ dials = [e \in End |-> 0]
  /\ link = [l \in Link |-> [at |-> [e \in End |-> "unseen"], asked |-> {},
                             broken |-> FALSE, age |-> 0]]
  /\ learns = [e \in End |-> 0]
  /\ breaks = 0

Seen(l) == \E e \in End : link[l].at[e] # "unseen"
Doomed(l) == link[l].asked # {} \/ link[l].broken
-----------------------------------------------------------------------------
(* An event at an end: the handler, then apply_connection_effects. *)

AskToClose(links, e, close) ==
  [l \in Link |->
     IF l \notin close THEN links[l]
     ELSE [links[l] EXCEPT !.asked = @ \cup {e},
                           !.age = IF links[l].asked = {} THEN 0 ELSE @]]

\* The swarm may refuse a dial at once, which counts as its failure.
\* answered: the dials this event answers.
Handle(e, h, links, answered) ==
  /\ link' = AskToClose(links, e, h.close)
  /\ \E refused \in BOOLEAN :
       /\ refused => h.dial
       /\ conn' = [conn EXCEPT ![e] =
                     IF refused THEN RecordPromotionFailure(h.state) ELSE h.state]
       /\ dials' = [dials EXCEPT ![e] =
                      @ - answered + (IF h.dial /\ ~refused THEN 1 ELSE 0)]

Changes(e, s) == Handle(e, Handling(s), link, 0)

Unbounded == UNCHANGED <<learns, breaks>>

\* ConnectionEstablished: a direct one may be what a dial of this end gave.
Establish(e, l) ==
  /\ link[l].at[e] = "unseen"
  /\ LET links == [link EXCEPT ![l].at[e] = "up",
                               ![l].age = IF Seen(l) THEN @ ELSE 0]
     IN \E answered \in {0, 1} :
          /\ answered = 1 => l \in DirectLink /\ dials[e] > 0
          /\ Handle(e, ConnectionEstablished(conn[e], l), links, answered)
  /\ Unbounded

\* ConnectionClosed: closed by this end or the other, or broken.
Closed(e, l) ==
  /\ link[l].at[e] = "up"
  /\ Doomed(l)
  /\ Handle(e, Handling(ConnectionClosed(conn[e], l)),
            [link EXCEPT ![l].at[e] = "down"], 0)
  /\ Unbounded

\* A link that ends before this end's swarm has it established.
NeverEstablished(e, l) ==
  /\ link[l].at[e] = "unseen" /\ Seen(l) /\ Doomed(l)
  /\ link' = [link EXCEPT ![l].at[e] = "down"]
  /\ UNCHANGED <<conn, dials>> /\ Unbounded

\* The network, or the other end's process, fails.
Break(l) ==
  /\ Seen(l) /\ ~link[l].broken /\ breaks < MaxBreaks
  /\ \E e \in End : link[l].at[e] = "up"
  /\ link' = [link EXCEPT ![l].broken = TRUE]
  /\ breaks' = breaks + 1
  /\ UNCHANGED <<conn, dials, learns>>
-----------------------------------------------------------------------------
(* Other events *)

\* mDNS and rendezvous discovery track the peer, identify and the swarm's own
\* NewExternalAddrOfPeer do not.
LearnAddress(e, a) ==
  /\ learns[e] < MaxLearns
  /\ \E found \in BOOLEAN :
       Handle(e, LearnDirectAddress(IF found THEN TrackGossipPeer(conn[e]) ELSE conn[e], a),
              link, 0)
  /\ learns' = [learns EXCEPT ![e] = @ + 1]
  /\ UNCHANGED breaks

ExpireAddress(e, a) == Changes(e, ForgetDirectAddress(conn[e], a)) /\ Unbounded

\* Gossipsub reports a subscription once, and only of a peer that is connected.
Subscribe(e) ==
  /\ Connected(conn[e]) /\ ~conn[e].subscribed
  /\ Handle(e, ChatSubscribed(conn[e]), link, 0)
  /\ Unbounded

Unsubscribe(e) ==
  /\ e \in Leavers /\ conn[e].subscribed
  /\ Changes(e, ChatUnsubscribed(conn[e]))
  /\ Unbounded

\* OutgoingConnectionError: of a promotion dial, or of another dial to the
\* peer (a rendezvous dial, a hole punch).
DialFails(e) ==
  /\ dials[e] > 0
  /\ Handle(e, Handling(OutgoingConnectionError(conn[e])), link, 1)
  /\ Unbounded

OtherDialFails(e) == Changes(e, OutgoingConnectionError(conn[e])) /\ Unbounded

\* A hole punch has succeeded once its direct connection is established.
HolePunchSucceeds(e) ==
  /\ conn[e].direct # {}
  /\ Changes(e, ResetBackoff(conn[e]))
  /\ Unbounded

\* Failures of hole punches are counted without end, here to one too many.
HolePunchFails(e) ==
  /\ conn[e].backoff.failures <= MaxFailures
  /\ Changes(e, DcutrFailed(conn[e]))
  /\ Unbounded

RetryDirectPromotions(e) == Handle(e, PromotionTick(conn[e]), link, 0) /\ Unbounded
RetryWarmupPromotions(e) == Handle(e, WarmupTick(conn[e]), link, 0) /\ Unbounded

\* A swarm closes what it was asked to within Delay, and what one end does
\* reaches the other within Delay unless the link is broken.
Awaited(l) ==
  \E e \in End :
    \/ link[l].at[e] = "unseen" /\ Seen(l) /\ ~link[l].broken
    \/ link[l].at[e] = "up" /\ e \in link[l].asked
    \/ link[l].at[e] = "up" /\ link[l].asked # {} /\ ~link[l].broken

TimePasses ==
  /\ \A l \in Link : Awaited(l) => link[l].age < Delay
  /\ conn' = [e \in End |-> AdvanceClock(conn[e])]
  /\ link' = [l \in Link |-> [link[l] EXCEPT !.age = IF Awaited(l) THEN @ + 1 ELSE 0]]
  /\ UNCHANGED dials /\ Unbounded

EndStep(e) ==
  \/ \E l \in Link : Establish(e, l) \/ Closed(e, l) \/ NeverEstablished(e, l)
  \/ \E a \in Address : LearnAddress(e, a) \/ ExpireAddress(e, a)
  \/ Subscribe(e) \/ Unsubscribe(e)
  \/ DialFails(e) \/ OtherDialFails(e)
  \/ HolePunchSucceeds(e) \/ HolePunchFails(e)
  \/ RetryDirectPromotions(e) \/ RetryWarmupPromotions(e)

Next ==
  \/ \E e \in End : EndStep(e)
  \/ \E l \in Link : Break(l)
  \/ TimePasses

Spec == Init /\ [][Next]_vars

\* Timers of a running loop fire, time passes, and libp2p answers every dial.
Fairness ==
  /\ WF_vars(TimePasses)
  /\ \A e \in End : /\ WF_vars(RetryDirectPromotions(e))
                    /\ WF_vars(RetryWarmupPromotions(e))
                    /\ WF_vars(DialFails(e))
                    /\ \A l \in Link : WF_vars(Closed(e, l))

FairSpec == Spec /\ Fairness
-----------------------------------------------------------------------------
(* Properties *)

\* A link that both ends have and neither has asked to close.
AtBothEnds(l) == link[l].asked = {} /\ \A e \in End : link[l].at[e] = "up"

Usable(l) == AtBothEnds(l) /\ ~link[l].broken

\* As far as e can know: of a broken link it has no news.
LooksUsable(e, l) ==
  /\ link[l].at[e] = "up" /\ e \notin link[l].asked
  /\ AtBothEnds(l) \/ link[l].broken

AsksToClose(e, l) == e \in link'[l].asked \ link[l].asked

\* However early closes of direct connections at one end and relay handoffs at
\* the other meet, an end that closes links of its own accord never takes the
\* last one that both could use.
KeepsALink ==
  [][ \A e \in End : (\E l \in Link : AsksToClose(e, l)) /\ (\E l \in Link : Usable(l))
        => (\E l \in Link : LooksUsable(e, l))' ]_vars

\* A relay is on its way out only beside a direct route and with a
\* subscription, and what is known of a peer but its addresses goes with its
\* last connection.
FitsRoutes(s) ==
  /\ s.handoff # Unset => HasBothRoutes(s) /\ s.subscribed
  /\ ~Connected(s) => /\ s.backoff = NoBackoff
                      /\ s.warmup = Unset /\ ~s.warmup_completed
                      /\ ~s.subscribed
  /\ Connected(s) => s.tracked

StateFitsRoutes == \A e \in End : FitsRoutes(conn[e])

\* An attempt under way is a dial that libp2p still answers: else the peer
\* would stay on the relay for good.
AttemptsAreDials == \A e \in End : conn[e].backoff.in_flight => dials[e] > 0

\* Two failures within the window count as one, and still the backoff slows
\* down and suspends: there are at most two attempts for each failure counted.
AttemptsAreBounded ==
  \A e \in End : conn[e].backoff.attempts <= 2 * conn[e].backoff.failures + 1

\* A relay-only peer with direct addresses is promoted or suspended in the end.
Promotable(s) == IsRelayOnly(s) /\ s.addresses # {} /\ s.backoff.failures < MaxFailures

PromotionSettles == \A e \in End : Promotable(conn[e]) ~> ~Promotable(conn[e])

\* A handoff ends: relays are closed, or it is called off.
HandoffsEnd == \A e \in End : conn[e].handoff # Unset ~> conn[e].handoff = Unset
=============================================================================
