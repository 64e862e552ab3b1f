----------------------------- MODULE Rendezvous ------------------------------
(***************************************************************************)
(* How the peers of a room find each other, and again after they lost each *)
(* other: they register with rendezvous nodes, which are relays as well,   *)
(* ask them who else is there and dial those they are told of.             *)
(*                                                                         *)
(* A node answers a discovery with the registrations that the enquirer's   *)
(* cookie does not cover.  A peer without room peers asks without cookie.  *)
(*                                                                         *)
(* The nodes, and the links libp2p makes, are not this repository's code:  *)
(* a node takes a request up at once and its answer travels; a link breaks *)
(* at both ends at once (PeerLinks is about the ends of links).            *)
(***************************************************************************)
EXTENDS Integers, FiniteSets

CONSTANTS
  Peer,             \* a peer that restarts is another one
  Node,             \* the relay and rendezvous nodes every peer is configured with
  FirstPeers,       \* the peers there at first
  FirstDelays,      \* how many ZERO_PEER_RECOVERY_DISCOVER_DELAYS there are
  MaxBreaks,        \* bound on the links between peers that break
  MaxNodeFaults,    \* bound on the links to nodes that break and the nodes that restart
  MaxDialFailures   \* bound on the dials that fail although they could succeed

ASSUME FirstPeersAssumption == FirstPeers \subseteq Peer
ASSUME PeersAreNotNodes == Peer \cap Node = {}
ASSUME FirstDelaysAssumption == FirstDelays \in Nat \ {0}
ASSUME BoundsAssumption == {MaxBreaks, MaxNodeFaults, MaxDialFailures} \subseteq Nat

VARIABLES
  members,     \* the peers whose event loop runs
  started,     \* the peers that ever did
  links,       \* links[p]: the room peers p is connected to
  nodeLinks,   \* nodeLinks[p]: the nodes p is connected to
  dialing,     \* dialing[p]: the peers and nodes p has a dial under way to
  listening,   \* listening[p]: the nodes p holds or awaits a relay reservation of
  reserved,    \* reserved[p]: those it holds one of: its external addresses
  recovery,    \* recovery[p]: the ZeroPeerRecovery of p, its deadlines as their number
  cookies,     \* cookies[p][n]: the peers whose registration at n p's cookie covers
  registered,  \* registered[n]: the peers registered at n
  answers,     \* the answers of nodes on their way
  faults,      \* how often each bounded thing happened
  met          \* history variable: the peers that ever had a room peer

vars == <<members, started, links, nodeLinks, dialing, listening, reserved,
          recovery, cookies, registered, answers, faults, met>>

connectivity == <<links, nodeLinks, dialing, listening, reserved>>
directory == <<cookies, registered, answers>>

Idle == [active |-> FALSE, deadlines |-> 0]

Answer == [to : Peer, node : Node, full : BOOLEAN,
           found : SUBSET Peer, covered : SUBSET Peer]

Init ==
  /\ members = FirstPeers
  /\ started = FirstPeers
  /\ links = [p \in Peer |-> {}]
  /\ nodeLinks = [p \in Peer |-> {}]
  /\ dialing = [p \in Peer |-> IF p \in FirstPeers THEN Node ELSE {}]
  /\ listening = [p \in Peer |-> IF p \in FirstPeers THEN Node ELSE {}]
  /\ reserved = [p \in Peer |-> {}]
  /\ recovery = [p \in Peer |-> Idle]
  /\ cookies = [p \in Peer |-> [n \in Node |-> {}]]
  /\ registered = [n \in Node |-> {}]
  /\ answers = {}
  /\ faults = [breaks |-> 0, node |-> 0, dials |-> 0]
  /\ met = {}

-----------------------------------------------------------------------------
(* ZeroPeerRecovery *)

\* Mutant of StartRecovery: the repeated discovery is scheduled as well.
StartWithRepeat(r) ==
  IF r.active THEN r ELSE [active |-> TRUE, deadlines |-> FirstDelays + 1]

\* ZeroPeerRecovery::start
StartRecovery(r) == IF r.active THEN r ELSE [active |-> TRUE, deadlines |-> FirstDelays]

\* ZeroPeerRecovery::finish
FinishRecovery(r) == Idle

\* Mutant of PopDue: the schedule is not renewed.
PopDueOnly(r, due) == [r EXCEPT !.deadlines = @ - due]

\* ZeroPeerRecovery::pop_due_discovery when due deadlines have passed.
PopDue(r, due) ==
  [r EXCEPT !.deadlines = IF @ = due THEN 1 ELSE @ - due]

\* ConnectionClosed: the recovery starts with the last room peer gone.
AfterClosing(p, remaining) ==
  IF remaining = {} THEN StartRecovery(recovery[p]) ELSE recovery[p]

-----------------------------------------------------------------------------
(* The directory of the nodes: d holds cookies, registrations and answers. *)

Directory == [cookies |-> cookies, registered |-> registered, answers |-> answers]

\* Mutant of Register: a peer does not register where it is registered.
RegisterOnce(d, p, nodes, addresses) ==
  [cookies |-> [q \in Peer |-> [n \in Node |->
     IF n \in nodes /\ addresses # {} /\ p \notin d.registered[n]
     THEN d.cookies[q][n] \ {p} ELSE d.cookies[q][n]]],
   registered |-> [n \in Node |->
     IF n \in nodes /\ addresses # {} THEN d.registered[n] \cup {p} ELSE d.registered[n]],
   answers |-> d.answers]

\* register_with_rendezvous_nodes: deferred as long as there is no external address.
Register(d, p, nodes, addresses) ==
  IF addresses = {} THEN d
  ELSE [cookies |-> [q \in Peer |-> [n \in Node |->
          IF n \in nodes THEN d.cookies[q][n] \ {p} ELSE d.cookies[q][n]]],
        registered |-> [n \in Node |->
          IF n \in nodes THEN d.registered[n] \cup {p} ELSE d.registered[n]],
        answers |-> {[a EXCEPT !.covered = IF a.node \in nodes THEN @ \ {p} ELSE @] :
                       a \in d.answers}]

\* The registrations of others at n: nobody looks at his own.
Others(d, p, n) == d.registered[n] \ {p}

\* discover_rendezvous_peers, with p's cookies (Incremental) or without (Full)
Discover(d, p, nodes, full) ==
  [cookies |-> d.cookies,
   registered |-> d.registered,
   answers |-> d.answers \cup
     {[to |-> p, node |-> n, full |-> full,
       found |-> Others(d, p, n) \ (IF full THEN {} ELSE d.cookies[p][n]),
       covered |-> Others(d, p, n)] : n \in nodes}]

SetDirectory(d) ==
  /\ cookies' = d.cookies
  /\ registered' = d.registered
  /\ answers' = d.answers

-----------------------------------------------------------------------------
Together(p, q) == q \in links[p]

\* ConnectionEstablished with a room peer, at both ends.
Establish(p, q) ==
  /\ links' = [links EXCEPT ![p] = @ \cup {q}, ![q] = @ \cup {p}]
  /\ recovery' = [recovery EXCEPT ![p] = FinishRecovery(@), ![q] = FinishRecovery(@)]
  /\ met' = met \cup {p, q}

\* A dial to a discovered peer succeeds, at its relayed address or another one.
PeerDialed(p, q) ==
  /\ q \in dialing[p] \cap members
  /\ dialing' = [dialing EXCEPT ![p] = @ \ {q}]
  /\ Establish(p, q)
  /\ UNCHANGED <<members, started, nodeLinks, listening, reserved, directory, faults>>

\* It fails: always when q is gone, else a bounded number of times while q has a relay.
PeerDialFails(p, q) ==
  /\ q \in dialing[p] \cap Peer
  /\ dialing' = [dialing EXCEPT ![p] = @ \ {q}]
  /\ IF q \in members /\ reserved[q] # {}
     THEN /\ faults.dials < MaxDialFailures
          /\ faults' = [faults EXCEPT !.dials = @ + 1]
     ELSE faults' = faults
  /\ UNCHANGED <<members, started, links, nodeLinks, listening, reserved, recovery,
                 directory, met>>

\* Peers that meet without a node: mDNS, or an address given at the start.
MeetOtherwise(p, q) ==
  /\ p # q /\ p \in members /\ q \in members /\ ~Together(p, q)
  /\ Establish(p, q)
  /\ UNCHANGED <<members, started, nodeLinks, dialing, listening, reserved, directory,
                 faults>>

\* The links of p to the peers gone are closed: ConnectionClosed at all their ends.
Close(p, gone) ==
  /\ links' = [q \in Peer |-> IF q = p THEN links[p] \ gone
                              ELSE IF q \in gone THEN links[q] \ {p} ELSE links[q]]
  /\ recovery' = [q \in Peer |->
       IF q \in (gone \cup {p}) \cap members' THEN AfterClosing(q, links'[q])
       ELSE IF q \in members' THEN recovery[q] ELSE Idle]

\* The connection of two room peers breaks.
LinkBreaks(p, q) ==
  /\ Together(p, q)
  /\ faults.breaks < MaxBreaks
  /\ faults' = [faults EXCEPT !.breaks = @ + 1]
  /\ UNCHANGED <<members, started, nodeLinks, dialing, listening, reserved, directory, met>>
  /\ Close(p, {q})

-----------------------------------------------------------------------------
\* ConnectionEstablished with a node: register and discover incrementally.
NodeDialed(p, n) ==
  /\ n \in dialing[p] \cap Node
  /\ dialing' = [dialing EXCEPT ![p] = @ \ {n}]
  /\ nodeLinks' = [nodeLinks EXCEPT ![p] = @ \cup {n}]
  /\ SetDirectory(Discover(Register(Directory, p, {n}, reserved[p]), p, {n}, FALSE))
  /\ UNCHANGED <<members, started, links, listening, reserved, recovery, faults, met>>

\* A dial to a node fails; the reservation asked for at the start goes with the first.
NodeDialFails(p, n) ==
  /\ n \in dialing[p] \cap Node
  /\ faults.dials < MaxDialFailures
  /\ faults' = [faults EXCEPT !.dials = @ + 1]
  /\ dialing' = [dialing EXCEPT ![p] = @ \ {n}]
  /\ listening' = [listening EXCEPT ![p] = @ \ {n}]
  /\ UNCHANGED <<members, started, links, nodeLinks, reserved, recovery, directory, met>>

\* ExternalAddrConfirmed: the reservation is granted, a relayed address is known.
ReservationGranted(p, n) ==
  /\ n \in (listening[p] \cap nodeLinks[p]) \ reserved[p]
  /\ reserved' = [reserved EXCEPT ![p] = @ \cup {n}]
  /\ SetDirectory(Register(Directory, p, nodeLinks[p], reserved'[p]))
  /\ UNCHANGED <<members, started, links, nodeLinks, dialing, listening, recovery, faults,
                 met>>

\* The links of the peers to n are gone, and with them the reservations.  Nothing asks
\* for a reservation again, and only the recovery dials a node again.
LoseNode(peers, n) ==
  /\ nodeLinks' = [p \in Peer |-> IF p \in peers THEN nodeLinks[p] \ {n} ELSE nodeLinks[p]]
  /\ listening' = [p \in Peer |-> IF p \in peers THEN listening[p] \ {n} ELSE listening[p]]
  /\ reserved' = [p \in Peer |-> IF p \in peers THEN reserved[p] \ {n} ELSE reserved[p]]

\* The connection of a peer and a node breaks; its registration stays until it expires.
NodeLinkBreaks(p, n) ==
  /\ n \in nodeLinks[p]
  /\ faults.node < MaxNodeFaults
  /\ faults' = [faults EXCEPT !.node = @ + 1]
  /\ LoseNode({p}, n)
  /\ answers' = {a \in answers : ~(a.to = p /\ a.node = n)}
  /\ UNCHANGED <<members, started, links, dialing, recovery, cookies, registered, met>>

\* A node restarts: it has forgotten the registrations and what its cookies cover.
NodeRestarts(n) ==
  /\ faults.node < MaxNodeFaults
  /\ faults' = [faults EXCEPT !.node = @ + 1]
  /\ LoseNode({p \in Peer : n \in nodeLinks[p]}, n)
  /\ SetDirectory([cookies |-> [p \in Peer |-> [cookies[p] EXCEPT ![n] = {}]],
                   registered |-> [registered EXCEPT ![n] = {}],
                   answers |-> {a \in answers : a.node # n}])
  /\ UNCHANGED <<members, started, links, dialing, recovery, met>>

\* The TTL of a registration is twice the interval at which it is renewed.
Expire(p, n) ==
  /\ p \in registered[n]
  /\ n \notin nodeLinks[p] \/ reserved[p] = {}
  /\ registered' = [registered EXCEPT ![n] = @ \ {p}]
  /\ UNCHANGED <<members, started, connectivity, recovery, cookies, answers, faults, met>>

-----------------------------------------------------------------------------
\* rendezvous_register.tick
RegisterTick(p) ==
  /\ p \in members
  /\ SetDirectory(Register(Directory, p, nodeLinks[p], reserved[p]))
  /\ UNCHANGED <<members, started, connectivity, recovery, faults, met>>

\* The answers p still waits for.
Awaited(p, full) == {a \in answers : a.to = p /\ a.full = full}

\* rendezvous_discover.tick; bounded to one such discovery at a time.
DiscoverTick(p) ==
  /\ p \in members
  /\ Awaited(p, FALSE) = {}
  /\ SetDirectory(Discover(Directory, p, nodeLinks[p], FALSE))
  /\ UNCHANGED <<members, started, connectivity, recovery, faults, met>>

\* Event::Discovered, dial_rendezvous_registrations
Discovered(a) ==
  /\ a \in answers
  /\ answers' = answers \ {a}
  /\ cookies' = [cookies EXCEPT ![a.to][a.node] = a.covered]
  /\ dialing' = [dialing EXCEPT ![a.to] = @ \cup (a.found \ links[a.to])]
  /\ UNCHANGED <<members, started, links, nodeLinks, listening, reserved, recovery,
                 registered, faults, met>>

\* zero_peer_recovery_tick.tick, run_zero_peer_recovery; bounded to one at a time.
Recover(p) ==
  /\ p \in members
  /\ Awaited(p, TRUE) = {}
  /\ recovery[p].active
  /\ \E due \in 1..recovery[p].deadlines :
       recovery' = [recovery EXCEPT ![p] = PopDue(@, due)]
  /\ dialing' = [dialing EXCEPT ![p] = @ \cup (Node \ nodeLinks[p])]
  /\ SetDirectory(Discover(Register(Directory, p, nodeLinks[p], reserved[p]),
                           p, nodeLinks[p], TRUE))
  /\ UNCHANGED <<members, started, links, nodeLinks, listening, reserved, faults, met>>

-----------------------------------------------------------------------------
\* run_network starts: a new peer id, and a reservation asked of every node.
Start(p) ==
  /\ p \notin started
  /\ members' = members \cup {p}
  /\ started' = started \cup {p}
  /\ dialing' = [dialing EXCEPT ![p] = Node]
  /\ listening' = [listening EXCEPT ![p] = Node]
  /\ UNCHANGED <<links, nodeLinks, reserved, recovery, directory, faults, met>>

\* A peer shuts down; the nodes in heard get its unregistration in time, none of them
\* when it crashes (unregister_from_rendezvous_nodes).
Leave(p, heard) ==
  /\ p \in members
  /\ members' = members \ {p}
  /\ Close(p, links[p])
  /\ nodeLinks' = [nodeLinks EXCEPT ![p] = {}]
  /\ dialing' = [dialing EXCEPT ![p] = {}]
  /\ listening' = [listening EXCEPT ![p] = {}]
  /\ reserved' = [reserved EXCEPT ![p] = {}]
  /\ registered' = [n \in Node |-> IF n \in heard THEN registered[n] \ {p} ELSE registered[n]]
  /\ answers' = {a \in answers : a.to # p}
  /\ cookies' = [cookies EXCEPT ![p] = [n \in Node |-> {}]]
  /\ UNCHANGED <<started, faults, met>>

Next ==
  \/ \E p, q \in Peer :
       PeerDialed(p, q) \/ PeerDialFails(p, q) \/ MeetOtherwise(p, q) \/ LinkBreaks(p, q)
  \/ \E p \in Peer, n \in Node :
       \/ NodeDialed(p, n) \/ NodeDialFails(p, n) \/ ReservationGranted(p, n)
       \/ NodeLinkBreaks(p, n) \/ Expire(p, n)
  \/ \E n \in Node : NodeRestarts(n)
  \/ \E p \in Peer : RegisterTick(p) \/ DiscoverTick(p) \/ Recover(p) \/ Start(p)
  \/ \E p \in Peer : \E heard \in SUBSET nodeLinks[p] : Leave(p, heard)
  \/ \E a \in answers : Discovered(a)

\* Timers go off, dials end, reservations are granted and answers arrive.
Fairness ==
  \A p \in Peer :
    /\ WF_vars(RegisterTick(p))
    /\ WF_vars(DiscoverTick(p))
    /\ WF_vars(Recover(p))
    /\ \A q \in Peer : WF_vars(PeerDialed(p, q) \/ PeerDialFails(p, q))
    /\ \A n \in Node :
         /\ WF_vars(NodeDialed(p, n) \/ NodeDialFails(p, n))
         /\ WF_vars(ReservationGranted(p, n))
         /\ WF_vars(\E a \in answers : a.to = p /\ a.node = n /\ Discovered(a))

Spec == Init /\ [][Next]_vars
FairSpec == Spec /\ Fairness

-----------------------------------------------------------------------------
TypeOK ==
  /\ members \subseteq started /\ started \subseteq Peer
  /\ links \in [Peer -> SUBSET Peer]
  /\ nodeLinks \in [Peer -> SUBSET Node]
  /\ dialing \in [Peer -> SUBSET (Peer \cup Node)]
  /\ listening \in [Peer -> SUBSET Node]
  /\ reserved \in [Peer -> SUBSET Node]
  /\ recovery \in [Peer -> [active : BOOLEAN, deadlines : 0..FirstDelays]]
  /\ cookies \in [Peer -> [Node -> SUBSET Peer]]
  /\ registered \in [Node -> SUBSET Peer]
  /\ answers \subseteq Answer
  /\ met \subseteq Peer

\* The recovery of a running peer is on exactly while it has no room peer any more, it
\* always has a next deadline then, and it never runs for one that is yet to meet its
\* first: whatever links come and go together, a recovery is neither missed nor left
\* running (ConnectionEstablished, ConnectionClosed, ZeroPeerRecovery).
RecoveryIffLost ==
  \A p \in members :
    /\ recovery[p].active <=> p \in met /\ links[p] = {}
    /\ recovery[p].active <=> recovery[p].deadlines > 0

\* q can be found at n: it is connected and has an address to register.
Findable(q, n) == q \in members /\ n \in nodeLinks[q] /\ reserved[q] # {}

\* p is looking for peers at n: it is connected, or it lost its peers and dials again.
Searching(p, n) == p \in members /\ (n \in nodeLinks[p] \/ recovery[p].active)

\* Two peers at a node do not stay apart for ever, whatever was lost before: what a
\* cookie hides from one of them the other's next registration shows again, and who
\* lost everybody returns to the node first (run_zero_peer_recovery and the timers).
PeersMeet ==
  \A p, q \in Peer : \A n \in Node :
    p # q => []<>~(Searching(p, n) /\ Findable(q, n) /\ ~Together(p, q))
=============================================================================
