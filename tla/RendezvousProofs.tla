-------------------------- MODULE RendezvousProofs ---------------------------
(***************************************************************************)
(* A recovery runs exactly as long as a peer that had room peers has none. *)
(***************************************************************************)
EXTENDS Rendezvous, TLAPS

DirectoryType ==
  [cookies : [Peer -> [Node -> SUBSET Peer]],
   registered : [Node -> SUBSET Peer],
   answers : SUBSET Answer]

\* Who is not running holds nothing, and the links are the same seen from both ends.
OnlyMembersTakePart ==
  /\ \A p \in Peer \ members :
       links[p] = {} /\ nodeLinks[p] = {} /\ dialing[p] = {} /\ recovery[p] = Idle
  /\ \A a \in answers : a.to \in members
  /\ \A p, q \in Peer : q \in links[p] => p \in links[q]

\* What has been met before shows, and a schedule is there as long as it is needed.
RecoveryInv ==
  /\ met \subseteq started
  /\ \A p \in Peer : links[p] # {} => p \in met
  /\ RecoveryIffLost

IInv == TypeOK /\ OnlyMembersTakePart /\ RecoveryInv

USE DEF connectivity, directory

-----------------------------------------------------------------------------
\* Registering keeps the directory well formed and answers to nobody new.
LEMMA RegisterKeeps ==
  ASSUME NEW d \in DirectoryType, NEW p \in Peer, NEW nodes \in SUBSET Node, NEW addresses
  PROVE  /\ Register(d, p, nodes, addresses) \in DirectoryType
         /\ \A a \in Register(d, p, nodes, addresses).answers :
              \E b \in d.answers : b.to = a.to
<1> DEFINE Renewed(a) == [a EXCEPT !.covered = IF a.node \in nodes THEN @ \ {p} ELSE @]
<1>1. ASSUME NEW a \in Answer
      PROVE  Renewed(a) \in Answer /\ Renewed(a).to = a.to
  BY DEF Answer
<1>2. d.answers \subseteq Answer
  BY DEF DirectoryType
<1>3. CASE addresses = {}
  BY <1>3 DEF Register
<1>4. CASE addresses # {}
  <2>1. Register(d, p, nodes, addresses).answers = {Renewed(a) : a \in d.answers}
    BY <1>4 DEF Register
  <2>2. Register(d, p, nodes, addresses).answers \in SUBSET Answer
    BY <2>1, <1>1, <1>2
  <2>3. \A a \in Register(d, p, nodes, addresses).answers :
          \E b \in d.answers : b.to = a.to
    BY <2>1, <1>1, <1>2
  <2>4. Register(d, p, nodes, addresses).cookies \in [Peer -> [Node -> SUBSET Peer]]
    BY <1>4 DEF Register, DirectoryType
  <2>5. Register(d, p, nodes, addresses).registered \in [Node -> SUBSET Peer]
    BY <1>4 DEF Register, DirectoryType
  <2>6. Register(d, p, nodes, addresses)
          = [cookies |-> Register(d, p, nodes, addresses).cookies,
             registered |-> Register(d, p, nodes, addresses).registered,
             answers |-> Register(d, p, nodes, addresses).answers]
    BY <1>4 DEF Register
  <2> QED
    BY <2>2, <2>3, <2>4, <2>5, <2>6 DEF DirectoryType
<1> QED
  BY <1>3, <1>4

\* A discovery adds answers to the peer that asks and changes nothing else.
LEMMA DiscoverKeeps ==
  ASSUME NEW d \in DirectoryType, NEW p \in Peer, NEW nodes \in SUBSET Node,
         NEW full \in BOOLEAN
  PROVE  /\ Discover(d, p, nodes, full) \in DirectoryType
         /\ \A a \in Discover(d, p, nodes, full).answers : a \in d.answers \/ a.to = p
<1> DEFINE New(n) == [to |-> p, node |-> n, full |-> full,
                      found |-> Others(d, p, n) \ (IF full THEN {} ELSE d.cookies[p][n]),
                      covered |-> Others(d, p, n)]
<1>1. \A n \in nodes : New(n) \in Answer /\ New(n).to = p
  BY DEF Answer, Others, DirectoryType
<1> HIDE DEF New
<1>2. Discover(d, p, nodes, full).answers = d.answers \cup {New(n) : n \in nodes}
  BY DEF Discover, DirectoryType, New
<1>3. /\ Discover(d, p, nodes, full).cookies = d.cookies
      /\ Discover(d, p, nodes, full).registered = d.registered
      /\ Discover(d, p, nodes, full)
           = [cookies |-> d.cookies, registered |-> d.registered,
              answers |-> Discover(d, p, nodes, full).answers]
  BY DEF Discover, DirectoryType
<1> QED
  BY <1>1, <1>2, <1>3 DEF DirectoryType

\* The directory of a state that is well formed.
LEMMA DirectoryTyped ==
  TypeOK => Directory \in DirectoryType
BY DEF TypeOK, Directory, DirectoryType

\* What a step says of the directory, taken apart.
LEMMA SetDirectoryKeeps ==
  ASSUME NEW d \in DirectoryType, SetDirectory(d)
  PROVE  /\ cookies' \in [Peer -> [Node -> SUBSET Peer]]
         /\ registered' \in [Node -> SUBSET Peer]
         /\ answers' = d.answers
         /\ answers' \subseteq Answer
BY DEF DirectoryType, SetDirectory

-----------------------------------------------------------------------------
LEMMA RecoveryInit == Init => IInv
<1> SUFFICES ASSUME Init PROVE IInv
  OBVIOUS
<1> USE FirstPeersAssumption, FirstDelaysAssumption DEF Init, Idle
<1>1. TypeOK
  BY DEF TypeOK
<1>2. OnlyMembersTakePart
  BY DEF OnlyMembersTakePart
<1>3. RecoveryInv
  BY DEF RecoveryInv, RecoveryIffLost
<1> QED
  BY <1>1, <1>2, <1>3 DEF IInv

RecoveryType == [active : BOOLEAN, deadlines : 0..FirstDelays]

\* The operations of a recovery keep a deadline exactly while it is active.
LEMMA RecoveryOperations ==
  ASSUME NEW r \in RecoveryType, r.active <=> r.deadlines > 0
  PROVE  /\ StartRecovery(r) \in RecoveryType
         /\ StartRecovery(r).active
         /\ StartRecovery(r).deadlines > 0
         /\ FinishRecovery(r) = Idle
         /\ Idle \in RecoveryType
         /\ ~Idle.active /\ Idle.deadlines = 0
         /\ \A due \in 1..r.deadlines :
              /\ PopDue(r, due) \in RecoveryType
              /\ PopDue(r, due).active = r.active
              /\ PopDue(r, due).deadlines > 0
<1> USE FirstDelaysAssumption
<1>1. StartRecovery(r) \in RecoveryType /\ StartRecovery(r).active
      /\ StartRecovery(r).deadlines > 0
  BY DEF StartRecovery, RecoveryType
<1>2. FinishRecovery(r) = Idle /\ Idle \in RecoveryType /\ ~Idle.active /\ Idle.deadlines = 0
  BY DEF FinishRecovery, Idle, RecoveryType
<1>3. ASSUME NEW due \in 1..r.deadlines
      PROVE  /\ PopDue(r, due) \in RecoveryType
             /\ PopDue(r, due).active = r.active
             /\ PopDue(r, due).deadlines > 0
  BY DEF PopDue, RecoveryType
<1> QED
  BY <1>1, <1>2, <1>3

\* What TypeOK says of the peers' links and recoveries, and of the rest.
LinkType ==
  /\ members \subseteq started /\ started \subseteq Peer
  /\ links \in [Peer -> SUBSET Peer]
  /\ recovery \in [Peer -> RecoveryType]
  /\ met \subseteq Peer

NodeType ==
  /\ nodeLinks \in [Peer -> SUBSET Node]
  /\ dialing \in [Peer -> SUBSET (Peer \cup Node)]
  /\ listening \in [Peer -> SUBSET Node]
  /\ reserved \in [Peer -> SUBSET Node]
  /\ cookies \in [Peer -> [Node -> SUBSET Peer]]
  /\ registered \in [Node -> SUBSET Peer]
  /\ answers \subseteq Answer

\* The part of the invariant that is about links and recoveries, and the other part.
LinkInv ==
  /\ LinkType
  /\ \A p \in Peer \ members : links[p] = {} /\ recovery[p] = Idle
  /\ \A p, q \in Peer : q \in links[p] => p \in links[q]
  /\ RecoveryInv

NodeInv ==
  /\ NodeType
  /\ \A p \in Peer \ members : nodeLinks[p] = {} /\ dialing[p] = {}
  /\ \A a \in answers : a.to \in members

LEMMA Parts == IInv <=> LinkInv /\ NodeInv
BY DEF IInv, LinkInv, NodeInv, TypeOK, LinkType, NodeType, OnlyMembersTakePart, RecoveryType

\* A recovery of a peer that keeps a schedule exactly while it is active.
LEMMA Scheduled ==
  LinkInv => \A p \in Peer : /\ recovery[p] \in RecoveryType
                             /\ recovery[p].active <=> recovery[p].deadlines > 0
BY DEF LinkInv, LinkType, RecoveryInv, RecoveryIffLost, Idle

LEMMA EstablishKeeps ==
  ASSUME LinkInv, NEW p \in members, NEW q \in members, Establish(p, q),
         UNCHANGED <<members, started>>
  PROVE  LinkInv'
<1>1. p \in Peer /\ q \in Peer
  BY DEF LinkInv, LinkType
<1>2. \A r \in RecoveryType : FinishRecovery(r) = Idle
  BY DEF FinishRecovery
<1>3. Idle \in RecoveryType /\ ~Idle.active /\ Idle.deadlines = 0
  BY FirstDelaysAssumption DEF Idle, RecoveryType
<1>4. recovery' = [recovery EXCEPT ![p] = Idle, ![q] = Idle]
  BY <1>1 DEF Establish, FinishRecovery
<1>5. LinkType'
  BY <1>1, <1>3, <1>4 DEF LinkInv, LinkType, Establish
<1>6. \A r \in Peer : links'[r] = links[r] \cup {x \in {p, q} : r \in {p, q} /\ (x = p => r = q) /\ (x = q => r = p)}
  BY <1>1 DEF LinkInv, LinkType, Establish
<1>7. \A r \in Peer \ members' : links'[r] = {} /\ recovery'[r] = Idle
  BY <1>1, <1>4 DEF LinkInv, LinkType, Establish
<1>8. \A r, x \in Peer : x \in links'[r] => r \in links'[x]
  BY <1>6 DEF LinkInv
<1>9. RecoveryInv'
  <2>1. met' \subseteq started' /\ \A r \in Peer : links'[r] # {} => r \in met'
    BY <1>1 DEF LinkInv, LinkType, RecoveryInv, Establish
  <2>2. ASSUME NEW r \in members'
        PROVE  /\ recovery'[r].active <=> r \in met' /\ links'[r] = {}
               /\ recovery'[r].active <=> recovery'[r].deadlines > 0
    <3>1. CASE r \in {p, q}
      <4>1. recovery'[r] = Idle /\ links'[r] # {}
        BY <3>1, <1>1, <1>4 DEF LinkInv, LinkType, Establish
      <4> QED
        BY <4>1, <1>3
    <3>2. CASE r \notin {p, q}
      <4>1. r \in Peer /\ recovery'[r] = recovery[r] /\ links'[r] = links[r]
            /\ (r \in met' <=> r \in met)
        BY <3>2, <1>1, <1>4 DEF LinkInv, LinkType, Establish
      <4> QED
        BY <4>1 DEF LinkInv, RecoveryInv, RecoveryIffLost
    <3> QED
      BY <3>1, <3>2
  <2> QED
    BY <2>1, <2>2 DEF RecoveryInv, RecoveryIffLost
<1> QED
  BY <1>5, <1>7, <1>8, <1>9 DEF LinkInv

LEMMA CloseKeeps ==
  ASSUME LinkInv, NEW p \in members, NEW gone \in SUBSET links[p], gone # {} \/ p \notin members',
         Close(p, gone), members' \subseteq members, members \subseteq members' \cup {p},
         p \notin members' => gone = links[p],
         UNCHANGED <<started, met>>
  PROVE  LinkInv'
<1>1. p \in Peer /\ gone \subseteq Peer /\ links[p] \subseteq Peer
  BY DEF LinkInv, LinkType
<1>2. \A q \in Peer : links'[q] = IF q = p THEN links[p] \ gone
                                  ELSE IF q \in gone THEN links[q] \ {p} ELSE links[q]
  BY DEF Close
<1>3. ASSUME NEW q \in Peer
      PROVE  recovery'[q] = IF q \in (gone \cup {p}) \cap members'
                            THEN AfterClosing(q, links'[q])
                            ELSE IF q \in members' THEN recovery[q] ELSE Idle
  BY DEF Close
<1>4. ASSUME NEW q \in Peer
      PROVE  /\ AfterClosing(q, links'[q]) \in RecoveryType
             /\ links'[q] = {} => AfterClosing(q, links'[q]).active
             /\ links'[q] # {} => AfterClosing(q, links'[q]) = recovery[q]
             /\ AfterClosing(q, links'[q]).active <=> AfterClosing(q, links'[q]).deadlines > 0
  BY Scheduled, RecoveryOperations DEF AfterClosing
<1>5. Idle \in RecoveryType /\ ~Idle.active /\ Idle.deadlines = 0
  BY FirstDelaysAssumption DEF Idle, RecoveryType
<1>6. LinkType'
  <2>1. \A q \in Peer : recovery'[q] \in RecoveryType
    BY <1>3, <1>4, <1>5, Scheduled
  <2>2. recovery' \in [Peer -> RecoveryType]
    BY <2>1 DEF Close
  <2>3. links' \in [Peer -> SUBSET Peer]
    BY <1>1 DEF Close, LinkInv, LinkType
  <2> QED
    BY <2>2, <2>3 DEF LinkInv, LinkType
<1>7. \A q \in Peer \ members' : links'[q] = {} /\ recovery'[q] = Idle
  BY <1>2, <1>3 DEF LinkInv
<1>8. ASSUME NEW q \in Peer, NEW r \in Peer, r \in links'[q]
      PROVE  q \in links'[r]
  <2>0. links'[q] \subseteq links[q]
    BY <1>2
  <2>1. r \in links[q] /\ q \in links[r]
    BY <1>8, <2>0 DEF LinkInv
  <2>2. CASE q = p
    BY <1>1, <1>2, <1>8, <2>1, <2>2
  <2>3. CASE q # p /\ r = p
    BY <1>1, <1>2, <1>8, <2>1, <2>3
  <2>4. CASE q # p /\ r # p
    BY <1>1, <1>2, <1>8, <2>1, <2>4
  <2> QED
    BY <2>2, <2>3, <2>4
<1>9. RecoveryInv'
  <2>1. \A q \in Peer : links'[q] # {} => q \in met'
    BY <1>2, <1>1 DEF LinkInv, RecoveryInv
  <2>2. ASSUME NEW q \in members'
        PROVE  /\ recovery'[q].active <=> q \in met' /\ links'[q] = {}
               /\ recovery'[q].active <=> recovery'[q].deadlines > 0
    <3>1. q \in Peer /\ q \in members
      BY DEF LinkInv, LinkType
    <3>2. CASE q \in gone \cup {p}
      <4>0. q \in gone => p \in links[q]
        BY <1>1, <3>1 DEF LinkInv
      <4>1. links[q] # {}
        BY <4>0, <3>2
      <4>2. q \in met /\ recovery'[q] = AfterClosing(q, links'[q]) /\ ~recovery[q].active
        BY <4>1, <3>1, <3>2, <1>3 DEF LinkInv, RecoveryInv, RecoveryIffLost
      <4> QED
        BY <4>2, <3>1, <1>4
    <3>3. CASE q \notin gone \cup {p}
      <4>1. recovery'[q] = recovery[q] /\ links'[q] = links[q]
        BY <3>1, <3>3, <1>2, <1>3
      <4> QED
        BY <4>1, <3>1 DEF LinkInv, RecoveryInv, RecoveryIffLost
    <3> QED
      BY <3>2, <3>3
  <2> QED
    BY <2>1, <2>2 DEF LinkInv, RecoveryInv, RecoveryIffLost
<1> QED
  BY <1>6, <1>7, <1>8, <1>9 DEF LinkInv

-----------------------------------------------------------------------------
\* The steps that neither make nor break a link between peers.
LEMMA QuietKeeps ==
  ASSUME LinkInv, UNCHANGED <<members, started, links, recovery, met>>
  PROVE  LinkInv'
BY DEF LinkInv, LinkType, RecoveryInv, RecoveryIffLost

\* Registering and then asking, the peer's nodes or one, keeps the directory and the
\* answers on their way to members.
LEMMA AskKeeps ==
  ASSUME NodeInv, NEW p \in members, p \in Peer, NEW nodes \in SUBSET Node,
         NEW addresses, NEW full \in BOOLEAN, UNCHANGED members,
         SetDirectory(Discover(Register(Directory, p, nodes, addresses), p, nodes, full))
  PROVE  /\ cookies' \in [Peer -> [Node -> SUBSET Peer]]
         /\ registered' \in [Node -> SUBSET Peer]
         /\ answers' \subseteq Answer
         /\ \A a \in answers' : a.to \in members'
<1> DEFINE d == Register(Directory, p, nodes, addresses)
<1>1. Directory \in DirectoryType /\ Directory.answers = answers
  BY DEF NodeInv, NodeType, Directory, DirectoryType
<1>2. d \in DirectoryType /\ \A a \in d.answers : \E b \in answers : b.to = a.to
  BY <1>1, RegisterKeeps
<1> HIDE DEF d
<1>3. /\ Discover(d, p, nodes, full) \in DirectoryType
      /\ \A a \in Discover(d, p, nodes, full).answers : a \in d.answers \/ a.to = p
  BY <1>2, DiscoverKeeps
<1>4. SetDirectory(Discover(d, p, nodes, full))
  BY DEF d
<1> QED
  BY <1>2, <1>3, <1>4, SetDirectoryKeeps DEF NodeInv

LEMMA RegisterOnlyKeeps ==
  ASSUME NodeInv, NEW p \in Peer, NEW nodes \in SUBSET Node,
         NEW addresses, UNCHANGED members,
         SetDirectory(Register(Directory, p, nodes, addresses))
  PROVE  /\ cookies' \in [Peer -> [Node -> SUBSET Peer]]
         /\ registered' \in [Node -> SUBSET Peer]
         /\ answers' \subseteq Answer
         /\ \A a \in answers' : a.to \in members'
<1> DEFINE d == Register(Directory, p, nodes, addresses)
<1>1. Directory \in DirectoryType /\ Directory.answers = answers
  BY DEF NodeInv, NodeType, Directory, DirectoryType
<1>2. d \in DirectoryType /\ \A a \in d.answers : \E b \in answers : b.to = a.to
  BY <1>1, RegisterKeeps
<1> HIDE DEF d
<1>3. SetDirectory(d)
  BY DEF d
<1> QED
  BY <1>2, <1>3, SetDirectoryKeeps DEF NodeInv

LEMMA DiscoverOnlyKeeps ==
  ASSUME NodeInv, NEW p \in members, p \in Peer, NEW nodes \in SUBSET Node,
         NEW full \in BOOLEAN, UNCHANGED members,
         SetDirectory(Discover(Directory, p, nodes, full))
  PROVE  /\ cookies' \in [Peer -> [Node -> SUBSET Peer]]
         /\ registered' \in [Node -> SUBSET Peer]
         /\ answers' \subseteq Answer
         /\ \A a \in answers' : a.to \in members'
<1>1. Directory \in DirectoryType /\ Directory.answers = answers
  BY DEF NodeInv, NodeType, Directory, DirectoryType
<1>2. /\ Discover(Directory, p, nodes, full) \in DirectoryType
      /\ \A a \in Discover(Directory, p, nodes, full).answers : a \in answers \/ a.to = p
  BY <1>1, DiscoverKeeps
<1> QED
  BY <1>2, SetDirectoryKeeps DEF NodeInv

-----------------------------------------------------------------------------
\* Every step keeps the invariant, action by action.
LEMMA RecoveryStep == IInv /\ [Next]_vars => IInv'
<1>p. LinkInv' /\ NodeInv' => IInv'
  BY DEF IInv, LinkInv, NodeInv, TypeOK, LinkType, NodeType, OnlyMembersTakePart, RecoveryType
<1> SUFFICES ASSUME LinkInv, NodeInv, [Next]_vars
             PROVE  LinkInv' /\ NodeInv'
  BY Parts, <1>p
<1>m. members \subseteq Peer
  BY DEF LinkInv, LinkType
<1>d. \A p \in Peer : dialing[p] # {} => p \in members
  BY DEF NodeInv
<1>1. ASSUME NEW p \in Peer, NEW q \in Peer, PeerDialed(p, q)
      PROVE  LinkInv' /\ NodeInv'
  <2>1. p \in members /\ q \in members
    BY <1>1, <1>d DEF PeerDialed
  <2>2. LinkInv'
    BY <1>1, <2>1, EstablishKeeps DEF PeerDialed
  <2>3. NodeInv'
    BY <1>1 DEF PeerDialed, NodeInv, NodeType
  <2> QED
    BY <2>2, <2>3
<1>2. ASSUME NEW p \in Peer, NEW q \in Peer, PeerDialFails(p, q)
      PROVE  LinkInv' /\ NodeInv'
  <2>1. LinkInv'
    BY <1>2, QuietKeeps DEF PeerDialFails
  <2>2. NodeInv'
    BY <1>2 DEF PeerDialFails, NodeInv, NodeType
  <2> QED
    BY <2>1, <2>2
<1>3. ASSUME NEW p \in Peer, NEW q \in Peer, MeetOtherwise(p, q)
      PROVE  LinkInv' /\ NodeInv'
  <2>1. LinkInv'
    BY <1>3, EstablishKeeps DEF MeetOtherwise
  <2>2. NodeInv'
    BY <1>3 DEF MeetOtherwise, NodeInv, NodeType
  <2> QED
    BY <2>1, <2>2
<1>4. ASSUME NEW p \in Peer, NEW q \in Peer, LinkBreaks(p, q)
      PROVE  LinkInv' /\ NodeInv'
  <2>1. p \in members /\ q \in links[p]
    BY <1>4 DEF LinkBreaks, Together, LinkInv
  <2>2. LinkInv'
    BY <1>4, <2>1, CloseKeeps DEF LinkBreaks
  <2>3. NodeInv'
    BY <1>4 DEF LinkBreaks, NodeInv, NodeType
  <2> QED
    BY <2>2, <2>3
<1>5. ASSUME NEW p \in Peer, NEW n \in Node, NodeDialed(p, n)
      PROVE  LinkInv' /\ NodeInv'
  <2>1. p \in members
    BY <1>5, <1>d DEF NodeDialed
  <2>2. LinkInv'
    BY <1>5, QuietKeeps DEF NodeDialed
  <2>3. /\ cookies' \in [Peer -> [Node -> SUBSET Peer]]
        /\ registered' \in [Node -> SUBSET Peer]
        /\ answers' \subseteq Answer
        /\ \A a \in answers' : a.to \in members'
    BY <1>5, <2>1, AskKeeps DEF NodeDialed
  <2>4. NodeInv'
    BY <1>5, <2>1, <2>3 DEF NodeDialed, NodeInv, NodeType
  <2> QED
    BY <2>2, <2>4
<1>6. ASSUME NEW p \in Peer, NEW n \in Node, NodeDialFails(p, n)
      PROVE  LinkInv' /\ NodeInv'
  <2>1. LinkInv'
    BY <1>6, QuietKeeps DEF NodeDialFails
  <2>2. NodeInv'
    BY <1>6 DEF NodeDialFails, NodeInv, NodeType
  <2> QED
    BY <2>1, <2>2
<1>7. ASSUME NEW p \in Peer, NEW n \in Node, ReservationGranted(p, n)
      PROVE  LinkInv' /\ NodeInv'
  <2>1. LinkInv'
    BY <1>7, QuietKeeps DEF ReservationGranted
  <2>2. nodeLinks[p] \in SUBSET Node
    BY DEF NodeInv, NodeType
  <2>3. /\ cookies' \in [Peer -> [Node -> SUBSET Peer]]
        /\ registered' \in [Node -> SUBSET Peer]
        /\ answers' \subseteq Answer
        /\ \A a \in answers' : a.to \in members'
    BY <1>7, <2>2, RegisterOnlyKeeps DEF ReservationGranted
  <2>4. NodeInv'
    BY <1>7, <2>3 DEF ReservationGranted, NodeInv, NodeType
  <2> QED
    BY <2>1, <2>4
<1>8. ASSUME NEW p \in Peer, NEW n \in Node, NodeLinkBreaks(p, n)
      PROVE  LinkInv' /\ NodeInv'
  <2>1. LinkInv'
    BY <1>8, QuietKeeps DEF NodeLinkBreaks
  <2>2. NodeInv'
    BY <1>8 DEF NodeLinkBreaks, LoseNode, NodeInv, NodeType
  <2> QED
    BY <2>1, <2>2
<1>9. ASSUME NEW p \in Peer, NEW n \in Node, Expire(p, n)
      PROVE  LinkInv' /\ NodeInv'
  <2>1. LinkInv'
    BY <1>9, QuietKeeps DEF Expire
  <2>2. NodeInv'
    BY <1>9 DEF Expire, NodeInv, NodeType
  <2> QED
    BY <2>1, <2>2
<1>10. ASSUME NEW n \in Node, NodeRestarts(n)
       PROVE  LinkInv' /\ NodeInv'
  <2>1. LinkInv'
    BY <1>10, QuietKeeps DEF NodeRestarts
  <2>2. NodeInv'
    BY <1>10 DEF NodeRestarts, LoseNode, SetDirectory, NodeInv, NodeType
  <2> QED
    BY <2>1, <2>2
<1>11. ASSUME NEW p \in Peer, RegisterTick(p)
       PROVE  LinkInv' /\ NodeInv'
  <2>1. LinkInv'
    BY <1>11, QuietKeeps DEF RegisterTick
  <2>2. nodeLinks[p] \in SUBSET Node
    BY DEF NodeInv, NodeType
  <2>3. /\ cookies' \in [Peer -> [Node -> SUBSET Peer]]
        /\ registered' \in [Node -> SUBSET Peer]
        /\ answers' \subseteq Answer
        /\ \A a \in answers' : a.to \in members'
    BY <1>11, <2>2, RegisterOnlyKeeps DEF RegisterTick
  <2>4. NodeInv'
    BY <1>11, <2>3 DEF RegisterTick, NodeInv, NodeType
  <2> QED
    BY <2>1, <2>4
<1>12. ASSUME NEW p \in Peer, DiscoverTick(p)
       PROVE  LinkInv' /\ NodeInv'
  <2>1. LinkInv'
    BY <1>12, QuietKeeps DEF DiscoverTick
  <2>2. nodeLinks[p] \in SUBSET Node
    BY DEF NodeInv, NodeType
  <2>3. /\ cookies' \in [Peer -> [Node -> SUBSET Peer]]
        /\ registered' \in [Node -> SUBSET Peer]
        /\ answers' \subseteq Answer
        /\ \A a \in answers' : a.to \in members'
    BY <1>12, <2>2, DiscoverOnlyKeeps DEF DiscoverTick
  <2>4. NodeInv'
    BY <1>12, <2>3 DEF DiscoverTick, NodeInv, NodeType
  <2> QED
    BY <2>1, <2>4
<1>13. ASSUME NEW p \in Peer, Recover(p)
       PROVE  LinkInv' /\ NodeInv'
  <2>1. PICK due \in 1..recovery[p].deadlines :
          recovery' = [recovery EXCEPT ![p] = PopDue(@, due)]
    BY <1>13 DEF Recover
  <2>2. /\ recovery[p] \in RecoveryType
        /\ PopDue(recovery[p], due) \in RecoveryType
        /\ PopDue(recovery[p], due).active = recovery[p].active
        /\ PopDue(recovery[p], due).deadlines > 0
    BY Scheduled, RecoveryOperations
  <2>3. LinkInv'
    <3>1. LinkType'
      BY <1>13, <2>1, <2>2 DEF Recover, LinkInv, LinkType
    <3>2. \A q \in Peer : recovery'[q].active = recovery[q].active
      BY <2>1, <2>2 DEF LinkInv, LinkType
    <3>3. \A q \in members : recovery'[q].active <=> recovery'[q].deadlines > 0
      BY <1>13, <1>m, <2>1, <2>2 DEF Recover, LinkInv, LinkType, RecoveryInv, RecoveryIffLost
    <3>4. RecoveryInv'
      BY <1>13, <1>m, <3>2, <3>3 DEF Recover, LinkInv, RecoveryInv, RecoveryIffLost
    <3> QED
      BY <1>13, <2>1, <3>1, <3>4 DEF Recover, LinkInv, LinkType
  <2>4. nodeLinks[p] \in SUBSET Node
    BY DEF NodeInv, NodeType
  <2>5. /\ cookies' \in [Peer -> [Node -> SUBSET Peer]]
        /\ registered' \in [Node -> SUBSET Peer]
        /\ answers' \subseteq Answer
        /\ \A a \in answers' : a.to \in members'
    BY <1>13, <2>4, AskKeeps DEF Recover
  <2>6. NodeInv'
    BY <1>13, <2>5 DEF Recover, NodeInv, NodeType
  <2> QED
    BY <2>3, <2>6
<1>14. ASSUME NEW p \in Peer, Start(p)
       PROVE  LinkInv' /\ NodeInv'
  <2>1. p \notin members /\ p \notin met /\ links[p] = {} /\ recovery[p] = Idle
    BY <1>14 DEF Start, LinkInv, LinkType, RecoveryInv
  <2>2. LinkType'
    BY <1>14 DEF Start, LinkInv, LinkType
  <2>3. RecoveryInv'
    BY <1>14, <2>1, <1>m DEF Start, LinkInv, RecoveryInv, RecoveryIffLost, Idle
  <2>4. LinkInv'
    BY <1>14, <2>2, <2>3 DEF Start, LinkInv
  <2>5. NodeInv'
    BY <1>14 DEF Start, NodeInv, NodeType
  <2> QED
    BY <2>4, <2>5
<1>15. ASSUME NEW p \in Peer, NEW heard \in SUBSET nodeLinks[p], Leave(p, heard)
       PROVE  LinkInv' /\ NodeInv'
  <2>1. LinkInv'
    BY <1>15, CloseKeeps DEF Leave
  <2>2. NodeInv'
    BY <1>15 DEF Leave, NodeInv, NodeType
  <2> QED
    BY <2>1, <2>2
<1>16. ASSUME NEW a \in answers, Discovered(a)
       PROVE  LinkInv' /\ NodeInv'
  <2>1. LinkInv'
    BY <1>16, QuietKeeps DEF Discovered
  <2>2. a \in Answer /\ a.to \in members
    BY DEF NodeInv, NodeType
  <2>3. a.to \in Peer /\ a.node \in Node /\ a.found \subseteq Peer /\ a.covered \subseteq Peer
    BY <2>2 DEF Answer
  <2>4. NodeType'
    BY <1>16, <2>3 DEF Discovered, NodeInv, NodeType
  <2>5. NodeInv'
    BY <1>16, <2>2, <2>4 DEF Discovered, NodeInv, NodeType
  <2> QED
    BY <2>1, <2>5
<1>17. ASSUME UNCHANGED vars
       PROVE  LinkInv' /\ NodeInv'
  <2>1. LinkInv'
    BY <1>17, QuietKeeps DEF vars
  <2>2. NodeInv'
    BY <1>17 DEF vars, NodeInv, NodeType
  <2> QED
    BY <2>1, <2>2
<1> QED
  BY <1>1, <1>2, <1>3, <1>4, <1>5, <1>6, <1>7, <1>8, <1>9, <1>10, <1>11, <1>12, <1>13,
     <1>14, <1>15, <1>16, <1>17 DEF Next

\* The peers' links, reservations and timers, and what the nodes know of them, stay well
\* formed, for any peers and nodes, whatever breaks, restarts, comes and goes
\* (backend.rs, ZeroPeerRecovery and the discovery state of a node).
THEOREM RendezvousTypeCorrect == Spec => []TypeOK
<1>1. IInv => TypeOK
  BY DEF IInv
<1> QED
  BY RecoveryInit, RecoveryStep, <1>1, PTL DEF Spec

\* The recoveries run exactly as long as a peer that had room peers has none, for any
\* peers, nodes and schedule of discoveries, whatever links break, nodes restart and
\* peers come and go (backend.rs).
THEOREM RecoveryRunsIffLost == Spec => []RecoveryIffLost
<1>1. IInv => RecoveryIffLost
  BY DEF IInv, RecoveryInv
<1> QED
  BY RecoveryInit, RecoveryStep, <1>1, PTL DEF Spec
=============================================================================
