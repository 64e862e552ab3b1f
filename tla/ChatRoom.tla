------------------------------ MODULE ChatRoom ------------------------------
(***************************************************************************)
(* The chat of a room: messages are published to whoever is there, and the *)
(* peers compare their histories to fetch what they missed.  A peer tells  *)
(* how many messages it has; who has fewer asks for the whole history.     *)
(*                                                                         *)
(* Histories live in memory and every start is a new peer id, so a restart *)
(* is a peer that leaves and another one that joins with nothing.          *)
(***************************************************************************)
EXTENDS ChatHistory

CONSTANTS
  Skews,         \* how far the clocks of the peers may be ahead, one of these
  FirstPeers,    \* the peers there at first
  Leavers,       \* the peers that may shut down
  Announcers,    \* bound on who announces its history
  MaxMembers,    \* bound on the peers that are there at once
  MaxSent,       \* bound on the messages sent
  MaxLost        \* bound on the messages the network loses

ASSUME SkewsAssumption == Skews \subseteq [Peer -> Int]
ASSUME MembersAssumption == FirstPeers \cup Leavers \cup Announcers \subseteq Peer
ASSUME BoundsAssumption == {MaxMembers, MaxSent, MaxLost} \subseteq Nat

VARIABLES
  skew,       \* skew[p]: how far p's clock is ahead
  members,    \* the peers whose event loop runs
  joined,     \* the peers that ever did
  history,    \* history[p]: the records p keeps
  seen,       \* seen_messages: the ids of messages p takes for known
  asked,      \* asked[p]: whom p asked within HISTORY_REQUEST_COOLDOWN
  network,    \* what is on its way, each to one receiver
  lost,       \* how many of these got lost
  context,    \* history variable: the records each sent record's author had
  met         \* history variable: met[p]: the records p ever had in its hands

vars == <<skew, members, joined, history, seen, asked, network, lost, context, met>>

Sent == UNION {met[p] : p \in Peer}
Clock == Cardinality(DOMAIN context)

Message ==
  [type : {"Chat"}, from : Peer, to : Peer, record : Record]
    \cup [type : {"Summary"}, from : Peer, to : Peer, count : Nat, newest_at : Int]
    \cup [type : {"Request"}, from : Peer, to : Peer, known_count : Nat]
    \cup [type : {"Response"}, from : Peer, to : Peer, messages : SUBSET Record]

Init ==
  /\ skew \in Skews
  /\ members = FirstPeers
  /\ joined = FirstPeers
  /\ history = [p \in Peer |-> {}]
  /\ seen = [p \in Peer |-> {}]
  /\ asked = [p \in Peer |-> {}]
  /\ network = {}
  /\ lost = 0
  /\ context = << >>
  /\ met = [p \in Peer |-> {}]

-----------------------------------------------------------------------------
\* Mutant of Insert: a full history takes nothing more in.
InsertWhileRoom(h, r) ==
  IF Id(r) \in h.seen \/ Cardinality(h.history) = MaxMessages THEN h
  ELSE [history |-> h.history \cup {r}, seen |-> h.seen \cup {Id(r)}]

\* insert_record, for one record or, one after the other, for those of a response.
\* h is a peer's pair of history and seen ids.
Insert(h, r) ==
  IF Id(r) \in h.seen THEN h
  ELSE LET all == h.history \cup {r}
           over == Overflow(all)
       IN  [history |-> all \ over,
            seen |-> (h.seen \cup {Id(r)}) \ {Id(o) : o \in over}]

\* Takes records in, in the order they are given.
Take(p, records) ==
  LET h == FoldLeft(Insert, [history |-> history[p], seen |-> seen[p]], records)
  IN  /\ history' = [history EXCEPT ![p] = h.history]
      /\ seen' = [seen EXCEPT ![p] = h.seen]
      /\ met' = [met EXCEPT ![p] = @ \cup ToSet(records)]

Broadcast(p, message(_)) == {message(q) : q \in members \ {p}}

\* NetworkCommand::Chat
Send(p) ==
  /\ p \in members
  /\ Clock < MaxSent
  /\ LET r == [by |-> p,
               seq |-> 1 + Cardinality({id \in DOMAIN context : id[1] = p}),
               frontier |-> Frontier(history[p]),
               sent_at |-> Clock + skew[p]]
         Chat(q) == [type |-> "Chat", from |-> p, to |-> q, record |-> r]
     IN  /\ Take(p, <<r>>)
         /\ context' = [id \in DOMAIN context \cup {Id(r)} |->
                         IF id = Id(r) THEN history[p] ELSE context[id]]
         /\ network' = network \cup Broadcast(p, Chat)
  /\ UNCHANGED <<skew, members, joined, asked, lost>>

\* apply_chat_message
ReceiveChat(m) ==
  /\ m.type = "Chat"
  /\ Take(m.to, <<m.record>>)
  /\ network' = network \ {m}
  /\ UNCHANGED <<skew, members, joined, asked, lost, context>>

Summarize(p, q) ==
  [type |-> "Summary", from |-> p, to |-> q, count |-> Cardinality(history[p]),
   newest_at |-> IF history[p] = {} THEN 0 ELSE LastShownAt(history[p])]

SummariesOf(p) == {m \in network : m.type = "Summary" /\ m.from = p}

\* publish_history_summary: on a timer, and when a peer connects or subscribes.
\* Bounded to one announcement of a peer at a time on its way.
Announce(p) ==
  /\ p \in members \cap Announcers
  /\ members # {p}
  /\ SummariesOf(p) = {}
  /\ network' = network \cup Broadcast(p, LAMBDA q : Summarize(p, q))
  /\ UNCHANGED <<skew, members, joined, history, seen, asked, lost, context, met>>

ShouldRequest(p, m) == IsNewer(m, history[p]) /\ m.from \notin asked[p]

\* apply_wire_message, HistorySummary
ReceiveSummary(m) ==
  LET p == m.to
      request == [type |-> "Request", from |-> p, to |-> m.from,
                  known_count |-> Cardinality(history[p])]
  IN  /\ m.type = "Summary"
      /\ IF ShouldRequest(p, m) /\ members # {p}
         THEN /\ asked' = [asked EXCEPT ![p] = @ \cup {m.from}]
              /\ network' = (network \ {m})
                              \cup {n \in {request} : m.from \in members}
         ELSE asked' = asked /\ network' = network \ {m}
      /\ UNCHANGED <<skew, members, joined, history, seen, lost, context, met>>

\* apply_wire_message, HistoryRequest
ReceiveRequest(m) ==
  LET p == m.to
      response == [type |-> "Response", from |-> p, to |-> m.from,
                   messages |-> history[p]]
  IN  /\ m.type = "Request"
      /\ network' = (network \ {m})
                      \cup {n \in {response} : /\ Cardinality(history[p]) > m.known_count
                                               /\ m.from \in members}
      /\ UNCHANGED <<skew, members, joined, history, seen, asked, lost, context, met>>

\* apply_wire_message, HistoryResponse
ReceiveResponse(m) ==
  /\ m.type = "Response"
  /\ Take(m.to, Sorted[m.messages])
  /\ network' = network \ {m}
  /\ UNCHANGED <<skew, members, joined, asked, lost, context>>

Receive(m) ==
  \/ ReceiveChat(m)
  \/ ReceiveSummary(m)
  \/ ReceiveRequest(m)
  \/ ReceiveResponse(m)

\* HISTORY_REQUEST_COOLDOWN is over; bounded to when nothing p asked q for is still on
\* its way.
CoolDown(p, q) ==
  /\ q \in asked[p]
  /\ \A m \in network : ~ \/ m.type = "Request" /\ m.from = p /\ m.to = q
                          \/ m.type = "Response" /\ m.from = q /\ m.to = p
  /\ asked' = [asked EXCEPT ![p] = @ \ {q}]
  /\ UNCHANGED <<skew, members, joined, history, seen, network, lost, context, met>>

\* A new peer starts: it has nothing and knows of nobody.
Join(p) ==
  /\ p \notin joined
  /\ Cardinality(members) < MaxMembers
  /\ members' = members \cup {p}
  /\ joined' = joined \cup {p}
  /\ UNCHANGED <<skew, history, seen, asked, network, lost, context, met>>

\* A peer shuts down or crashes; what it has sent may still arrive.
Leave(p) ==
  /\ p \in members \cap Leavers
  /\ members' = members \ {p}
  /\ network' = {m \in network : m.to # p}
  /\ UNCHANGED <<skew, joined, history, seen, asked, lost, context, met>>

\* A message that does not reach one of its receivers.
Lose(m) ==
  /\ lost < MaxLost
  /\ lost' = lost + 1
  /\ network' = network \ {m}
  /\ UNCHANGED <<skew, members, joined, history, seen, asked, context, met>>

Next ==
  \/ \E p \in Peer : Send(p) \/ Announce(p) \/ Join(p) \/ Leave(p)
  \/ \E p, q \in Peer : CoolDown(p, q)
  \/ \E m \in network : Receive(m) \/ Lose(m)

OnItsWay(p, q, type) ==
  \E m \in network : m.type = type /\ m.from = q /\ m.to = p

\* The announcements are on a timer and the cooldown is a matter of time.  The network
\* delivers or loses everything of the exchange in the end; a chat message that is on
\* its way for ever is a lost one.
Fairness ==
  \A p \in Peer :
    /\ WF_vars(Announce(p))
    /\ \A q \in Peer \ {p} :
         /\ WF_vars(CoolDown(p, q))
         /\ \A type \in {"Summary", "Request", "Response"} :
              []<>~OnItsWay(p, q, type)

Spec == Init /\ [][Next]_vars
FairSpec == Spec /\ Fairness

-----------------------------------------------------------------------------
ClocksAgree == \A p, q \in Peer : skew[p] = skew[q]

TypeOK ==
  /\ skew \in Skews
  /\ members \subseteq joined /\ joined \subseteq Peer
  /\ \A p \in Peer :
       /\ history[p] \subseteq met[p]
       /\ Cardinality(history[p]) <= MaxMessages
       /\ asked[p] \subseteq Peer \ {p}
  /\ network \subseteq Message
  /\ \A id \in DOMAIN context : context[id] \subseteq Sent

\* A message is shown after those of the shown that its author had before it when it
\* was written, however far the clocks are apart and in whatever order the messages
\* came (sort_history_causally, history_frontier).
CausalOrder ==
  \A p \in Peer :
    LET shown == Sorted[history[p]]
    IN  \A i, j \in 1..Len(shown) :
          i < j => shown[j] \notin context[Id(shown[i])]

\* With agreeing clocks a peer keeps the newest of all it ever got: what it does not
\* have any more, or again, was older than each of the messages that fill its history,
\* also when others that still hold a dropped message send it again (insert_record).
NewestAreKept ==
  ClocksAgree =>
    \A p \in Peer : \A r \in met[p] \ history[p] :
      /\ Cardinality(history[p]) = MaxMessages
      /\ \A k \in history[p] : Earlier(r, k)

\* Whatever the clocks say, a message that falls out of a full history does not leave
\* one behind that its author had before it: nobody sees a question without the answer
\* he once saw (insert_record drains from the front of the order).  A response brings
\* several messages, one of them maybe that very question after the answer went; with
\* clocks that agree it goes at once.
AnswersGoLast ==
  [][ClocksAgree \/ (\A m \in network \ network' : m.type # "Response") =>
       \A p \in Peer : \A gone \in history[p] \ history'[p] :
         context[Id(gone)] \cap history'[p] = {}]_vars

\* Once nobody writes or leaves any more, the peers of a room come to hold equally many
\* messages, so that nobody misses something without another message in its place
\* (publish_history_summary, history_summary_is_newer and the request and response).
HistoriesLevelOut ==
  <>[](\A p, q \in members : Cardinality(history[p]) = Cardinality(history[q]))
=============================================================================
