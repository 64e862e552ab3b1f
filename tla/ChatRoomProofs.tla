-------------------------- MODULE ChatRoomProofs ---------------------------
(***************************************************************************)
(* Proofs about ChatRoom, for every number of peers, of messages kept and  *)
(* sent, all clocks and any loss.                                          *)
(*                                                                         *)
(* Two definitions recurse: Sorted over the layers of a history, and the   *)
(* fold that inserts the records of a response.  Induction on a number is  *)
(* done here about the set of the numbers for which something holds        *)
(* (AllNumbers), which is also how a function that recurses is shown to    *)
(* exist (Recursion).                                                      *)
(*                                                                         *)
(* The invariant (ChatInv) gives every sent record the time at which it    *)
(* was sent, its author's clock without the skew.  A record depends only   *)
(* on earlier ones (PastOK): what its frontier says of an author is below  *)
(* the ids which that author gives later.  So there is no circle of        *)
(* dependencies, every layer of the order is that of records that depend   *)
(* on nothing left, and the first one shown, which goes when the history   *)
(* is full, depends on nothing that stays.  With agreeing clocks it is     *)
(* also the oldest.                                                        *)
(***************************************************************************)
EXTENDS ChatRoom, FiniteSetTheorems, WellFoundedInduction, TLAPS
-----------------------------------------------------------------------------
(* Recursion: what is defined along a measure exists and is determined by it. *)

LEMMA LeastNumber ==
  ASSUME NEW T \in SUBSET Nat, T # {}
  PROVE  \E n \in T : \A k \in T : n <= k
<1>1. PICK n \in T : \A k \in T : <<k, n>> \notin OpToRel(<, Nat)
  BY NatLessThanWellFounded, WFMin
<1>2. \A k \in T : ~(k < n)
  BY <1>1 DEF OpToRel
<1>3. QED
  BY <1>2

(* Induction on numbers, about a set of them. *)
LEMMA AllNumbers ==
  ASSUME NEW T, 0 \in T, \A n \in Nat : n \in T => n + 1 \in T
  PROVE  Nat \subseteq T
<1>1. SUFFICES ASSUME Nat \ T # {} PROVE FALSE
  OBVIOUS
<1>2. PICK n \in Nat \ T : \A k \in Nat \ T : n <= k
  BY <1>1, LeastNumber
<1>3. n # 0
  BY <1>2
<1>4. n - 1 \in Nat /\ n - 1 \in T
  BY <1>2, <1>3
<1>5. QED
  BY <1>2, <1>4

\* What a function f has at s according to its values at what s goes down to.
RecursionAt(m, down, base, step, f, s) ==
  IF m[s] = 0 THEN base[s] ELSE step[<<s, f[down[s]]>>]

\* They define a function from D to V.
IsRecursive(D, V, m, down, base, step) ==
  /\ m \in [D -> Nat] /\ down \in [D -> D]
  /\ base \in [D -> V] /\ step \in [D \X V -> V]
  /\ \A s \in D : m[s] # 0 => m[down[s]] < m[s]

(* There is a function that is defined at s by its value at something smaller. *)
LEMMA Recursion ==
  ASSUME NEW D, NEW V, NEW m, NEW down, NEW base, NEW step,
         IsRecursive(D, V, m, down, base, step)
  PROVE  \E f \in [D -> V] : \A s \in D : f[s] = RecursionAt(m, down, base, step, f, s)
<1> DEFINE At(f, s) == RecursionAt(m, down, base, step, f, s)
           UpTo(n) == {f \in [D -> V] : \A s \in D : m[s] < n => f[s] = At(f, s)}
<1> USE DEF IsRecursive
<1>1. \A f \in [D -> V], s \in D : At(f, s) \in V
  BY DEF RecursionAt
<1>2. \A n \in Nat : \A f \in UpTo(n), s \in D : m[s] <= n /\ m[s] # 0 =>
        f[down[s]] = At(f, down[s])
  <2> SUFFICES ASSUME NEW n \in Nat, NEW f \in UpTo(n), NEW s \in D, m[s] <= n, m[s] # 0
               PROVE  f[down[s]] = At(f, down[s])
    OBVIOUS
  <2>1. down[s] \in D /\ m[down[s]] < n
    OBVIOUS
  <2>2. QED
    BY <2>1
<1>3. \A n \in Nat : UpTo(n) # {}
  <2> DEFINE T == {n \in Nat : UpTo(n) # {}}
  <2>1. 0 \in T
    <3>1. base \in UpTo(0)
      OBVIOUS
    <3>2. QED
      BY <3>1
  <2>2. ASSUME NEW n \in Nat, n \in T PROVE n + 1 \in T
    <3>1. PICK f \in UpTo(n) : TRUE
      BY <2>2
    <3> DEFINE g == [s \in D |-> At(f, s)]
    <3>2. g \in [D -> V]
      BY <1>1, <3>1
    <3>3. ASSUME NEW s \in D, m[s] < n + 1 PROVE g[s] = At(g, s)
      <4>1. CASE m[s] = 0
        BY <4>1 DEF RecursionAt
      <4>2. CASE m[s] # 0
        <5>1. m[s] <= n /\ down[s] \in D
          BY <3>3
        <5>2. f[down[s]] = At(f, down[s])
          BY <1>2, <3>1, <4>2, <5>1
        <5>3. f[down[s]] = g[down[s]]
          BY <5>1, <5>2
        <5>4. QED
          BY <5>3 DEF RecursionAt
      <4>3. QED
        BY <4>1, <4>2
    <3> HIDE DEF g
    <3>4. g \in UpTo(n + 1)
      BY <3>2, <3>3
    <3> HIDE DEF UpTo
    <3>5. QED
      BY <3>4
  <2> HIDE DEF T
  <2>3. Nat \subseteq T
    BY <2>1, <2>2, AllNumbers
  <2>4. QED
    BY <2>3 DEF T
<1>4. \A n \in Nat : \A f, g \in UpTo(n) : \A s \in D : m[s] < n => f[s] = g[s]
  <2> DEFINE T == {n \in Nat : \A f, g \in UpTo(n) : \A s \in D : m[s] < n => f[s] = g[s]}
  <2>1. 0 \in T
    OBVIOUS
  <2>2. ASSUME NEW n \in Nat, n \in T PROVE n + 1 \in T
    <3>1. SUFFICES ASSUME NEW f \in UpTo(n + 1), NEW g \in UpTo(n + 1),
                          NEW s \in D, m[s] < n + 1
                   PROVE  f[s] = g[s]
      OBVIOUS
    <3>2. f \in UpTo(n) /\ g \in UpTo(n)
      OBVIOUS
    <3>3. f[s] = At(f, s) /\ g[s] = At(g, s)
      BY <3>1
    <3>4. CASE m[s] = 0
      BY <3>3, <3>4 DEF RecursionAt
    <3>5. CASE m[s] # 0
      <4>1. down[s] \in D /\ m[down[s]] < n
        BY <3>1, <3>5
      <4>2. f[down[s]] = g[down[s]]
        BY <2>2, <3>2, <4>1
      <4>3. QED
        BY <3>3, <3>5, <4>2 DEF RecursionAt
    <3>6. QED
      BY <3>4, <3>5
  <2> HIDE DEF T
  <2>3. Nat \subseteq T
    BY <2>1, <2>2, AllNumbers
  <2>4. QED
    BY <2>3 DEF T
<1> DEFINE F(n) == CHOOSE f \in UpTo(n) : TRUE
           h == [s \in D |-> F(m[s] + 1)[s]]
<1>5. \A n \in Nat : F(n) \in UpTo(n)
  BY <1>3
<1> HIDE DEF F, UpTo
<1>6. \A n \in Nat, s \in D : m[s] < n => F(n)[s] = h[s]
  <2> SUFFICES ASSUME NEW n \in Nat, NEW s \in D, m[s] < n PROVE F(n)[s] = h[s]
    OBVIOUS
  <2>1. m[s] + 1 \in Nat
    OBVIOUS
  <2>2. F(m[s] + 1) \in UpTo(m[s] + 1) /\ F(n) \in UpTo(n)
    BY <1>5, <2>1
  <2>3. F(n) \in UpTo(m[s] + 1)
    BY <2>2 DEF UpTo
  <2>4. F(n)[s] = F(m[s] + 1)[s]
    BY <1>4, <2>1, <2>2, <2>3
  <2>5. QED
    BY <2>4
<1>7. h \in [D -> V]
  BY <1>5 DEF UpTo
<1>8. ASSUME NEW s \in D PROVE h[s] = At(h, s)
  <2> DEFINE f == F(m[s] + 1)
  <2>1. f \in UpTo(m[s] + 1)
    BY <1>5
  <2>2. h[s] = At(f, s)
    BY <2>1 DEF UpTo
  <2>3. m[s] # 0 => f[down[s]] = h[down[s]]
    <3>1. m[s] # 0 => down[s] \in D /\ m[down[s]] < m[s] + 1
      OBVIOUS
    <3>2. QED
      BY <1>6, <3>1
  <2>4. QED
    BY <2>2, <2>3 DEF RecursionAt
<1>9. QED
  BY <1>7, <1>8

LEMMA GreatestNumber ==
  ASSUME NEW T \in SUBSET Nat, T # {}, NEW b \in Nat, \A x \in T : x <= b
  PROVE  Max(T) \in T /\ \A x \in T : x <= Max(T)
<1> DEFINE U == {b - x : x \in T}
<1>1. U \in SUBSET Nat /\ U # {}
  <2>1. \A x \in T : x \in Nat /\ x <= b
    OBVIOUS
  <2>2. \A x \in T : b - x \in Nat
    BY <2>1
  <2>3. QED
    BY <2>2
<1>2. PICK u \in U : \A k \in U : u <= k
  <2> HIDE DEF U
  <2>1. QED
    BY <1>1, LeastNumber
<1>3. PICK x \in T : u = b - x
  BY <1>2
<1>4. \A y \in T : y <= x
  <2> TAKE y \in T
  <2>1. b - x <= b - y
    BY <1>2, <1>3
  <2>2. QED
    BY <2>1
<1>5. QED
  BY <1>3, <1>4 DEF Max
-----------------------------------------------------------------------------
(* Insertion *)

\* A peer's pair of history and seen ids.
Pair == [history : SUBSET Record, seen : SUBSET (Peer \X Nat)]

LEMMA InsertType ==
  ASSUME NEW h \in Pair, NEW r \in Record
  PROVE  Insert(h, r) \in Pair
<1>1. Id(r) \in Peer \X Nat
  BY DEF Id, Record
<1>2. QED
  BY <1>1 DEF Insert, Pair

(* The records of a sequence are inserted one after the other. *)
LEMMA InsertedInTurn ==
  ASSUME NEW h \in Pair, NEW records \in Seq(Record)
  PROVE  \E kept \in [0..Len(records) -> Pair] :
           /\ kept[0] = h
           /\ \A i \in 1..Len(records) : kept[i] = Insert(kept[i - 1], records[i])
           /\ kept[Len(records)] = FoldLeft(Insert, h, records)
<1> DEFINE n == Len(records)
           D == SUBSET (1..n)
           m == [s \in D |-> Cardinality(s)]
           down == [s \in D |-> s \ {Max(s)}]
           base == [s \in D |-> h]
           step == [x \in D \X Pair |->
                      IF x[1] = {} THEN h ELSE Insert(x[2], records[Max(x[1])])]
           Taken(s, f) == IF s = {} THEN h ELSE Insert(f[s \ {Max(s)}], records[Max(s)])
<1>1. n \in Nat /\ DOMAIN records = 1..n /\ \A i \in 1..n : records[i] \in Record
  OBVIOUS
<1>2. ASSUME NEW s \in D, s # {} PROVE Max(s) \in s /\ \A x \in s : x <= Max(s)
  <2>1. s \in SUBSET Nat /\ \A x \in s : x <= n
    BY <1>1
  <2>2. QED
    BY <1>1, <1>2, <2>1, GreatestNumber
<1>3. ASSUME NEW s \in D PROVE IsFiniteSet(s) /\ Cardinality(s) \in Nat
  <2>1. IsFiniteSet(1..n)
    BY <1>1, FS_Interval
  <2>2. IsFiniteSet(s)
    BY <2>1, FS_Subset
  <2>3. QED
    BY <2>2, FS_CardinalityType
<1>4. m \in [D -> Nat] /\ down \in [D -> D] /\ base \in [D -> Pair]
  BY <1>3
<1>5. step \in [D \X Pair -> Pair]
  <2>1. ASSUME NEW x \in D \X Pair, x[1] # {}
        PROVE  Insert(x[2], records[Max(x[1])]) \in Pair
    <3>1. x[1] \in D /\ x[2] \in Pair
      OBVIOUS
    <3>2. records[Max(x[1])] \in Record
      BY <1>1, <1>2, <2>1, <3>1
    <3>3. QED
      BY <3>1, <3>2, InsertType
  <2>2. QED
    BY <2>1
<1>6. \A s \in D : m[s] # 0 => m[down[s]] < m[s]
  <2> SUFFICES ASSUME NEW s \in D, m[s] # 0 PROVE m[down[s]] < m[s]
    OBVIOUS
  <2>1. s # {}
    BY FS_EmptySet
  <2>2. Max(s) \in s
    BY <1>2, <2>1
  <2>3. Cardinality(s \ {Max(s)}) = Cardinality(s) - 1
    BY <1>3, <2>2, FS_RemoveElement
  <2>4. m[down[s]] = Cardinality(s \ {Max(s)}) /\ m[s] = Cardinality(s)
    OBVIOUS
  <2>5. QED
    BY <1>3, <2>3, <2>4
<1>7. \E f : f = [s \in D |-> Taken(s, f)]
  <2> HIDE DEF D, m, down, base, step
  <2>0. IsRecursive(D, Pair, m, down, base, step)
    BY <1>4, <1>5, <1>6 DEF IsRecursive
  <2>1. PICK f \in [D -> Pair] : \A s \in D : f[s] = RecursionAt(m, down, base, step, f, s)
    BY <2>0, Recursion
  <2>2. ASSUME NEW s \in D PROVE f[s] = Taken(s, f)
    <3>1. f[s] = RecursionAt(m, down, base, step, f, s)
      BY <2>1
    <3>2. m[s] = Cardinality(s) /\ base[s] = h /\ down[s] = s \ {Max(s)} /\ down[s] \in D
      BY <1>4 DEF m, base, down
    <3>3. CASE s = {}
      BY <3>1, <3>2, <3>3, FS_EmptySet DEF RecursionAt
    <3>4. CASE s # {}
      <4>1. m[s] # 0
        BY <1>3, <3>2, <3>4, FS_EmptySet
      <4>2. f[down[s]] \in Pair
        BY <2>1, <3>2
      <4>3. step[<<s, f[down[s]]>>] = Insert(f[down[s]], records[Max(s)])
        BY <3>4, <4>2 DEF step
      <4>4. QED
        BY <3>1, <3>2, <3>4, <4>1, <4>3 DEF RecursionAt
    <3>5. QED
      BY <3>3, <3>4
  <2>3. f = [s \in D |-> Taken(s, f)]
    BY <2>1, <2>2
  <2>4. QED
    BY <2>3
<1> DEFINE g == CHOOSE f : f = [s \in D |-> Taken(s, f)]
<1>8. g = [s \in D |-> Taken(s, g)]
  BY <1>7
<1>9. FoldLeft(Insert, h, records) = g[1..n]
  BY <1>1 DEF FoldLeft, MapThenFoldSet
<1> DEFINE kept == [i \in 0..n |-> g[1..i]]
<1>10. kept[0] = h
  <2>1. kept[0] = g[{}]
    BY <1>1
  <2> HIDE DEF g
  <2>2. QED
    BY <1>8, <2>1
<1>11. ASSUME NEW i \in 1..n PROVE g[1..i] = Insert(g[1..(i - 1)], records[i])
  <2>0. i \in Nat /\ 1 <= i /\ i <= n
    BY <1>1
  <2>1. 1..i \in D /\ 1..i # {} /\ i \in 1..i
    <3>1. i \in 1..i
      BY <2>0
    <3>2. 1..i \subseteq 1..n
      BY <1>1, <2>0
    <3>3. QED
      BY <3>1, <3>2
  <2>2. Max(1..i) = i
    <3>1. Max(1..i) \in 1..i /\ i <= Max(1..i)
      <4> HIDE DEF D
      <4>1. QED
        BY <1>2, <2>1
    <3>2. QED
      BY <2>0, <3>1
  <2>3. (1..i) \ {i} = 1..(i - 1)
    BY <2>0
  <2>4. g[1..i] = Taken(1..i, g)
    <3> HIDE DEF D, g, Taken
    <3>1. QED
      BY <1>8, <2>1
  <2>5. QED
    <3> HIDE DEF g
    <3>1. QED
      BY <2>1, <2>2, <2>3, <2>4
<1>12. \A i \in 0..n : g[1..i] \in Pair
  <2> DEFINE T == {i \in Nat : i <= n => g[1..i] \in Pair}
  <2> HIDE DEF g
  <2>1. 0 \in T
    BY <1>10
  <2>2. ASSUME NEW i \in Nat, i \in T PROVE i + 1 \in T
    <3>1. SUFFICES ASSUME i + 1 <= n PROVE g[1..(i + 1)] \in Pair
      OBVIOUS
    <3>2. g[1..i] \in Pair /\ records[i + 1] \in Record /\ i + 1 \in 1..n
      BY <1>1, <2>2, <3>1
    <3>3. g[1..(i + 1)] = Insert(g[1..(i + 1 - 1)], records[i + 1])
      BY <1>11, <3>2
    <3>4. QED
      BY <3>2, <3>3, InsertType
  <2> HIDE DEF T
  <2>3. Nat \subseteq T
    BY <2>1, <2>2, AllNumbers
  <2>4. QED
    BY <1>1, <2>3 DEF T
<1> HIDE DEF g
<1>13. kept \in [0..n -> Pair]
  BY <1>12
<1>14. \A i \in 1..n : kept[i] = Insert(kept[i - 1], records[i])
  BY <1>1, <1>11
<1>15. kept[n] = FoldLeft(Insert, h, records)
  BY <1>1, <1>9
<1> HIDE DEF kept
<1>16. QED
  BY <1>10, <1>13, <1>14, <1>15
-----------------------------------------------------------------------------
(* The order of time *)

LEMMA EarlierOrder ==
  ASSUME NEW r \in Record, NEW other \in Record, NEW last \in Record
  PROVE  /\ ~Earlier(r, r)
         /\ ~(Earlier(r, other) /\ Earlier(other, r))
         /\ Earlier(r, other) /\ Earlier(other, last) => Earlier(r, last)
<1>1. \A x \in Record : x.by \in Nat /\ x.sent_at \in Int
  BY PeerAssumption DEF Record
<1>2. QED
  BY <1>1 DEF Earlier

LEMMA PartOfHistory ==
  ASSUME NEW all \in Histories, NEW part \in SUBSET all
  PROVE  part \in Histories /\ Cardinality(part) \in Nat
<1>1. IsFiniteSet(part)
  BY FS_Subset DEF Histories
<1>2. QED
  BY <1>1, FS_CardinalityType DEF Histories

LEMMA EarliestExists ==
  ASSUME NEW records \in Histories, records # {}
  PROVE  \E r \in records : \A other \in records \ {r} : Earlier(r, other)
<1> DEFINE Found(R) == \E r \in R : \A other \in R \ {r} : Earlier(r, other)
           T == {n \in Nat : \A R \in Histories : R # {} /\ Cardinality(R) = n => Found(R)}
<1>1. 0 \in T
  BY FS_EmptySet DEF Histories
<1>2. ASSUME NEW n \in Nat, n \in T PROVE n + 1 \in T
  <2>1. SUFFICES ASSUME NEW R \in Histories, R # {}, Cardinality(R) = n + 1
                 PROVE  Found(R)
    OBVIOUS
  <2>2. PICK x \in R : TRUE
    BY <2>1
  <2> DEFINE rest == R \ {x}
  <2>3. rest \in Histories /\ Cardinality(rest) = n
    <3>1. IsFiniteSet(R)
      BY DEF Histories
    <3>2. Cardinality(R \ {x}) = n
      BY <2>1, <2>2, <3>1, FS_RemoveElement
    <3>3. R \ {x} \in Histories
      BY <2>1, PartOfHistory
    <3>4. QED
      BY <3>2, <3>3
  <2>4. CASE rest = {}
    BY <2>2, <2>4
  <2>5. CASE rest # {}
    <3>1. PICK r \in rest : \A other \in rest \ {r} : Earlier(r, other)
      BY <1>2, <2>3, <2>5
    <3>2. Earlier(r, x) \/ Earlier(x, r)
      BY <2>2, <3>1 DEF Histories
    <3>3. CASE Earlier(r, x)
      BY <3>1, <3>3
    <3>4. CASE Earlier(x, r)
      <4>1. \A other \in R \ {x} : Earlier(x, other)
        <5> TAKE other \in R \ {x}
        <5>1. x \in Record /\ r \in Record /\ other \in Record
          BY <2>2, <3>1 DEF Histories
        <5>2. QED
          BY <3>1, <3>4, <5>1, EarlierOrder
      <4>2. QED
        BY <2>2, <4>1
    <3>5. QED
      BY <3>2, <3>3, <3>4
  <2>6. QED
    BY <2>4, <2>5
<1> HIDE DEF T
<1>3. Nat \subseteq T
  BY <1>1, <1>2, AllNumbers
<1>4. Cardinality(records) \in Nat
  BY PartOfHistory
<1>5. QED
  BY <1>3, <1>4 DEF T

IsInOrder(s) == \A i, j \in DOMAIN s : i < j => Earlier(s[i], s[j])

LEMMA OrderExists ==
  ASSUME NEW records \in Histories
  PROVE  \E s \in [1..Cardinality(records) -> records] : IsInOrder(s)
<1> DEFINE T == {n \in Nat : \A R \in Histories :
                   Cardinality(R) = n => \E s \in [1..n -> R] : IsInOrder(s)}
<1>1. 0 \in T
  <2> SUFFICES ASSUME NEW R \in Histories
               PROVE  \E s \in [1..0 -> R] : IsInOrder(s)
    OBVIOUS
  <2>1. [i \in 1..0 |-> 0] \in [1..0 -> R] /\ IsInOrder([i \in 1..0 |-> 0])
    BY DEF IsInOrder
  <2>2. QED
    BY <2>1
<1>2. ASSUME NEW n \in Nat, n \in T PROVE n + 1 \in T
  <2>1. SUFFICES ASSUME NEW R \in Histories, Cardinality(R) = n + 1
                 PROVE  \E s \in [1..(n + 1) -> R] : IsInOrder(s)
    OBVIOUS
  <2>2. IsFiniteSet(R) /\ R # {}
    BY <2>1, FS_EmptySet DEF Histories
  <2>3. PICK r \in R : \A other \in R \ {r} : Earlier(r, other)
    BY <2>2, EarliestExists
  <2>4. R \ {r} \in Histories /\ Cardinality(R \ {r}) = n
    BY <2>1, <2>2, <2>3, FS_RemoveElement, PartOfHistory
  <2>5. PICK t \in [1..n -> R \ {r}] : IsInOrder(t)
    BY <1>2, <2>4
  <2> DEFINE s == [i \in 1..(n + 1) |-> IF i = 1 THEN r ELSE t[i - 1]]
  <2>6. \A i \in 1..(n + 1) : i # 1 => i - 1 \in 1..n /\ t[i - 1] \in R \ {r}
    BY <2>5
  <2>7. s \in [1..(n + 1) -> R]
    BY <2>3, <2>6
  <2>8. ASSUME NEW i \in 1..(n + 1), NEW j \in 1..(n + 1), i < j
        PROVE  Earlier(s[i], s[j])
    <3>1. j # 1 /\ s[j] = t[j - 1] /\ t[j - 1] \in R \ {r}
      BY <2>6, <2>8
    <3>2. CASE i = 1
      BY <2>3, <3>1, <3>2
    <3>3. CASE i # 1
      <4>1. s[i] = t[i - 1] /\ i - 1 \in 1..n /\ j - 1 \in 1..n /\ i - 1 < j - 1
        BY <2>6, <2>8, <3>1, <3>3
      <4>2. DOMAIN t = 1..n
        OBVIOUS
      <4>3. Earlier(t[i - 1], t[j - 1])
        BY <2>5, <4>1, <4>2 DEF IsInOrder
      <4>4. QED
        BY <3>1, <4>1, <4>3
    <3>4. QED
      BY <3>2, <3>3
  <2>9. IsInOrder(s)
    BY <2>8 DEF IsInOrder
  <2> HIDE DEF s
  <2>10. QED
    BY <2>7, <2>9
<1> HIDE DEF T
<1>3. Nat \subseteq T
  BY <1>1, <1>2, AllNumbers
<1>4. Cardinality(records) \in Nat
  BY PartOfHistory
<1>5. QED
  BY <1>3, <1>4 DEF T

(* It lists each of the records, the earliest first. *)
LEMMA InOrderOfTimeIs ==
  ASSUME NEW records \in Histories
  PROVE  LET s == InOrderOfTime(records)
         IN  /\ s \in Seq(records)
             /\ Len(s) = Cardinality(records)
             /\ \A r \in records : \E i \in 1..Len(s) : s[i] = r
             /\ records # {} => \A r \in records \ {s[1]} : Earlier(s[1], r)
<1> DEFINE s == InOrderOfTime(records)
           n == Cardinality(records)
<1>1. n \in Nat /\ IsFiniteSet(records)
  BY PartOfHistory DEF Histories
<1>2. s \in [1..n -> records] /\ IsInOrder(s)
  BY OrderExists DEF InOrderOfTime, IsInOrder
<1> HIDE DEF s
<1>3. s \in Seq(records) /\ Len(s) = n
  BY <1>1, <1>2
<1>4. s \in Injection(1..n, records)
  <2>1. ASSUME NEW i \in 1..n, NEW j \in 1..n, s[i] = s[j] PROVE i = j
    <3>1. s[i] \in Record /\ DOMAIN s = 1..n
      BY <1>2 DEF Histories
    <3>2. ~Earlier(s[i], s[i])
      BY <3>1, EarlierOrder
    <3>3. ~(i < j) /\ ~(j < i)
      BY <1>2, <2>1, <3>1, <3>2 DEF IsInOrder
    <3>4. QED
      BY <1>1, <3>3
  <2>2. QED
    BY <1>2, <2>1 DEF Injection, IsInjective
<1>5. s \in Surjection(1..n, records)
  <2>1. IsFiniteSet(1..n) /\ Cardinality(1..n) = n
    BY <1>1, FS_Interval
  <2>2. QED
    BY <1>1, <1>4, <2>1, FS_Injection
<1>6. ASSUME NEW r \in records PROVE \E i \in 1..n : s[i] = r
  BY <1>5 DEF Surjection
<1>7. ASSUME NEW r \in records \ {s[1]} PROVE Earlier(s[1], r)
  <2>1. PICK i \in 1..n : s[i] = r
    BY <1>6
  <2>2. 1 \in 1..n /\ 1 < i /\ DOMAIN s = 1..n
    BY <1>1, <1>2, <1>7, <2>1
  <2>3. QED
    BY <1>2, <2>1, <2>2 DEF IsInOrder
<1>8. QED
  BY <1>3, <1>6, <1>7 DEF s
-----------------------------------------------------------------------------
(* The order of a history *)

LEMMA ReadyIs ==
  ASSUME NEW records \in Histories, records # {}
  PROVE  /\ Ready(records) # {} /\ Ready(records) \subseteq records
         /\ Ready(records) \in Histories /\ records \ Ready(records) \in Histories
         /\ Cardinality(records \ Ready(records)) < Cardinality(records)
<1> DEFINE R == Ready(records)
<1>1. R \subseteq records
  BY DEF Ready
<1>2. R # {}
  BY EarliestExists DEF Ready
<1> HIDE DEF R
<1>3. R \in Histories /\ records \ R \in Histories
  BY <1>1, PartOfHistory
<1>4. Cardinality(records \ R) < Cardinality(records)
  <2>1. IsFiniteSet(records) /\ records \ R \in SUBSET records /\ records \ R # records
    BY <1>1, <1>2 DEF Histories
  <2>2. /\ Cardinality(records \ R) <= Cardinality(records)
        /\ Cardinality(records) = Cardinality(records \ R) => records = records \ R
    BY <2>1, FS_Subset
  <2>3. Cardinality(records \ R) \in Nat /\ Cardinality(records) \in Nat
    BY <1>3, PartOfHistory
  <2>4. QED
    BY <2>1, <2>2, <2>3
<1>5. QED
  BY <1>1, <1>2, <1>3, <1>4 DEF R

(* Sorted is defined as it is written. *)
LEMMA SortedDefined ==
  /\ Sorted \in [Histories -> Seq(Record)]
  /\ \A records \in Histories : Sorted[records] =
       IF records = {} THEN <<>>
       ELSE InOrderOfTime(Ready(records)) \o Sorted[records \ Ready(records)]
<1> DEFINE D == Histories
           V == Seq(Record)
           m == [s \in D |-> Cardinality(s)]
           down == [s \in D |-> IF s = {} THEN {} ELSE s \ Ready(s)]
           base == [s \in D |-> <<>>]
           step == [x \in D \X V |->
                      IF x[1] = {} THEN <<>> ELSE InOrderOfTime(Ready(x[1])) \o x[2]]
           Shown(s, f) == IF s = {} THEN <<>> ELSE InOrderOfTime(Ready(s)) \o f[s \ Ready(s)]
<1>1. {} \in D /\ \A s \in D : IsFiniteSet(s) /\ (Cardinality(s) = 0 <=> s = {})
  BY FS_EmptySet DEF Histories
<1>2. m \in [D -> Nat]
  BY PartOfHistory
<1>3. down \in [D -> D]
  BY <1>1, ReadyIs
<1>4. base \in [D -> V]
  OBVIOUS
<1>5. ASSUME NEW s \in D, s # {} PROVE InOrderOfTime(Ready(s)) \in V
  <2>1. Ready(s) \in Histories
    BY <1>5, ReadyIs
  <2>2. InOrderOfTime(Ready(s)) \in Seq(Ready(s))
    BY <2>1, InOrderOfTimeIs
  <2>3. Ready(s) \subseteq Record
    BY <2>1 DEF Histories
  <2>4. QED
    BY <2>2, <2>3
<1>6. step \in [D \X V -> V]
  <2>1. ASSUME NEW x \in D \X V, x[1] # {} PROVE InOrderOfTime(Ready(x[1])) \o x[2] \in V
    <3>1. x[1] \in D /\ x[2] \in V
      OBVIOUS
    <3>2. InOrderOfTime(Ready(x[1])) \in V
      BY <1>5, <2>1, <3>1
    <3>3. QED
      BY <3>1, <3>2
  <2>2. QED
    BY <2>1
<1>7. \A s \in D : m[s] # 0 => m[down[s]] < m[s]
  <2> SUFFICES ASSUME NEW s \in D, m[s] # 0 PROVE m[down[s]] < m[s]
    OBVIOUS
  <2>1. s # {} /\ down[s] = s \ Ready(s)
    BY <1>1
  <2>2. down[s] \in D /\ Cardinality(down[s]) < Cardinality(s)
    BY <2>1, ReadyIs
  <2>3. QED
    BY <2>2
<1>8. PICK f \in [D -> V] : f = [s \in D |-> Shown(s, f)]
  <2> HIDE DEF D, V, m, down, base, step
  <2>1. IsRecursive(D, V, m, down, base, step)
    BY <1>2, <1>3, <1>4, <1>6, <1>7 DEF IsRecursive
  <2>2. PICK f \in [D -> V] : \A s \in D : f[s] = RecursionAt(m, down, base, step, f, s)
    BY <2>1, Recursion
  <2>3. ASSUME NEW s \in D PROVE f[s] = Shown(s, f)
    <3>1. f[s] = RecursionAt(m, down, base, step, f, s)
      BY <2>2
    <3>2. m[s] = Cardinality(s) /\ base[s] = <<>> /\ down[s] \in D
      BY <1>3 DEF m, base
    <3>3. CASE s = {}
      BY <1>1, <3>1, <3>2, <3>3 DEF RecursionAt
    <3>4. CASE s # {}
      <4>1. m[s] # 0 /\ down[s] = s \ Ready(s)
        BY <1>1, <3>2, <3>4 DEF down
      <4>2. f[down[s]] \in V
        BY <2>2, <3>2
      <4>3. step[<<s, f[down[s]]>>] = InOrderOfTime(Ready(s)) \o f[down[s]]
        BY <3>4, <4>2 DEF step
      <4>4. QED
        BY <3>1, <3>4, <4>1, <4>3 DEF RecursionAt
    <3>5. QED
      BY <3>3, <3>4
  <2>4. f = [s \in D |-> Shown(s, f)]
    BY <2>2, <2>3
  <2>5. QED
    BY <2>2, <2>4
<1>9. Sorted = [s \in D |-> Shown(s, Sorted)]
  BY <1>8 DEF Sorted
<1>10. ASSUME NEW s \in D PROVE Sorted[s] = Shown(s, Sorted)
  <2> HIDE DEF D, Shown
  <2>1. QED
    BY <1>9
<1>11. \A s \in D : Sorted[s] \in V
  <2> DEFINE T == {n \in Nat : \A s \in D : Cardinality(s) <= n => Sorted[s] \in V}
  <2>1. 0 \in T
    <3>1. ASSUME NEW s \in D, Cardinality(s) <= 0 PROVE Sorted[s] \in V
      <4>1. s = {}
        BY <1>1, <3>1, PartOfHistory
      <4>2. Sorted[s] = <<>>
        BY <1>10, <4>1
      <4>3. QED
        BY <4>2
    <3>2. QED
      BY <3>1
  <2>2. ASSUME NEW n \in Nat, n \in T PROVE n + 1 \in T
    <3>1. ASSUME NEW s \in D, Cardinality(s) <= n + 1 PROVE Sorted[s] \in V
      <4>1. CASE s = {}
        <5>1. Sorted[s] = <<>>
          BY <1>10, <4>1
        <5>2. QED
          BY <5>1
      <4>2. CASE s # {}
        <5>1. /\ s \ Ready(s) \in D
              /\ Cardinality(s \ Ready(s)) < Cardinality(s)
          BY <4>2, ReadyIs
        <5>2. Cardinality(s) \in Nat /\ Cardinality(s \ Ready(s)) \in Nat
          BY <5>1, PartOfHistory
        <5>3. Cardinality(s \ Ready(s)) <= n
          BY <3>1, <5>1, <5>2
        <5>4. Sorted[s \ Ready(s)] \in V
          BY <2>2, <5>1, <5>3
        <5>5. InOrderOfTime(Ready(s)) \in V
          BY <1>5, <4>2
        <5>6. Sorted[s] = InOrderOfTime(Ready(s)) \o Sorted[s \ Ready(s)]
          BY <1>10, <4>2
        <5>7. QED
          BY <5>4, <5>5, <5>6
      <4>3. QED
        BY <4>1, <4>2
    <3>2. QED
      BY <3>1
  <2> HIDE DEF T
  <2>3. Nat \subseteq T
    BY <2>1, <2>2, AllNumbers
  <2>4. ASSUME NEW s \in D PROVE Sorted[s] \in V
    <3>1. Cardinality(s) \in Nat
      BY PartOfHistory
    <3>2. QED
      BY <2>3, <3>1 DEF T
  <2>5. QED
    BY <2>4
<1>12. Sorted \in [D -> V]
  <2> HIDE DEF V, Shown
  <2>1. QED
    BY <1>9, <1>11
<1>13. QED
  BY <1>10, <1>12

\* Each part of the records has one that depends on nothing in the part.
Grounded(records) ==
  \A part \in SUBSET records :
    part # {} => \E r \in part : \A other \in part : ~DependsOn(r, other)

(* A sorted history shows records of it, none before one that it depends on. *)
LEMMA SortedIs ==
  ASSUME NEW records \in Histories, Grounded(records)
  PROVE  LET s == Sorted[records]
         IN  /\ s \in Seq(records)
             /\ \A i, j \in 1..Len(s) : i < j => ~DependsOn(s[i], s[j])
<1> DEFINE Good(R) == /\ Sorted[R] \in Seq(R)
                      /\ \A i, j \in 1..Len(Sorted[R]) :
                           i < j => ~DependsOn(Sorted[R][i], Sorted[R][j])
           T == {n \in Nat : \A R \in Histories :
                   Cardinality(R) <= n /\ Grounded(R) => Good(R)}
<1>1. Good({})
  <2>1. {} \in Histories
    BY FS_EmptySet DEF Histories
  <2>2. Sorted[{}] = <<>>
    BY <2>1, SortedDefined
  <2>3. QED
    BY <2>2
<1>2. 0 \in T
  <2>1. \A R \in Histories : Cardinality(R) <= 0 => R = {}
    BY PartOfHistory, FS_EmptySet DEF Histories
  <2> HIDE DEF Good
  <2>2. QED
    BY <1>1, <2>1
<1>3. ASSUME NEW n \in Nat, n \in T PROVE n + 1 \in T
  <2>0. SUFFICES ASSUME NEW R \in Histories, Cardinality(R) <= n + 1, Grounded(R)
                 PROVE  Good(R)
    OBVIOUS
  <2>1. SUFFICES ASSUME R # {} PROVE Good(R)
    <3> HIDE DEF Good
    <3>1. QED
      BY <1>1
  <2> DEFINE ready == Ready(R)
             rest == R \ ready
             s == InOrderOfTime(ready)
             t == Sorted[rest]
  <2>2. /\ ready \subseteq R /\ ready \in Histories /\ rest \in Histories
        /\ Cardinality(rest) <= n
    <3>1. ready \subseteq R /\ ready \in Histories /\ rest \in Histories
      BY <2>0, <2>1, ReadyIs
    <3>2. Cardinality(rest) < Cardinality(R)
      BY <2>0, <2>1, ReadyIs
    <3>3. Cardinality(rest) \in Nat /\ Cardinality(R) \in Nat
      BY <3>1, PartOfHistory
    <3>4. QED
      BY <2>0, <2>1, <3>1, <3>2, <3>3
  <2>3. \A r \in ready : \A other \in R : ~DependsOn(r, other)
    <3>1. \E r \in R : \A other \in R : ~DependsOn(r, other)
      BY <2>0, <2>1 DEF Grounded
    <3>2. QED
      BY <3>1 DEF Ready
  <2>4. Sorted[R] = s \o t
    BY <2>0, <2>1, SortedDefined
  <2>5. Good(rest)
    <3>1. Grounded(rest)
      BY <2>0, <2>1 DEF Grounded
    <3> HIDE DEF Good, rest
    <3>2. QED
      BY <1>3, <2>2, <3>1
  <2>6. s \in Seq(ready)
    BY <2>2, InOrderOfTimeIs
  <2> HIDE DEF s, rest, ready
  <2>7. s \in Seq(R) /\ t \in Seq(R) /\ t \in Seq(rest)
    BY <2>2, <2>5, <2>6 DEF rest
  <2> HIDE DEF t
  <2>8. s \o t \in Seq(R)
    BY <2>7
  <2>9. ASSUME NEW i \in 1..Len(s \o t), NEW j \in 1..Len(s \o t), i < j
        PROVE  ~DependsOn((s \o t)[i], (s \o t)[j])
    <3>1. CASE i <= Len(s)
      <4>1. (s \o t)[i] = s[i] /\ s[i] \in ready
        BY <2>6, <2>7, <3>1
      <4>2. (s \o t)[j] \in R
        BY <2>8
      <4>3. QED
        BY <2>3, <4>1, <4>2
    <3>2. CASE Len(s) < i
      <4> DEFINE a == i - Len(s)
                 b == j - Len(s)
      <4>1. a \in 1..Len(t) /\ b \in 1..Len(t) /\ a < b
        BY <2>7, <2>9, <3>2
      <4>2. (s \o t)[i] = t[a] /\ (s \o t)[j] = t[b]
        BY <2>7, <2>9, <3>2
      <4> HIDE DEF a, b
      <4>3. ~DependsOn(t[a], t[b])
        BY <2>5, <4>1 DEF t
      <4>4. QED
        BY <4>2, <4>3
    <3>3. Len(s) \in Nat /\ i \in Nat
      BY <2>7, <2>8
    <3>4. QED
      BY <3>1, <3>2, <3>3
  <2>10. QED
    BY <2>4, <2>8, <2>9
<1> HIDE DEF T
<1>4. Nat \subseteq T
  BY <1>2, <1>3, AllNumbers
<1>5. Cardinality(records) \in Nat
  BY PartOfHistory
<1>6. QED
  BY <1>4, <1>5 DEF T

(* The record shown first depends on none of the history, and is the earliest of those. *)
LEMMA ShownFirst ==
  ASSUME NEW records \in Histories, Grounded(records), records # {}
  PROVE  LET s == Sorted[records]
         IN  /\ Len(s) > 0 /\ s[1] \in records
             /\ \A other \in records : ~DependsOn(s[1], other)
             /\ \A r \in records \ {s[1]} :
                  (\A other \in records : ~DependsOn(r, other)) => Earlier(s[1], r)
<1> DEFINE ready == Ready(records)
           s == InOrderOfTime(ready)
           t == Sorted[records \ ready]
<1>1. ready \in Histories /\ ready # {} /\ records \ ready \in Histories /\ ready \subseteq records
  BY ReadyIs
<1>2. ready = {r \in records : \A other \in records : ~DependsOn(r, other)}
  <2>1. \E r \in records : \A other \in records : ~DependsOn(r, other)
    BY DEF Grounded
  <2>2. QED
    BY <2>1 DEF Ready
<1>3. Sorted[records] = s \o t
  BY SortedDefined
<1>4. t \in Seq(Record)
  BY <1>1, SortedDefined
<1>5. s \in Seq(ready) /\ Len(s) = Cardinality(ready) /\ \A r \in ready \ {s[1]} : Earlier(s[1], r)
  BY <1>1, InOrderOfTimeIs
<1>6. Len(s) > 0
  BY <1>1, <1>5, PartOfHistory, FS_EmptySet DEF Histories
<1> HIDE DEF s, t, ready
<1>7. s[1] \in ready /\ s \in Seq(Record)
  BY <1>1, <1>5, <1>6 DEF Histories
<1>8. (s \o t)[1] = s[1] /\ Len(s \o t) > 0
  BY <1>4, <1>6, <1>7
<1>9. QED
  BY <1>1, <1>2, <1>3, <1>5, <1>7, <1>8

(* At most one record more than MaxMessages: the one shown first goes. *)
LEMMA OverflowIs ==
  ASSUME NEW records \in Histories, Cardinality(records) <= MaxMessages + 1
  PROVE  Overflow(records) = IF Cardinality(records) <= MaxMessages THEN {}
                             ELSE {Sorted[records][1]}
<1>1. Cardinality(records) \in Nat /\ MaxMessages \in Nat
  BY PartOfHistory, MaxMessagesAssumption
<1>2. CASE Cardinality(records) <= MaxMessages
  BY <1>1, <1>2 DEF Overflow
<1>3. CASE Cardinality(records) = MaxMessages + 1
  <2>1. 1..(Cardinality(records) - MaxMessages) = {1}
    BY <1>1, <1>3
  <2>2. QED
    BY <1>1, <1>3, <2>1 DEF Overflow
<1>4. QED
  BY <1>1, <1>2, <1>3
-----------------------------------------------------------------------------
(* What an insertion keeps *)

\* Records that can be told apart and put in order, none in a circle of dependencies.
Sound(sent) ==
  /\ sent \subseteq Record
  /\ \A r, other \in sent :
       r = other \/ (Id(r) # Id(other) /\ (Earlier(r, other) \/ Earlier(other, r)))
  /\ Grounded(sent)

\* What a record depends on was sent earlier.
InTime(sent) == \A r, other \in sent : DependsOn(r, other) => Earlier(other, r)

\* A pair of a history, part of what the peer met, and its ids.
PairOK(h, known) ==
  /\ h \in Pair
  /\ h.history \subseteq known
  /\ IsFiniteSet(h.history) /\ Cardinality(h.history) <= MaxMessages
  /\ h.seen = {Id(r) : r \in h.history}

\* What the history has not of what the peer met was earlier than all it has.
Newest(h, known) ==
  \A r \in known \ h.history :
    /\ Cardinality(h.history) = MaxMessages
    /\ \A k \in h.history : Earlier(r, k)

LEMMA SoundPart ==
  ASSUME NEW sent, Sound(sent), NEW part \in SUBSET sent
  PROVE  /\ Sound(part)
         /\ IsFiniteSet(part) => part \in Histories /\ Grounded(part)
BY DEF Sound, Grounded, Histories

(* A known record changes nothing; another one comes in, and from a full history the *)
(* record shown first goes.                                                          *)
LEMMA InsertIs ==
  ASSUME NEW sent, Sound(sent), NEW h, PairOK(h, sent), NEW r \in sent
  PROVE  LET all == h.history \cup {r}
             gone == Sorted[all][1]
         IN  /\ r \in h.history => Insert(h, r) = h
             /\ r \notin h.history =>
                  /\ all \in Histories /\ Grounded(all) /\ all # {} /\ all \subseteq sent
                  /\ Cardinality(all) = Cardinality(h.history) + 1
                  /\ Cardinality(h.history) < MaxMessages =>
                       Insert(h, r) = [history |-> all, seen |-> {Id(o) : o \in all}]
                  /\ Cardinality(h.history) = MaxMessages =>
                       /\ gone \in all
                       /\ Insert(h, r) = [history |-> all \ {gone},
                                          seen |-> {Id(o) : o \in all \ {gone}}]
<1> DEFINE all == h.history \cup {r}
           gone == Sorted[all][1]
<1>1. Id(r) \in h.seen <=> r \in h.history
  BY DEF PairOK, Sound
<1>2. r \in h.history => Insert(h, r) = h
  BY <1>1 DEF Insert
<1>3. ASSUME r \notin h.history
      PROVE  /\ all \in Histories /\ Grounded(all) /\ all # {} /\ all \subseteq sent
             /\ Cardinality(all) = Cardinality(h.history) + 1
  <2>1. IsFiniteSet(h.history) /\ h.history \subseteq sent
    BY DEF PairOK
  <2>2. IsFiniteSet(all) /\ Cardinality(all) = Cardinality(h.history) + 1
    BY <1>3, <2>1, FS_AddElement
  <2>3. all \in SUBSET sent
    BY <2>1
  <2>4. all \in Histories /\ Grounded(all)
    <3> HIDE DEF all
    <3>1. QED
      BY <2>2, <2>3, SoundPart
  <2>5. QED
    BY <2>2, <2>3, <2>4
<1>4. h.seen \cup {Id(r)} = {Id(o) : o \in all}
  BY DEF PairOK
<1>5. Cardinality(h.history) \in Nat /\ MaxMessages \in Nat
  BY FS_CardinalityType, MaxMessagesAssumption DEF PairOK
<1>6. r \notin h.history =>
        Insert(h, r) = [history |-> all \ Overflow(all),
                        seen |-> {Id(o) : o \in all} \ {Id(o) : o \in Overflow(all)}]
  BY <1>1, <1>4 DEF Insert
<1>7. ASSUME r \notin h.history, Cardinality(h.history) < MaxMessages
      PROVE  Insert(h, r) = [history |-> all, seen |-> {Id(o) : o \in all}]
  <2>1. all \in Histories /\ Cardinality(all) <= MaxMessages
    BY <1>3, <1>5, <1>7
  <2>2. Overflow(all) = {}
    <3> HIDE DEF all
    <3>1. QED
      BY <2>1, <1>5, OverflowIs, PartOfHistory
  <2>3. QED
    BY <1>6, <1>7, <2>2
<1>8. ASSUME r \notin h.history, Cardinality(h.history) = MaxMessages
      PROVE  /\ gone \in all
             /\ Insert(h, r) = [history |-> all \ {gone}, seen |-> {Id(o) : o \in all \ {gone}}]
  <2>1. /\ all \in Histories /\ Grounded(all) /\ all # {} /\ all \subseteq sent
        /\ Cardinality(all) = MaxMessages + 1
    BY <1>3, <1>8
  <2>2. gone \in all /\ Overflow(all) = {gone}
    <3> HIDE DEF all
    <3>1. gone \in all
      BY <2>1, ShownFirst
    <3>2. Overflow(all) = {gone}
      BY <2>1, <1>5, OverflowIs
    <3>3. QED
      BY <3>1, <3>2
  <2> HIDE DEF gone
  <2>3. {Id(o) : o \in all} \ {Id(gone)} = {Id(o) : o \in all \ {gone}}
    <3>1. \A o \in all : Id(o) = Id(gone) => o = gone
      BY <2>1, <2>2 DEF Sound
    <3> HIDE DEF all
    <3>2. QED
      BY <3>1
  <2>4. {Id(o) : o \in Overflow(all)} = {Id(gone)}
    BY <2>2
  <2>5. QED
    BY <1>6, <1>8, <2>2, <2>3, <2>4
<1>9. QED
  BY <1>2, <1>3, <1>7, <1>8

LEMMA InsertKeeps ==
  ASSUME NEW sent, Sound(sent), NEW known \in SUBSET sent,
         NEW h, PairOK(h, known), NEW r \in sent
  PROVE  /\ PairOK(Insert(h, r), known \cup {r})
         /\ InTime(sent) /\ Newest(h, known) => Newest(Insert(h, r), known \cup {r})
<1> DEFINE all == h.history \cup {r}
           gone == Sorted[all][1]
           i == Insert(h, r)
<1>1. PairOK(h, sent)
  BY DEF PairOK
<1>2. /\ r \in h.history => i = h
      /\ r \notin h.history =>
           /\ all \in Histories /\ Grounded(all) /\ all # {} /\ all \subseteq sent
           /\ Cardinality(all) = Cardinality(h.history) + 1
           /\ Cardinality(h.history) < MaxMessages =>
                i = [history |-> all, seen |-> {Id(o) : o \in all}]
           /\ Cardinality(h.history) = MaxMessages =>
                /\ gone \in all
                /\ i = [history |-> all \ {gone}, seen |-> {Id(o) : o \in all \ {gone}}]
  BY <1>1, InsertIs
<1>3. /\ Cardinality(h.history) \in Nat /\ MaxMessages \in Nat
      /\ Cardinality(h.history) <= MaxMessages
  BY FS_CardinalityType, MaxMessagesAssumption DEF PairOK
<1>4. i \in Pair
  BY InsertType DEF PairOK, Sound
<1>5. CASE r \in h.history
  BY <1>2, <1>5 DEF PairOK, Newest
<1>6. CASE r \notin h.history /\ Cardinality(h.history) < MaxMessages
  <2>1. /\ all \in Histories /\ Cardinality(all) = Cardinality(h.history) + 1
        /\ i = [history |-> all, seen |-> {Id(o) : o \in all}]
    BY <1>2, <1>6
  <2>2. IsFiniteSet(all) /\ Cardinality(all) <= MaxMessages
    BY <1>3, <1>6, <2>1 DEF Histories
  <2>3. PairOK(i, known \cup {r})
    BY <1>4, <2>1, <2>2 DEF PairOK
  <2>4. ASSUME Newest(h, known) PROVE Newest(i, known \cup {r})
    <3>1. known \subseteq h.history
      BY <1>3, <1>6, <2>4 DEF Newest
    <3>2. (known \cup {r}) \ i.history = {}
      BY <2>1, <3>1
    <3>3. QED
      BY <3>2 DEF Newest
  <2>5. QED
    BY <2>3, <2>4
<1>7. CASE r \notin h.history /\ Cardinality(h.history) = MaxMessages
  <2>1. /\ all \in Histories /\ Grounded(all) /\ all # {} /\ all \subseteq sent
        /\ Cardinality(all) = MaxMessages + 1
        /\ gone \in all
        /\ i = [history |-> all \ {gone}, seen |-> {Id(o) : o \in all \ {gone}}]
    BY <1>2, <1>7
  <2>2. IsFiniteSet(all \ {gone}) /\ Cardinality(all \ {gone}) = MaxMessages
    <3>1. IsFiniteSet(all)
      BY <2>1 DEF Histories
    <3> HIDE DEF all, gone
    <3>2. QED
      BY <1>3, <2>1, <3>1, FS_RemoveElement
  <2>3. PairOK(i, known \cup {r})
    <3>1. all \ {gone} \subseteq known \cup {r}
      BY DEF PairOK
    <3> HIDE DEF all, gone
    <3>2. QED
      BY <1>3, <1>4, <2>1, <2>2, <3>1 DEF PairOK
  <2>4. ASSUME InTime(sent), Newest(h, known) PROVE Newest(i, known \cup {r})
    <3>1. \A k \in all \ {gone} : Earlier(gone, k)
      <4>1. PICK first \in all : \A k \in all \ {first} : Earlier(first, k)
        BY <2>1, EarliestExists
      <4>2. \A other \in all : ~DependsOn(first, other)
        <5> SUFFICES ASSUME NEW other \in all, DependsOn(first, other) PROVE FALSE
          OBVIOUS
        <5>1. Earlier(other, first) /\ first \in Record /\ other \in Record
          BY <2>1, <2>4 DEF InTime, Sound
        <5>2. other # first
          BY DEF DependsOn
        <5>3. QED
          BY <4>1, <5>1, <5>2, EarlierOrder
      <4>3. first = gone
        <5>1. first # gone => Earlier(gone, first)
          <6> HIDE DEF all
          <6>1. QED
            BY <2>1, <4>1, <4>2, ShownFirst
        <5>2. first # gone => Earlier(first, gone)
          BY <2>1, <4>1
        <5>3. first \in Record /\ gone \in Record
          BY <2>1 DEF Sound
        <5>4. QED
          BY <5>1, <5>2, <5>3, EarlierOrder
      <4>4. QED
        BY <4>1, <4>3
    <3>2. ASSUME NEW x \in (known \cup {r}) \ (all \ {gone}), NEW k \in all \ {gone}
          PROVE  Earlier(x, k)
      <4>1. CASE x = gone
        BY <3>1, <4>1
      <4>2. CASE x # gone
        <5>1. x \in known \ h.history
          BY <3>2, <4>2
        <5>2. \A l \in h.history : Earlier(x, l)
          BY <2>4, <5>1 DEF Newest
        <5>3. CASE k \in h.history
          BY <5>2, <5>3
        <5>4. CASE k \notin h.history
          <6>1. gone \in h.history
            BY <2>1, <5>4
          <6>2. Earlier(x, gone) /\ Earlier(gone, k)
            BY <3>1, <5>2, <6>1
          <6>3. x \in Record /\ gone \in Record /\ k \in Record
            BY <2>1, <5>1 DEF Sound
          <6>4. QED
            BY <6>2, <6>3, EarlierOrder
        <5>5. QED
          BY <5>3, <5>4
      <4>3. QED
        BY <4>1, <4>2
    <3> HIDE DEF all, gone
    <3>3. QED
      BY <2>1, <2>2, <3>2 DEF Newest
  <2>5. QED
    BY <2>3, <2>4
<1>8. QED
  BY <1>3, <1>5, <1>6, <1>7

(* What goes for an insertion depends on nothing that stays. *)
LEMMA InsertDrops ==
  ASSUME NEW sent, Sound(sent), NEW h, PairOK(h, sent), NEW r \in sent,
         NEW gone \in h.history \ Insert(h, r).history, NEW other \in Insert(h, r).history
  PROVE  ~DependsOn(gone, other)
<1> DEFINE all == h.history \cup {r}
           first == Sorted[all][1]
           i == Insert(h, r)
<1>1. /\ r \in h.history => i = h
      /\ r \notin h.history =>
           /\ all \in Histories /\ Grounded(all) /\ all # {} /\ all \subseteq sent
           /\ Cardinality(h.history) < MaxMessages =>
                i = [history |-> all, seen |-> {Id(o) : o \in all}]
           /\ Cardinality(h.history) = MaxMessages =>
                /\ first \in all
                /\ i = [history |-> all \ {first}, seen |-> {Id(o) : o \in all \ {first}}]
  BY InsertIs
<1>2. Cardinality(h.history) \in Nat /\ MaxMessages \in Nat /\ Cardinality(h.history) <= MaxMessages
  BY FS_CardinalityType, MaxMessagesAssumption DEF PairOK
<1>3. r \notin h.history
  BY <1>1
<1>4. Cardinality(h.history) = MaxMessages
  BY <1>1, <1>2, <1>3
<1>5. gone = first /\ other \in all
  BY <1>1, <1>3, <1>4
<1>6. \A o \in all : ~DependsOn(first, o)
  <2>1. all \in Histories /\ Grounded(all) /\ all # {}
    BY <1>1, <1>3
  <2> HIDE DEF all
  <2>2. QED
    BY <2>1, ShownFirst
<1>7. QED
  BY <1>5, <1>6

(* And so do several insertions. *)
LEMMA InsertionsKeep ==
  ASSUME NEW sent, Sound(sent), NEW known \in SUBSET sent,
         NEW h, PairOK(h, known), NEW records \in Seq(sent)
  PROVE  /\ PairOK(FoldLeft(Insert, h, records), known \cup ToSet(records))
         /\ InTime(sent) /\ Newest(h, known) =>
              Newest(FoldLeft(Insert, h, records), known \cup ToSet(records))
<1> DEFINE n == Len(records)
           Known(i) == known \cup {records[j] : j \in 1..i}
<1>1. n \in Nat /\ h \in Pair /\ records \in Seq(Record) /\ \A i \in 1..n : records[i] \in sent
  BY DEF PairOK, Sound
<1>2. PICK kept \in [0..n -> Pair] :
        /\ kept[0] = h
        /\ \A i \in 1..n : kept[i] = Insert(kept[i - 1], records[i])
        /\ kept[n] = FoldLeft(Insert, h, records)
  BY <1>1, InsertedInTurn
<1> DEFINE T == {i \in Nat : i <= n =>
                   /\ PairOK(kept[i], Known(i))
                   /\ InTime(sent) /\ Newest(h, known) => Newest(kept[i], Known(i))}
<1>3. 0 \in T
  <2>1. Known(0) = known
    OBVIOUS
  <2> HIDE DEF Known
  <2>2. QED
    BY <1>2, <2>1
<1>4. ASSUME NEW i \in Nat, i \in T PROVE i + 1 \in T
  <2>1. SUFFICES ASSUME i + 1 <= n
                 PROVE  /\ PairOK(kept[i + 1], Known(i + 1))
                        /\ InTime(sent) /\ Newest(h, known) => Newest(kept[i + 1], Known(i + 1))
    OBVIOUS
  <2>2. i + 1 \in 1..n /\ records[i + 1] \in sent
    BY <1>1, <2>1
  <2>3. kept[i + 1] = Insert(kept[i + 1 - 1], records[i + 1])
    BY <1>2, <2>2
  <2>4. kept[i + 1] = Insert(kept[i], records[i + 1])
    BY <2>3
  <2>5. Known(i + 1) = Known(i) \cup {records[i + 1]}
    <3>1. 1..(i + 1) = (1..i) \cup {i + 1}
      OBVIOUS
    <3>2. QED
      BY <3>1
  <2>6. Known(i) \in SUBSET sent
    BY <1>1, <2>1
  <2>7. /\ PairOK(kept[i], Known(i))
        /\ InTime(sent) /\ Newest(h, known) => Newest(kept[i], Known(i))
    BY <1>4, <2>1
  <2> HIDE DEF Known
  <2>8. /\ PairOK(Insert(kept[i], records[i + 1]), Known(i) \cup {records[i + 1]})
        /\ InTime(sent) /\ Newest(kept[i], Known(i)) =>
             Newest(Insert(kept[i], records[i + 1]), Known(i) \cup {records[i + 1]})
    <3>1. PairOK(kept[i], Known(i))
      BY <2>7
    <3>2. QED
      BY <2>2, <2>6, <3>1, InsertKeeps
  <2>9. QED
    BY <2>4, <2>5, <2>7, <2>8
<1> HIDE DEF T
<1>5. Nat \subseteq T
  BY <1>3, <1>4, AllNumbers
<1>6. /\ PairOK(kept[n], Known(n))
      /\ InTime(sent) /\ Newest(h, known) => Newest(kept[n], Known(n))
  BY <1>1, <1>5 DEF T
<1>7. Known(n) = known \cup ToSet(records)
  BY <1>1 DEF ToSet
<1> HIDE DEF Known
<1>8. QED
  BY <1>2, <1>6, <1>7
-----------------------------------------------------------------------------
(* The invariant *)

\* The author's clock without its skew: how many messages were sent before.
TimeOf(r, skews) == r.sent_at - skews[r.by]

\* Records have their own ids and times, and depend on what was sent before.
Timed(sent, skews) ==
  /\ sent \subseteq Record /\ skews \in [Peer -> Int]
  /\ \A r \in sent : 0 <= TimeOf(r, skews)
  /\ \A r, other \in sent :
       /\ Id(r) = Id(other) \/ TimeOf(r, skews) = TimeOf(other, skews) => r = other
       /\ DependsOn(r, other) => TimeOf(other, skews) < TimeOf(r, skews)

LEMMA TimedSound ==
  ASSUME NEW sent, NEW skews, Timed(sent, skews)
  PROVE  /\ Sound(sent)
         /\ (\A p, q \in Peer : skews[p] = skews[q]) => InTime(sent)
<1>1. ASSUME NEW r \in sent
      PROVE  /\ r \in Record /\ r.by \in Peer /\ r.by \in Nat /\ r.sent_at \in Int
             /\ skews[r.by] \in Int /\ TimeOf(r, skews) \in Nat
             /\ TimeOf(r, skews) = r.sent_at - skews[r.by]
  <2>1. r \in Record /\ 0 <= TimeOf(r, skews) /\ skews \in [Peer -> Int]
    BY DEF Timed
  <2>2. r.by \in Peer /\ r.sent_at \in Int /\ r.by \in Nat
    BY <2>1, PeerAssumption DEF Record
  <2>3. skews[r.by] \in Int
    BY <2>1, <2>2
  <2>4. QED
    BY <2>1, <2>2, <2>3 DEF TimeOf
<1>2. Grounded(sent)
  <2> SUFFICES ASSUME NEW part \in SUBSET sent, part # {}
               PROVE  \E r \in part : \A other \in part : ~DependsOn(r, other)
    BY DEF Grounded
  <2> DEFINE times == {TimeOf(r, skews) : r \in part}
  <2>1. times \in SUBSET Nat /\ times # {}
    BY <1>1
  <2>2. PICK t \in times : \A u \in times : t <= u
    <3> HIDE DEF times
    <3>1. QED
      BY <2>1, LeastNumber
  <2>3. PICK r \in part : t = TimeOf(r, skews)
    BY <2>2
  <2>4. ASSUME NEW other \in part PROVE ~DependsOn(r, other)
    <3>1. TimeOf(r, skews) <= TimeOf(other, skews)
      BY <2>2, <2>3
    <3>2. TimeOf(r, skews) \in Nat /\ TimeOf(other, skews) \in Nat
      BY <1>1
    <3>3. QED
      BY <3>1, <3>2 DEF Timed
  <2>5. QED
    BY <2>4
<1>3. ASSUME NEW r \in sent, NEW other \in sent, r # other
      PROVE  Id(r) # Id(other) /\ (Earlier(r, other) \/ Earlier(other, r))
  <2>1. Id(r) # Id(other) /\ TimeOf(r, skews) # TimeOf(other, skews)
    BY <1>3 DEF Timed
  <2>2. r.sent_at # other.sent_at \/ r.by # other.by
    BY <2>1 DEF TimeOf
  <2>3. QED
    BY <1>1, <2>1, <2>2 DEF Earlier
<1>4. ASSUME \A p, q \in Peer : skews[p] = skews[q] PROVE InTime(sent)
  <2> SUFFICES ASSUME NEW r \in sent, NEW other \in sent, DependsOn(r, other)
               PROVE  Earlier(other, r)
    BY DEF InTime
  <2>1. TimeOf(other, skews) < TimeOf(r, skews)
    BY DEF Timed
  <2>2. skews[r.by] = skews[other.by]
    BY <1>1, <1>4
  <2>3. other.sent_at < r.sent_at
    BY <1>1, <2>1, <2>2
  <2>4. QED
    BY <2>3 DEF Earlier
<1>5. QED
  BY <1>2, <1>3, <1>4 DEF Sound, Timed

IdsOf(a) == {id \in DOMAIN context : id[1] = a}

PeerPair(p) == [history |-> history[p], seen |-> seen[p]]

TypesOK ==
  /\ skew \in Skews
  /\ members \subseteq joined /\ joined \subseteq Peer
  /\ history \in [Peer -> SUBSET Record]
  /\ seen \in [Peer -> SUBSET (Peer \X Nat)]
  /\ met \in [Peer -> SUBSET Record]
  /\ asked \in [Peer -> SUBSET Peer] /\ \A p \in Peer : p \notin asked[p]
  /\ network \subseteq Message

\* The ids that were given, counted from one for each author.
IdsOK ==
  /\ DOMAIN context \in SUBSET (Peer \X Nat) /\ IsFiniteSet(DOMAIN context)
  /\ \A id \in DOMAIN context : id[2] <= Cardinality(IdsOf(id[1]))

\* What was sent has an id, a time before now and a frontier of ids that were there.
SentOK ==
  \A r \in Sent :
    /\ Id(r) \in DOMAIN context
    /\ TimeOf(r, skew) < Clock
    /\ \A a \in Peer : r.frontier[a] <= Cardinality(IdsOf(a))

\* A record depends on all that its author had.
ContextOK ==
  /\ \A id \in DOMAIN context : context[id] \subseteq Sent
  /\ \A r \in Sent : \A before \in context[Id(r)] : DependsOn(r, before)

PastOK == Timed(Sent, skew) /\ IdsOK /\ SentOK /\ ContextOK

PeersOK == \A p \in Peer : PairOK(PeerPair(p), met[p])

PeersNewest == ClocksAgree => \A p \in Peer : Newest(PeerPair(p), met[p])

MessageOK(m) ==
  /\ m.from # m.to
  /\ m.type = "Chat" => m.record \in Sent
  /\ m.type = "Response" => m.messages \subseteq Sent /\ IsFiniteSet(m.messages)

NetworkOK == \A m \in network : MessageOK(m)

ChatInv == TypesOK /\ PastOK /\ PeersOK /\ PeersNewest /\ NetworkOK

LEMMA SentSound ==
  ASSUME PastOK
  PROVE  Sound(Sent) /\ (ClocksAgree => InTime(Sent))
BY TimedSound DEF PastOK, ClocksAgree

LEMMA NothingSent ==
  ASSUME PastOK, skew' = skew, context' = context, Sent' = Sent
  PROVE  PastOK'
<1>1. IdsOK' /\ \A a \in Peer : IdsOf(a)' = IdsOf(a)
  BY DEF PastOK, IdsOK, IdsOf
<1>2. Clock' = Clock
  BY DEF Clock
<1>3. SentOK'
  BY <1>1, <1>2 DEF PastOK, SentOK
<1>4. ContextOK' /\ Timed(Sent, skew)'
  BY DEF PastOK, ContextOK
<1>5. QED
  BY <1>1, <1>3, <1>4 DEF PastOK

LEMMA TakeSends ==
  ASSUME TypesOK, NEW p \in Peer, NEW records, Take(p, records)
  PROVE  Sent' = Sent \cup ToSet(records)
<1>1. met' = [met EXCEPT ![p] = @ \cup ToSet(records)] /\ met \in [Peer -> SUBSET Record]
  BY DEF Take, TypesOK
<1>2. met'[p] = met[p] \cup ToSet(records) /\ \A q \in Peer \ {p} : met'[q] = met[q]
  BY <1>1
<1>3. QED
  BY <1>2 DEF Sent

(* What arrives goes into the history of its receiver and of nobody else. *)
LEMMA TakeKeeps ==
  ASSUME TypesOK, PeersOK, NEW sent, Sound(sent), Sent \subseteq sent,
         NEW p \in Peer, NEW records \in Seq(sent), Take(p, records)
  PROVE  /\ history' \in [Peer -> SUBSET Record] /\ met' \in [Peer -> SUBSET Record]
         /\ seen' \in [Peer -> SUBSET (Peer \X Nat)]
         /\ PeersOK'
         /\ InTime(sent) /\ (\A q \in Peer : Newest(PeerPair(q), met[q])) =>
              \A q \in Peer : Newest(PeerPair(q), met[q])'
<1> DEFINE h == PeerPair(p)
           all == FoldLeft(Insert, h, records)
<1>1. /\ history \in [Peer -> SUBSET Record] /\ met \in [Peer -> SUBSET Record]
      /\ seen \in [Peer -> SUBSET (Peer \X Nat)]
  BY DEF TypesOK
<1>2. /\ history' = [history EXCEPT ![p] = all.history]
      /\ seen' = [seen EXCEPT ![p] = all.seen]
      /\ met' = [met EXCEPT ![p] = @ \cup ToSet(records)]
  BY DEF Take, PeerPair
<1>3. PairOK(h, met[p]) /\ met[p] \in SUBSET sent
  BY <1>1 DEF PeersOK, Sent
<1>4. /\ PairOK(all, met[p] \cup ToSet(records))
      /\ InTime(sent) /\ Newest(h, met[p]) => Newest(all, met[p] \cup ToSet(records))
  BY <1>3, InsertionsKeep
<1>5. all \in Pair /\ ToSet(records) \subseteq Record
  BY <1>4 DEF PairOK, ToSet, Sound
<1> HIDE DEF all
<1>6. all.history \subseteq Record /\ all.seen \subseteq Peer \X Nat
  BY <1>5 DEF Pair
<1>7. /\ history' \in [Peer -> SUBSET Record] /\ met' \in [Peer -> SUBSET Record]
      /\ seen' \in [Peer -> SUBSET (Peer \X Nat)]
  BY <1>1, <1>2, <1>5, <1>6
<1>8. all = [history |-> all.history, seen |-> all.seen]
  BY <1>5 DEF Pair
<1>9. PeerPair(p)' = all /\ met'[p] = met[p] \cup ToSet(records)
  BY <1>1, <1>2, <1>8 DEF PeerPair
<1>10. \A q \in Peer \ {p} : PeerPair(q)' = PeerPair(q) /\ met'[q] = met[q]
  BY <1>1, <1>2 DEF PeerPair
<1>11. PeersOK'
  <2> SUFFICES ASSUME NEW q \in Peer PROVE PairOK(PeerPair(q)', met'[q])
    BY DEF PeersOK
  <2>1. CASE q = p
    BY <1>4, <1>9, <2>1
  <2>2. CASE q # p
    BY <1>10, <2>2 DEF PeersOK
  <2>3. QED
    BY <2>1, <2>2
<1>12. ASSUME InTime(sent), \A q \in Peer : Newest(PeerPair(q), met[q]), NEW q \in Peer
       PROVE  Newest(PeerPair(q)', met'[q])
  <2>1. CASE q = p
    BY <1>4, <1>9, <1>12, <2>1
  <2>2. CASE q # p
    BY <1>10, <1>12, <2>2
  <2>3. QED
    BY <2>1, <2>2
<1>13. QED
  BY <1>7, <1>11, <1>12

LEMMA TakeOne ==
  ASSUME TypesOK, NEW p \in Peer, NEW r \in Record, Take(p, <<r>>)
  PROVE  history' = [history EXCEPT ![p] = Insert(PeerPair(p), r).history]
<1> DEFINE h == PeerPair(p)
<1>1. h \in Pair /\ <<r>> \in Seq(Record) /\ Len(<<r>>) = 1 /\ <<r>>[1] = r
  BY DEF TypesOK, Pair, PeerPair
<1>2. PICK kept \in [0..1 -> Pair] :
        /\ kept[0] = h
        /\ \A i \in 1..1 : kept[i] = Insert(kept[i - 1], <<r>>[i])
        /\ kept[1] = FoldLeft(Insert, h, <<r>>)
  <2> HIDE DEF h
  <2>1. QED
    BY <1>1, InsertedInTurn
<1>3. FoldLeft(Insert, h, <<r>>) = Insert(h, r)
  <2> HIDE DEF h
  <2>1. 1 \in 1..1 /\ 1 - 1 = 0
    OBVIOUS
  <2>2. \A i \in 1..1 : kept[i] = Insert(kept[i - 1], <<r>>[i])
    BY <1>2
  <2> HIDE <1>2
  <2>3. kept[1] = Insert(kept[1 - 1], <<r>>[1])
    BY <2>1, <2>2
  <2>4. kept[1] = Insert(kept[0], r)
    BY <1>1, <2>1, <2>3
  <2>5. QED
    BY <1>2, <2>4
<1>4. QED
  BY <1>3 DEF Take, PeerPair
-----------------------------------------------------------------------------
(* A message is sent *)

LEMMA NumbersOfIds ==
  ASSUME IdsOK
  PROVE  Clock \in Nat /\ \A a \in Peer : Cardinality(IdsOf(a)) \in Nat /\ IsFiniteSet(IdsOf(a))
<1>1. \A a \in Peer : IdsOf(a) \in SUBSET DOMAIN context
  BY DEF IdsOf
<1>2. \A a \in Peer : IsFiniteSet(IdsOf(a))
  BY <1>1, FS_Subset DEF IdsOK
<1>3. QED
  BY <1>2, FS_CardinalityType DEF IdsOK, Clock

(* The frontier is above what the author has, and not above what was given. *)
LEMMA FrontierIs ==
  ASSUME PastOK, NEW records \in SUBSET Sent
  PROVE  /\ Frontier(records) \in [Peer -> Nat]
         /\ \A a \in Peer : Frontier(records)[a] <= Cardinality(IdsOf(a))
         /\ \A r \in records : r.by \in Peer /\ r.seq <= Frontier(records)[r.by]
<1>1. \A a \in Peer : Cardinality(IdsOf(a)) \in Nat
  BY NumbersOfIds DEF PastOK
<1>2. ASSUME NEW r \in records
      PROVE  r \in Record /\ r.by \in Peer /\ r.seq \in Nat /\ r.seq <= Cardinality(IdsOf(r.by))
  <2>1. r \in Record
    BY DEF PastOK, Timed
  <2>2. Id(r) \in DOMAIN context /\ Id(r)[1] = r.by /\ Id(r)[2] = r.seq
    BY DEF PastOK, SentOK, Id
  <2>3. r.seq <= Cardinality(IdsOf(r.by))
    BY <2>2 DEF PastOK, IdsOK
  <2>4. QED
    BY <2>1, <2>3 DEF Record
<1> DEFINE Known(a) == {0} \cup {r.seq : r \in {s \in records : s.by = a}}
<1>3. ASSUME NEW a \in Peer
      PROVE  Known(a) \in SUBSET Nat /\ Known(a) # {} /\ \A x \in Known(a) : x <= Cardinality(IdsOf(a))
  BY <1>1, <1>2
<1>4. ASSUME NEW a \in Peer
      PROVE  /\ Frontier(records)[a] \in Known(a)
             /\ \A x \in Known(a) : x <= Frontier(records)[a]
  <2>1. Frontier(records)[a] = Max(Known(a))
    BY DEF Frontier
  <2> HIDE DEF Known
  <2>2. QED
    BY <1>1, <1>3, <2>1, GreatestNumber
<1>5. Frontier(records) \in [Peer -> Nat]
  <2>1. \A a \in Peer : Frontier(records)[a] \in Nat
    BY <1>3, <1>4
  <2>2. DOMAIN Frontier(records) = Peer /\ Frontier(records) = [a \in Peer |-> Frontier(records)[a]]
    BY DEF Frontier
  <2>3. QED
    BY <2>1, <2>2
<1>6. \A a \in Peer : Frontier(records)[a] <= Cardinality(IdsOf(a))
  BY <1>3, <1>4
<1>7. ASSUME NEW r \in records PROVE r.seq <= Frontier(records)[r.by]
  <2>1. r.by \in Peer /\ r.seq \in Known(r.by)
    BY <1>2
  <2>2. QED
    BY <1>4, <2>1
<1>8. QED
  BY <1>2, <1>5, <1>6, <1>7

\* The record that p sends
SentBy(p) ==
  [by |-> p, seq |-> 1 + Cardinality(IdsOf(p)), frontier |-> Frontier(history[p]),
   sent_at |-> Clock + skew[p]]

LEMMA SentByIs ==
  ASSUME PastOK, NEW p \in Peer, history[p] \subseteq Sent
  PROVE  LET r == SentBy(p)
         IN  /\ r \in Record /\ r.by = p /\ r.seq = 1 + Cardinality(IdsOf(p))
             /\ Id(r) = <<p, 1 + Cardinality(IdsOf(p))>> /\ Id(r) \in Peer \X Nat
             /\ Id(r) \notin DOMAIN context
             /\ TimeOf(r, skew) = Clock
             /\ \A a \in Peer : r.frontier[a] <= Cardinality(IdsOf(a))
             /\ \A before \in history[p] : DependsOn(r, before)
             /\ \A other \in Sent : ~DependsOn(other, r) /\ Id(other) # Id(r)
<1> DEFINE r == SentBy(p)
           n == Cardinality(IdsOf(p))
<1>1. Clock \in Nat /\ n \in Nat
  BY NumbersOfIds DEF PastOK
<1>2. skew[p] \in Int
  BY DEF PastOK, Timed
<1>3. /\ Frontier(history[p]) \in [Peer -> Nat]
      /\ \A a \in Peer : Frontier(history[p])[a] <= Cardinality(IdsOf(a))
      /\ \A s \in history[p] : s.by \in Peer /\ s.seq <= Frontier(history[p])[s.by]
  BY FrontierIs
<1>4. /\ r.by = p /\ r.seq = 1 + n /\ r.frontier = Frontier(history[p])
      /\ r.sent_at = Clock + skew[p] /\ Id(r) = <<p, 1 + n>>
  BY DEF SentBy, Id
<1>5. r \in Record
  BY <1>1, <1>2, <1>3 DEF SentBy, Record
<1> HIDE DEF r
<1>6. Id(r) \in Peer \X Nat /\ Id(r) \notin DOMAIN context
  <2>1. ASSUME Id(r) \in DOMAIN context PROVE FALSE
    <3>1. Id(r)[2] <= Cardinality(IdsOf(Id(r)[1]))
      BY <2>1 DEF PastOK, IdsOK
    <3>2. 1 + n <= n
      BY <1>4, <3>1
    <3>3. QED
      BY <1>1, <3>2
  <2>2. QED
    BY <1>1, <1>4, <2>1
<1>7. TimeOf(r, skew) = Clock
  BY <1>1, <1>2, <1>4 DEF TimeOf
<1>8. \A other \in Sent : Id(other) # Id(r)
  BY <1>6 DEF PastOK, SentOK
<1>9. ASSUME NEW before \in history[p] PROVE DependsOn(r, before)
  BY <1>3, <1>4, <1>8 DEF DependsOn
<1>10. ASSUME NEW other \in Sent PROVE ~DependsOn(other, r)
  <2>1. other \in Record /\ Id(other) \in DOMAIN context /\ other.frontier[p] <= n
    BY DEF PastOK, SentOK, Timed
  <2>2. other.seq \in Nat /\ other.frontier[p] \in Nat
    BY <2>1 DEF Record
  <2>3. other.by = p => other.seq <= n
    <3>1. Id(other)[1] = other.by /\ Id(other)[2] = other.seq
      BY DEF Id
    <3>2. other.seq <= Cardinality(IdsOf(other.by))
      BY <2>1, <3>1 DEF PastOK, IdsOK
    <3>3. QED
      BY <3>2
  <2>4. QED
    BY <1>1, <1>4, <2>1, <2>2, <2>3 DEF DependsOn
<1>11. \A a \in Peer : r.frontier[a] <= Cardinality(IdsOf(a))
  BY <1>3, <1>4
<1>12. QED
  BY <1>4, <1>5, <1>6, <1>7, <1>8, <1>9, <1>10, <1>11 DEF r

(* What was sent stays in order when another record is. *)
LEMMA TimedMore ==
  ASSUME PastOK, NEW p \in Peer, history[p] \subseteq Sent
  PROVE  Timed(Sent \cup {SentBy(p)}, skew)
<1> DEFINE r == SentBy(p)
<1>1. /\ r \in Record /\ TimeOf(r, skew) = Clock
      /\ \A other \in Sent : ~DependsOn(other, r) /\ Id(other) # Id(r)
  BY SentByIs
<1>2. Clock \in Nat
  BY NumbersOfIds DEF PastOK
<1> HIDE DEF r
<1>3. \A other \in Sent : TimeOf(other, skew) < Clock
  BY DEF PastOK, SentOK
<1>4. Timed(Sent, skew)
  BY DEF PastOK
<1>5. ~DependsOn(r, r)
  BY DEF DependsOn
<1>6. \A other \in Sent : TimeOf(other, skew) # Clock
  <2> SUFFICES ASSUME NEW other \in Sent, TimeOf(other, skew) = Clock PROVE FALSE
    OBVIOUS
  <2>1. Clock < Clock
    BY <1>3
  <2>2. QED
    BY <1>2, <2>1
<1>7. ASSUME NEW a \in Sent \cup {r}, NEW b \in Sent \cup {r}
      PROVE  /\ Id(a) = Id(b) \/ TimeOf(a, skew) = TimeOf(b, skew) => a = b
             /\ DependsOn(a, b) => TimeOf(b, skew) < TimeOf(a, skew)
  <2>1. CASE a \in Sent /\ b \in Sent
    BY <1>4, <2>1 DEF Timed
  <2>2. CASE a = r /\ b \in Sent
    BY <1>1, <1>3, <1>6, <2>2
  <2>3. CASE a \in Sent /\ b = r
    BY <1>1, <1>6, <2>3
  <2>4. CASE a = r /\ b = r
    BY <1>5, <2>4
  <2>5. QED
    BY <1>7, <2>1, <2>2, <2>3, <2>4
<1>8. \A a \in Sent \cup {r} : a \in Record /\ 0 <= TimeOf(a, skew)
  BY <1>1, <1>2, <1>4 DEF Timed
<1>9. skew \in [Peer -> Int]
  BY <1>4 DEF Timed
<1>10. Timed(Sent \cup {r}, skew)
  BY <1>7, <1>8, <1>9 DEF Timed
<1>11. QED
  BY <1>10 DEF r

LEMMA SendKeepsPast ==
  ASSUME PastOK, NEW p \in Peer, history[p] \subseteq Sent, skew' = skew,
         Sent' = Sent \cup {SentBy(p)},
         context' = [id \in DOMAIN context \cup {Id(SentBy(p))} |->
                      IF id = Id(SentBy(p)) THEN history[p] ELSE context[id]]
  PROVE  PastOK'
<1> DEFINE r == SentBy(p)
           D == DOMAIN context
           n == Cardinality(IdsOf(p))
<1>1. /\ r.by = p /\ Id(r) = <<p, 1 + n>> /\ Id(r) \in Peer \X Nat /\ Id(r) \notin D
      /\ TimeOf(r, skew) = Clock
      /\ \A a \in Peer : r.frontier[a] <= Cardinality(IdsOf(a))
      /\ \A before \in history[p] : DependsOn(r, before)
      /\ \A other \in Sent : ~DependsOn(other, r) /\ Id(other) # Id(r)
  BY SentByIs
<1>2. Clock \in Nat /\ \A a \in Peer : Cardinality(IdsOf(a)) \in Nat /\ IsFiniteSet(IdsOf(a))
  BY NumbersOfIds DEF PastOK
<1>3. D \in SUBSET (Peer \X Nat) /\ IsFiniteSet(D)
  BY DEF PastOK, IdsOK
<1>4. Timed(Sent, skew)'
  BY TimedMore
<1> HIDE DEF r
<1>5. /\ DOMAIN context' = D \cup {Id(r)} /\ context'[Id(r)] = history[p]
      /\ \A id \in D : context'[id] = context[id]
  BY <1>1 DEF r
<1>6. DOMAIN context' \in SUBSET (Peer \X Nat) /\ IsFiniteSet(DOMAIN context') /\ Clock' = Clock + 1
  BY <1>1, <1>3, <1>5, FS_AddElement DEF Clock
<1>7. /\ IdsOf(p)' = IdsOf(p) \cup {Id(r)} /\ Id(r) \notin IdsOf(p)
      /\ \A a \in Peer \ {p} : IdsOf(a)' = IdsOf(a)
  BY <1>1, <1>5 DEF IdsOf
<1>8. Cardinality(IdsOf(p)') = n + 1
  BY <1>2, <1>7, FS_AddElement
<1>9. \A a \in Peer : /\ Cardinality(IdsOf(a)') \in Nat
                      /\ Cardinality(IdsOf(a)) <= Cardinality(IdsOf(a)')
  BY <1>2, <1>7, <1>8
<1>10. IdsOK'
  <2>1. ASSUME NEW id \in DOMAIN context' PROVE id[2] <= Cardinality(IdsOf(id[1])')
    <3>1. CASE id = Id(r)
      <4>1. id[1] = p /\ id[2] = 1 + n
        BY <1>1, <3>1
      <4>2. QED
        BY <1>2, <1>8, <4>1
    <3>2. CASE id \in D
      <4>1. id[1] \in Peer /\ id[2] \in Nat
        BY <1>3, <3>2
      <4>2. id[2] <= Cardinality(IdsOf(id[1]))
        BY <3>2 DEF PastOK, IdsOK
      <4>3. QED
        BY <1>2, <1>9, <4>1, <4>2
    <3>3. QED
      BY <1>5, <3>1, <3>2
  <2>2. QED
    BY <1>6, <2>1 DEF IdsOK
<1>11. SentOK'
  <2> SUFFICES ASSUME NEW o \in Sent \cup {r}
               PROVE  /\ Id(o) \in DOMAIN context'
                      /\ TimeOf(o, skew) < Clock'
                      /\ \A a \in Peer : o.frontier[a] <= Cardinality(IdsOf(a)')
    BY DEF SentOK, r
  <2>1. o.frontier \in [Peer -> Nat] /\ TimeOf(o, skew) \in Int
    <3>1. o \in Record /\ skew \in [Peer -> Int]
      BY <1>4 DEF Timed, r
    <3>2. QED
      BY <3>1 DEF Record, TimeOf
  <2>2. /\ Id(o) \in D \cup {Id(r)} /\ TimeOf(o, skew) <= Clock
        /\ \A a \in Peer : o.frontier[a] <= Cardinality(IdsOf(a))
    BY <1>1, <1>2, <2>1 DEF PastOK, SentOK
  <2>3. QED
    BY <1>2, <1>5, <1>6, <1>9, <2>1, <2>2
<1>12. ContextOK'
  <2>1. ASSUME NEW id \in DOMAIN context' PROVE context'[id] \subseteq Sent'
    BY <1>5 DEF PastOK, ContextOK
  <2>2. ASSUME NEW o \in Sent', NEW before \in context'[Id(o)] PROVE DependsOn(o, before)
    <3>1. CASE o = r
      BY <1>1, <1>5, <2>2, <3>1
    <3>2. CASE o \in Sent
      <4>1. Id(o) \in D
        BY <3>2 DEF PastOK, SentOK
      <4>2. before \in context[Id(o)]
        BY <1>5, <2>2, <4>1
      <4>3. QED
        BY <3>2, <4>2 DEF PastOK, ContextOK
    <3>3. QED
      BY <2>2, <3>1, <3>2 DEF r
  <2>3. QED
    BY <2>1, <2>2 DEF ContextOK
<1>13. QED
  BY <1>4, <1>10, <1>11, <1>12 DEF PastOK
-----------------------------------------------------------------------------
(* The steps *)

LEMMA InitInv == Init => ChatInv
<1> SUFFICES ASSUME Init PROVE ChatInv
  OBVIOUS
<1>1. skew \in Skews /\ skew \in [Peer -> Int]
  BY SkewsAssumption DEF Init
<1>2. TypesOK
  BY <1>1, MembersAssumption DEF Init, TypesOK
<1>3. Sent = {} /\ DOMAIN context = {} /\ network = {}
  BY DEF Init, Sent
<1>4. PastOK
  <2>1. Timed(Sent, skew)
    BY <1>1, <1>3 DEF Timed
  <2>2. IdsOK /\ SentOK /\ ContextOK
    BY <1>3, FS_EmptySet DEF IdsOK, SentOK, ContextOK
  <2>3. QED
    BY <2>1, <2>2 DEF PastOK
<1>5. ASSUME NEW p \in Peer
      PROVE  PairOK(PeerPair(p), met[p]) /\ Newest(PeerPair(p), met[p])
  <2>1. history[p] = {} /\ seen[p] = {} /\ met[p] = {}
    BY DEF Init
  <2>2. QED
    BY <2>1, FS_EmptySet, MaxMessagesAssumption DEF PairOK, Pair, PeerPair, Newest
<1>6. NetworkOK
  BY <1>3 DEF NetworkOK
<1>7. QED
  BY <1>2, <1>4, <1>5, <1>6 DEF ChatInv, PeersOK, PeersNewest

LEMMA HistoryIs ==
  ASSUME TypesOK, PeersOK, NEW p \in Peer
  PROVE  /\ history[p] \subseteq Sent /\ history[p] \subseteq met[p]
         /\ history[p] \subseteq Record
         /\ IsFiniteSet(history[p])
         /\ Cardinality(history[p]) \in Nat /\ Cardinality(history[p]) <= MaxMessages
<1>1. history[p] \subseteq met[p] /\ IsFiniteSet(history[p]) /\ Cardinality(history[p]) <= MaxMessages
  BY DEF PeersOK, PairOK, PeerPair
<1>2. history[p] \subseteq Sent /\ history[p] \subseteq Record
  BY <1>1 DEF Sent, TypesOK
<1>3. QED
  BY <1>1, <1>2, FS_CardinalityType

(* The histories stay while nothing is taken in. *)
LEMMA NothingTaken ==
  ASSUME ChatInv, UNCHANGED <<skew, history, seen, context, met>>
  PROVE  /\ PastOK' /\ PeersOK' /\ PeersNewest' /\ Sent' = Sent
         /\ \A m \in network : MessageOK(m)'
         /\ history' \in [Peer -> SUBSET Record] /\ met' \in [Peer -> SUBSET Record]
         /\ seen' \in [Peer -> SUBSET (Peer \X Nat)] /\ skew' \in Skews
<1>1. Sent' = Sent
  BY DEF Sent
<1>2. PastOK'
  BY <1>1, NothingSent DEF ChatInv
<1>3. PeersOK' /\ PeersNewest'
  BY DEF ChatInv, PeersOK, PeersNewest, PeerPair, ClocksAgree
<1>4. \A m \in network : MessageOK(m)'
  BY <1>1 DEF ChatInv, NetworkOK, MessageOK
<1>5. QED
  BY <1>1, <1>2, <1>3, <1>4 DEF ChatInv, TypesOK

(* The histories after something is taken in. *)
LEMMA SomethingTaken ==
  ASSUME ChatInv, NEW p \in Peer, NEW records \in Seq(Sent'), Take(p, records),
         skew' = skew, Sent \subseteq Sent', PastOK'
  PROVE  /\ PeersOK' /\ PeersNewest'
         /\ \A m \in network : MessageOK(m)'
         /\ history' \in [Peer -> SUBSET Record] /\ met' \in [Peer -> SUBSET Record]
         /\ seen' \in [Peer -> SUBSET (Peer \X Nat)] /\ skew' \in Skews
<1>1. Timed(Sent', skew)
  BY DEF PastOK
<1>2. Sound(Sent') /\ (ClocksAgree => InTime(Sent'))
  BY <1>1, TimedSound DEF ClocksAgree
<1>3. TypesOK /\ PeersOK
  BY DEF ChatInv
<1>4. /\ history' \in [Peer -> SUBSET Record] /\ met' \in [Peer -> SUBSET Record]
      /\ seen' \in [Peer -> SUBSET (Peer \X Nat)]
      /\ PeersOK'
      /\ InTime(Sent') /\ (\A q \in Peer : Newest(PeerPair(q), met[q])) =>
           \A q \in Peer : Newest(PeerPair(q), met[q])'
  BY <1>2, <1>3, TakeKeeps
<1>5. ClocksAgree' <=> ClocksAgree
  BY DEF ClocksAgree
<1>6. PeersNewest'
  BY <1>2, <1>4, <1>5 DEF ChatInv, PeersNewest
<1>7. \A m \in network : MessageOK(m)'
  BY DEF ChatInv, NetworkOK, MessageOK
<1>8. skew' \in Skews
  BY DEF ChatInv, TypesOK
<1>9. QED
  BY <1>4, <1>6, <1>7, <1>8

(* A message goes to each member but its sender. *)
LEMMA SendKeeps ==
  ASSUME ChatInv, NEW p \in Peer, Send(p)
  PROVE  ChatInv'
<1> DEFINE r == SentBy(p)
           Chat(q) == [type |-> "Chat", from |-> p, to |-> q, record |-> r]
<1>1. /\ p \in members /\ Take(p, <<r>>)
      /\ context' = [id \in DOMAIN context \cup {Id(r)} |->
                      IF id = Id(r) THEN history[p] ELSE context[id]]
      /\ network' = network \cup {Chat(q) : q \in members \ {p}}
      /\ UNCHANGED <<skew, members, joined, asked, lost>>
  BY DEF Send, SentBy, IdsOf, Broadcast
<1>2. TypesOK /\ PeersOK /\ PastOK /\ NetworkOK /\ history[p] \subseteq Sent
  BY HistoryIs DEF ChatInv
<1>3. r \in Record
  BY <1>2, SentByIs
<1>4. Sent' = Sent \cup {r}
  <2> HIDE DEF r
  <2>1. ToSet(<<r>>) = {r}
    BY DEF ToSet
  <2>2. QED
    BY <1>1, <1>2, <2>1, TakeSends
<1>5. PastOK'
  BY <1>1, <1>2, <1>4, SendKeepsPast
<1> HIDE DEF r
<1>6. <<r>> \in Seq(Sent') /\ Sent \subseteq Sent'
  BY <1>4
<1>7. /\ PeersOK' /\ PeersNewest'
      /\ \A m \in network : MessageOK(m)'
      /\ history' \in [Peer -> SUBSET Record] /\ met' \in [Peer -> SUBSET Record]
      /\ seen' \in [Peer -> SUBSET (Peer \X Nat)] /\ skew' \in Skews
  BY <1>1, <1>5, <1>6, SomethingTaken
<1>8. ASSUME NEW m \in {Chat(q) : q \in members \ {p}}
      PROVE  m \in Message /\ MessageOK(m)'
  <2>1. PICK q \in members \ {p} : m = Chat(q)
    OBVIOUS
  <2>2. q \in Peer /\ q # p
    BY <1>2 DEF TypesOK
  <2>3. m \in Message
    BY <1>3, <2>1, <2>2 DEF Message
  <2>4. m.from = p /\ m.to = q /\ m.type = "Chat" /\ m.record \in Sent'
    BY <1>4, <2>1
  <2>5. QED
    BY <2>2, <2>3, <2>4 DEF MessageOK
<1>9. NetworkOK' /\ network' \subseteq Message
  BY <1>1, <1>2, <1>7, <1>8 DEF NetworkOK, TypesOK
<1>10. TypesOK'
  BY <1>1, <1>2, <1>7, <1>9 DEF TypesOK
<1>11. QED
  BY <1>5, <1>7, <1>9, <1>10 DEF ChatInv

LEMMA MessageTypes ==
  ASSUME ChatInv, NEW m \in network
  PROVE  /\ m \in Message /\ m.from \in Peer /\ m.to \in Peer /\ m.from # m.to
         /\ m.type = "Chat" => m.record \in Record /\ m.record \in Sent
         /\ m.type = "Response" => m.messages \subseteq Sent /\ IsFiniteSet(m.messages)
<1>1. m \in Message /\ MessageOK(m)
  BY DEF ChatInv, TypesOK, NetworkOK
<1>2. m.from \in Peer /\ m.to \in Peer
  BY <1>1 DEF Message
<1>3. m.type = "Chat" => m.record \in Record
  BY <1>1 DEF Message
<1>4. QED
  BY <1>1, <1>2, <1>3 DEF MessageOK

(* One message fewer is on its way. *)
LEMMA ArrivalKeeps ==
  ASSUME ChatInv, NEW p \in Peer, NEW records \in Seq(Sent), Take(p, records),
         network' \subseteq network, UNCHANGED <<skew, members, joined, asked, context>>
  PROVE  ChatInv' /\ Sent' = Sent
<1>1. TypesOK /\ PastOK /\ NetworkOK
  BY DEF ChatInv
<1>2. ToSet(records) \subseteq Sent
  BY DEF ToSet
<1>3. Sent' = Sent
  BY <1>1, <1>2, TakeSends
<1>4. PastOK'
  BY <1>1, <1>3, NothingSent
<1>5. records \in Seq(Sent') /\ Sent \subseteq Sent'
  BY <1>3
<1>6. /\ PeersOK' /\ PeersNewest'
      /\ \A m \in network : MessageOK(m)'
      /\ history' \in [Peer -> SUBSET Record] /\ met' \in [Peer -> SUBSET Record]
      /\ seen' \in [Peer -> SUBSET (Peer \X Nat)] /\ skew' \in Skews
  BY <1>4, <1>5, SomethingTaken
<1>7. NetworkOK'
  BY <1>6 DEF NetworkOK
<1>8. TypesOK'
  BY <1>1, <1>6 DEF TypesOK
<1>9. QED
  BY <1>3, <1>4, <1>6, <1>7, <1>8 DEF ChatInv

LEMMA ReceiveChatKeeps ==
  ASSUME ChatInv, NEW m \in network, ReceiveChat(m)
  PROVE  ChatInv' /\ Sent' = Sent
<1>1. m.to \in Peer /\ m.record \in Sent
  BY MessageTypes DEF ReceiveChat
<1>2. <<m.record>> \in Seq(Sent)
  BY <1>1
<1>3. /\ Take(m.to, <<m.record>>) /\ network' \subseteq network
      /\ UNCHANGED <<skew, members, joined, asked, context>>
  BY DEF ReceiveChat
<1>4. QED
  BY <1>1, <1>2, <1>3, ArrivalKeeps

LEMMA ReceiveResponseKeeps ==
  ASSUME ChatInv, NEW m \in network, ReceiveResponse(m)
  PROVE  ChatInv' /\ Sent' = Sent
<1>1. m.to \in Peer /\ m.messages \subseteq Sent /\ IsFiniteSet(m.messages)
  BY MessageTypes DEF ReceiveResponse
<1>2. m.messages \in Histories /\ Grounded(m.messages)
  BY <1>1, SentSound, SoundPart DEF ChatInv
<1>3. Sorted[m.messages] \in Seq(m.messages)
  BY <1>2, SortedIs
<1>4. Sorted[m.messages] \in Seq(Sent)
  BY <1>1, <1>3
<1>5. /\ Take(m.to, Sorted[m.messages]) /\ network' \subseteq network
      /\ UNCHANGED <<skew, members, joined, asked, context>>
  BY DEF ReceiveResponse
<1>6. QED
  BY <1>1, <1>4, <1>5, ArrivalKeeps

(* A step that takes nothing in and sends only this. *)
LEMMA TalkKeeps ==
  ASSUME ChatInv, UNCHANGED <<skew, history, seen, context, met>>,
         members' \subseteq joined', joined' \subseteq Peer,
         asked' \in [Peer -> SUBSET Peer], \A p \in Peer : p \notin asked'[p],
         \A m \in network' \ network : m \in Message /\ MessageOK(m)
  PROVE  ChatInv'
<1>1. /\ PastOK' /\ PeersOK' /\ PeersNewest' /\ Sent' = Sent
      /\ \A m \in network : MessageOK(m)'
      /\ history' \in [Peer -> SUBSET Record] /\ met' \in [Peer -> SUBSET Record]
      /\ seen' \in [Peer -> SUBSET (Peer \X Nat)] /\ skew' \in Skews
  BY NothingTaken
<1>2. ASSUME NEW m \in network' PROVE m \in Message /\ MessageOK(m)'
  <2>1. CASE m \in network
    BY <1>1, <2>1 DEF ChatInv, TypesOK
  <2>2. CASE m \notin network
    BY <1>1, <1>2, <2>2 DEF MessageOK
  <2>3. QED
    BY <2>1, <2>2
<1>3. TypesOK' /\ NetworkOK'
  BY <1>1, <1>2 DEF TypesOK, NetworkOK
<1>4. QED
  BY <1>1, <1>3 DEF ChatInv

LEMMA SummaryType ==
  ASSUME ChatInv, NEW p \in Peer, NEW q \in Peer \ {p}
  PROVE  Summarize(p, q) \in Message /\ MessageOK(Summarize(p, q))
<1>1. /\ history[p] \subseteq Sent /\ IsFiniteSet(history[p]) /\ history[p] \subseteq Record
      /\ Cardinality(history[p]) \in Nat
  BY HistoryIs DEF ChatInv
<1>2. history[p] \in Histories /\ Grounded(history[p])
  BY <1>1, SentSound, SoundPart DEF ChatInv
<1>3. ASSUME history[p] # {} PROVE LastShownAt(history[p]) \in Int
  <2> DEFINE s == Sorted[history[p]]
  <2>1. s \in Seq(history[p])
    BY <1>2, SortedIs
  <2>2. Len(s) > 0
    BY <1>2, <1>3, ShownFirst
  <2> HIDE DEF s
  <2>3. s[Len(s)] \in Record
    BY <1>1, <2>1, <2>2
  <2>4. QED
    BY <2>3 DEF LastShownAt, Last, Record, s
<1> DEFINE at == IF history[p] = {} THEN 0 ELSE LastShownAt(history[p])
<1>4. at \in Int
  BY <1>3
<1>5. Summarize(p, q) = [type |-> "Summary", from |-> p, to |-> q,
                         count |-> Cardinality(history[p]), newest_at |-> at]
  BY DEF Summarize
<1> HIDE DEF at
<1>6. QED
  BY <1>1, <1>4, <1>5 DEF Message, MessageOK

LEMMA AnnounceKeeps ==
  ASSUME ChatInv, NEW p \in Peer, Announce(p)
  PROVE  ChatInv'
<1>1. /\ network' = network \cup {Summarize(p, q) : q \in members \ {p}}
      /\ UNCHANGED <<skew, members, joined, history, seen, asked, lost, context, met>>
  BY DEF Announce, Broadcast
<1>2. ASSUME NEW m \in network' \ network PROVE m \in Message /\ MessageOK(m)
  <2>1. PICK q \in members \ {p} : m = Summarize(p, q)
    BY <1>1
  <2>2. q \in Peer \ {p}
    BY DEF ChatInv, TypesOK
  <2>3. QED
    BY <2>1, <2>2, SummaryType
<1>3. QED
  BY <1>1, <1>2, TalkKeeps DEF ChatInv, TypesOK

LEMMA ReceiveSummaryKeeps ==
  ASSUME ChatInv, NEW m \in network, ReceiveSummary(m)
  PROVE  ChatInv' /\ UNCHANGED <<history, met>>
<1> DEFINE p == m.to
           request == [type |-> "Request", from |-> p, to |-> m.from,
                       known_count |-> Cardinality(history[p])]
<1>1. p \in Peer /\ m.from \in Peer \ {p}
  BY MessageTypes
<1>2. Cardinality(history[p]) \in Nat
  BY <1>1, HistoryIs DEF ChatInv
<1>3. request \in Message /\ MessageOK(request)
  BY <1>1, <1>2 DEF Message, MessageOK
<1>4. /\ network' \subseteq network \cup {request}
      /\ asked' \in {asked, [asked EXCEPT ![p] = @ \cup {m.from}]}
      /\ UNCHANGED <<skew, members, joined, history, seen, lost, context, met>>
  BY DEF ReceiveSummary
<1>5. asked' \in [Peer -> SUBSET Peer] /\ \A q \in Peer : q \notin asked'[q]
  BY <1>1, <1>4 DEF ChatInv, TypesOK
<1> HIDE DEF request, p
<1>6. \A n \in network' \ network : n \in Message /\ MessageOK(n)
  BY <1>3, <1>4
<1>7. QED
  BY <1>4, <1>5, <1>6, TalkKeeps DEF ChatInv, TypesOK

LEMMA ReceiveRequestKeeps ==
  ASSUME ChatInv, NEW m \in network, ReceiveRequest(m)
  PROVE  ChatInv' /\ UNCHANGED <<history, met>>
<1> DEFINE p == m.to
           response == [type |-> "Response", from |-> p, to |-> m.from,
                        messages |-> history[p]]
<1>1. p \in Peer /\ m.from \in Peer \ {p}
  BY MessageTypes
<1>2. history[p] \subseteq Sent /\ IsFiniteSet(history[p]) /\ history[p] \subseteq Record
  BY <1>1, HistoryIs DEF ChatInv
<1>3. response \in Message /\ MessageOK(response)
  BY <1>1, <1>2 DEF Message, MessageOK
<1>4. /\ network' \subseteq network \cup {response}
      /\ UNCHANGED <<skew, members, joined, history, seen, asked, lost, context, met>>
  BY DEF ReceiveRequest
<1> HIDE DEF response, p
<1>5. \A n \in network' \ network : n \in Message /\ MessageOK(n)
  BY <1>3, <1>4
<1>6. QED
  BY <1>4, <1>5, TalkKeeps DEF ChatInv, TypesOK

LEMMA OthersKeep ==
  ASSUME ChatInv,
         \/ \E p \in Peer : Join(p) \/ Leave(p)
         \/ \E p, q \in Peer : CoolDown(p, q)
         \/ \E m \in network : Lose(m)
         \/ UNCHANGED vars
  PROVE  ChatInv' /\ UNCHANGED <<history, met>>
<1>1. CASE \E p \in Peer : Join(p)
  BY <1>1, TalkKeeps DEF Join, ChatInv, TypesOK
<1>2. CASE \E p \in Peer : Leave(p)
  BY <1>2, TalkKeeps DEF Leave, ChatInv, TypesOK
<1>3. CASE \E p, q \in Peer : CoolDown(p, q)
  <2>1. PICK p \in Peer, q \in Peer : CoolDown(p, q)
    BY <1>3
  <2>2. /\ asked' = [asked EXCEPT ![p] = @ \ {q}]
        /\ UNCHANGED <<skew, members, joined, history, seen, network, lost, context, met>>
    BY <2>1 DEF CoolDown
  <2>3. asked' \in [Peer -> SUBSET Peer] /\ \A o \in Peer : o \notin asked'[o]
    BY <2>2 DEF ChatInv, TypesOK
  <2>4. QED
    BY <2>2, <2>3, TalkKeeps DEF ChatInv, TypesOK
<1>4. CASE \E m \in network : Lose(m)
  BY <1>4, TalkKeeps DEF Lose, ChatInv, TypesOK
<1>5. CASE UNCHANGED vars
  BY <1>5, TalkKeeps DEF vars, ChatInv, TypesOK
<1>6. QED
  BY <1>1, <1>2, <1>3, <1>4, <1>5

LEMMA NextInv ==
  ASSUME ChatInv, [Next]_vars
  PROVE  ChatInv'
<1>1. CASE \E p \in Peer : Send(p)
  BY <1>1, SendKeeps
<1>2. CASE \E p \in Peer : Announce(p)
  BY <1>2, AnnounceKeeps
<1>3. CASE \E m \in network : Receive(m)
  <2>1. PICK m \in network : Receive(m)
    BY <1>3
  <2>2. ReceiveChat(m) \/ ReceiveSummary(m) \/ ReceiveRequest(m) \/ ReceiveResponse(m)
    BY <2>1 DEF Receive
  <2>3. QED
    BY <2>2, ReceiveChatKeeps, ReceiveSummaryKeeps, ReceiveRequestKeeps, ReceiveResponseKeeps
<1>4. CASE \/ \E p \in Peer : Join(p) \/ Leave(p)
           \/ \E p, q \in Peer : CoolDown(p, q)
           \/ \E m \in network : Lose(m)
           \/ UNCHANGED vars
  BY <1>4, OthersKeep
<1>5. QED
  BY <1>1, <1>2, <1>3, <1>4 DEF Next

(* The invariant holds in every reachable state. *)
THEOREM ChatInvHolds == Spec => []ChatInv
<1>1. ChatInv /\ [Next]_vars => ChatInv'
  BY NextInv
<1>2. QED
  BY InitInv, <1>1, PTL DEF Spec
-----------------------------------------------------------------------------
(* What follows from it *)

(* A peer keeps at most MaxMessages messages, all of which it met, and knows of no    *)
(* others what their authors had but messages that were sent (insert_record).         *)
THEOREM ChatTypeCorrect == Spec => []TypeOK
<1>1. ChatInv => TypeOK
  <2> SUFFICES ASSUME ChatInv PROVE TypeOK
    OBVIOUS
  <2>1. TypesOK /\ PeersOK /\ ContextOK
    BY DEF ChatInv, PastOK
  <2>2. \A p \in Peer : history[p] \subseteq met[p] /\ Cardinality(history[p]) <= MaxMessages
    BY <2>1, HistoryIs
  <2>3. \A p \in Peer : asked[p] \subseteq Peer \ {p}
    BY <2>1 DEF TypesOK
  <2>4. QED
    BY <2>1, <2>2, <2>3 DEF TypesOK, TypeOK, ContextOK
<1>2. QED
  BY ChatInvHolds, <1>1, PTL

(* With agreeing clocks what a peer met and has not is older than all of a full        *)
(* history, in whatever order and however often the messages came (insert_record).     *)
THEOREM KeepsTheNewest == Spec => []NewestAreKept
<1>1. ChatInv => NewestAreKept
  BY DEF ChatInv, PeersNewest, Newest, PeerPair, NewestAreKept
<1>2. QED
  BY ChatInvHolds, <1>1, PTL

(* Whatever the clocks say, nothing is shown before what its author had seen when it   *)
(* was written (sort_history_causally, history_frontier).                              *)
THEOREM ShowsCausesFirst == Spec => []CausalOrder
<1>1. ChatInv => CausalOrder
  <2> SUFFICES ASSUME ChatInv, NEW p \in Peer,
                      NEW i \in 1..Len(Sorted[history[p]]), NEW j \in 1..Len(Sorted[history[p]]),
                      i < j
               PROVE  Sorted[history[p]][j] \notin context[Id(Sorted[history[p]][i])]
    BY DEF CausalOrder
  <2> DEFINE s == Sorted[history[p]]
  <2>1. history[p] \subseteq Sent /\ IsFiniteSet(history[p])
    BY HistoryIs DEF ChatInv
  <2>2. history[p] \in Histories /\ Grounded(history[p])
    BY <2>1, SentSound, SoundPart DEF ChatInv
  <2>3. s \in Seq(history[p]) /\ ~DependsOn(s[i], s[j])
    BY <2>2, SortedIs
  <2> HIDE DEF s
  <2>4. s[i] \in Sent
    BY <2>1, <2>3 DEF s
  <2>5. s[j] \notin context[Id(s[i])]
    BY <2>3, <2>4 DEF ChatInv, PastOK, ContextOK
  <2>6. QED
    BY <2>5 DEF s
<1>2. QED
  BY ChatInvHolds, <1>1, PTL

(* How the histories change: by one message, by those of a response, or not at all. *)
LEMMA HistoriesChange ==
  ASSUME ChatInv, [Next]_vars
  PROVE  /\ skew' = skew /\ \A p \in Peer : met[p] \subseteq met'[p]
         /\ \/ \E m \in network \ network' : m.type = "Response"
            \/ history' = history
            \/ \E p \in Peer, r \in Sent' : Take(p, <<r>>)
<1> DEFINE Grown == \A p \in Peer : met[p] \subseteq met'[p]
<1>0. met \in [Peer -> SUBSET Record]
  BY DEF ChatInv, TypesOK
<1>1. \A p \in Peer : \A records : Take(p, records) => Grown
  BY <1>0 DEF Take
<1>2. CASE \E p \in Peer : Send(p)
  <2>1. PICK p \in Peer : Send(p)
    BY <1>2
  <2> DEFINE r == SentBy(p)
  <2>2. Take(p, <<r>>) /\ skew' = skew
    BY <2>1 DEF Send, SentBy, IdsOf
  <2>3. Sent' = Sent \cup ToSet(<<r>>) /\ r \in ToSet(<<r>>)
    <3> HIDE DEF r
    <3>1. Sent' = Sent \cup ToSet(<<r>>)
      BY <2>2, TakeSends DEF ChatInv
    <3>2. r \in ToSet(<<r>>)
      BY DEF ToSet
    <3>3. QED
      BY <3>1, <3>2
  <2> HIDE DEF r
  <2>4. QED
    BY <1>1, <2>2, <2>3
<1>3. CASE \E m \in network : Receive(m)
  <2>1. PICK m \in network : Receive(m)
    BY <1>3
  <2>2. m.to \in Peer
    BY MessageTypes
  <2>3. CASE ReceiveChat(m)
    <3>1. m.record \in Sent'
      BY <2>3, MessageTypes, ReceiveChatKeeps DEF ReceiveChat
    <3>2. Take(m.to, <<m.record>>) /\ skew' = skew
      BY <2>3 DEF ReceiveChat
    <3>3. QED
      BY <1>1, <2>2, <3>1, <3>2
  <2>4. CASE ReceiveResponse(m)
    <3>1. /\ m.type = "Response" /\ m \notin network' /\ skew' = skew
          /\ Take(m.to, Sorted[m.messages])
      BY <2>4 DEF ReceiveResponse
    <3>2. QED
      BY <1>1, <2>1, <2>2, <3>1
  <2>5. CASE ReceiveSummary(m) \/ ReceiveRequest(m)
    BY <2>5 DEF ReceiveSummary, ReceiveRequest
  <2>6. QED
    BY <2>1, <2>3, <2>4, <2>5 DEF Receive
<1>4. CASE \/ \E p \in Peer : Announce(p) \/ Join(p) \/ Leave(p)
           \/ \E p, q \in Peer : CoolDown(p, q)
           \/ \E m \in network : Lose(m)
           \/ UNCHANGED vars
  BY <1>4 DEF Announce, Join, Leave, CoolDown, Lose, vars
<1>5. QED
  BY <1>2, <1>3, <1>4 DEF Next

(* A message that goes leaves none behind that its author had before it; of several    *)
(* that a response brings this needs clocks that agree (insert_record).                *)
THEOREM DropsCausesFirst == Spec => AnswersGoLast
<1> DEFINE OneAtATime == \A m \in network \ network' : m.type # "Response"
           NothingLeft == \A p \in Peer : \A gone \in history[p] \ history'[p] :
                            context[Id(gone)] \cap history'[p] = {}
<1>1. ASSUME ChatInv, ChatInv', [Next]_vars, ClocksAgree \/ OneAtATime
      PROVE  NothingLeft
  <2>1. SUFFICES ASSUME NEW p \in Peer, NEW gone \in history[p] \ history'[p],
                        NEW before \in context[Id(gone)] \cap history'[p]
                 PROVE  FALSE
    OBVIOUS
  <2>2. /\ skew' = skew /\ met[p] \subseteq met'[p]
        /\ \/ \E m \in network \ network' : m.type = "Response"
           \/ history' = history
           \/ \E q \in Peer, r \in Sent' : Take(q, <<r>>)
    BY <1>1, HistoriesChange
  <2>3. gone \in Sent /\ gone \in met[p] /\ gone \in Record
    BY <1>1, HistoryIs DEF ChatInv
  <2>4. DependsOn(gone, before) /\ before \in Sent /\ before \in Record
    <3>1. Id(gone) \in DOMAIN context
      BY <1>1, <2>3 DEF ChatInv, PastOK, SentOK
    <3>2. DependsOn(gone, before) /\ before \in Sent
      BY <1>1, <2>3, <3>1 DEF ChatInv, PastOK, ContextOK
    <3>3. QED
      BY <1>1, <3>2 DEF ChatInv, PastOK, Timed
  <2>5. CASE ClocksAgree
    <3>1. Earlier(before, gone)
      BY <1>1, <2>3, <2>4, <2>5, SentSound DEF ChatInv, InTime
    <3>2. ClocksAgree'
      BY <2>2, <2>5 DEF ClocksAgree
    <3>3. Newest(PeerPair(p), met[p])'
      BY <1>1, <3>2 DEF ChatInv, PeersNewest
    <3>4. PeerPair(p).history' = history'[p]
      BY DEF PeerPair
    <3>5. Earlier(gone, before)
      BY <2>2, <2>3, <3>3, <3>4 DEF Newest
    <3>6. QED
      BY <2>3, <2>4, <3>1, <3>5, EarlierOrder
  <2>6. CASE OneAtATime
    <3>1. history' # history
      OBVIOUS
    <3>2. PICK q \in Peer, r \in Sent' : Take(q, <<r>>)
      BY <2>2, <2>6, <3>1
    <3>3. Timed(Sent', skew')
      BY <1>1 DEF ChatInv, PastOK
    <3>4. Sound(Sent') /\ r \in Record
      BY <3>2, <3>3, TimedSound DEF Timed
    <3>5. history' = [history EXCEPT ![q] = Insert(PeerPair(q), r).history]
      BY <1>1, <3>2, <3>4, TakeOne DEF ChatInv
    <3>6. history \in [Peer -> SUBSET Record]
      BY <1>1 DEF ChatInv, TypesOK
    <3>7. q = p
      BY <3>5, <3>6
    <3>8. history'[p] = Insert(PeerPair(p), r).history /\ PeerPair(p).history = history[p]
      BY <3>5, <3>6, <3>7 DEF PeerPair
    <3>9. PairOK(PeerPair(p), Sent')
      <4>1. PairOK(PeerPair(p), met[p])
        BY <1>1 DEF ChatInv, PeersOK
      <4>2. met[p] \subseteq Sent'
        BY <2>2 DEF Sent
      <4>3. QED
        BY <4>1, <4>2 DEF PairOK
    <3>10. ~DependsOn(gone, before)
      BY <2>1, <3>2, <3>4, <3>8, <3>9, InsertDrops
    <3>11. QED
      BY <2>4, <3>10
  <2>7. QED
    BY <1>1, <2>5, <2>6
<1>2. ChatInv /\ ChatInv' /\ [Next]_vars => [ClocksAgree \/ OneAtATime => NothingLeft]_vars
  BY <1>1
<1>3. QED
  BY ChatInvHolds, <1>2, PTL DEF Spec, AnswersGoLast
=============================================================================
