-------------------------- MODULE LinkQueueProofs ---------------------------
(***************************************************************************)
(* Theorems about LinkQueue, for any number of threads, blocks, links and  *)
(* places, and their proofs.                                               *)
(***************************************************************************)
EXTENDS LinkQueue, LinkRingProofs

\* A ring that is created has places, for the first link too.
LEMMA NewRingIsRing ==
  ASSUME setup \in Setups
  PROVE  IsRing(NewRing) /\ Contents(NewRing) = <<>>
<1>1. FirstCnt[setup.sort] \in Nat \ {0, 1}
  BY QueueAssumption
<1> QED BY <1>1, CreatedIsRing DEF NewRing

\* What a call puts in a ring goes to the end that the call names.
LEMMA PutOfRing ==
  ASSUME TypeOK, NEW t \in Threads, Takes(t), NEW r, IsRing(r), ~Full(r)
  PROVE  /\ IsRing(Put(t, r))
         /\ Op(t) = "enque"  => Contents(Put(t, r)) = Append(Contents(r), asked[t].link)
         /\ Op(t) = "preque" => Contents(Put(t, r)) = <<asked[t].link>> \o Contents(r)
<1>1. asked[t].link \in Links
  BY DEF TypeOK, Requests, Takes
<1> QED BY <1>1, AtTopOfRing, AtBottomOfRing DEF Put

\* What is found in a ring is a link or nothing.
LEMMA FoundInRing ==
  ASSUME NEW r, IsRing(r)
  PROVE  /\ \A i \in Int : Peeked(r, i) \in Links \cup {NoLink}
         /\ ~Empty(r) => r.node[r.bottom] \in Links /\ r.node[Before(r, r.top)] \in Links
<1>1. Contents(r) \in Seq(Links)
  BY ContentsOfRing
<1>2. \A i \in Int : Peeked(r, i) \in Links \cup {NoLink}
  <2> TAKE i \in Int
  <2> DEFINE q == Contents(r)
             j == IF i >= 0 THEN i + 1 ELSE Len(q) + 1 + i
  <2>1. Peeked(r, i) = IF j \in 1..Len(q) THEN q[j] ELSE NoLink
    BY PeekedOfRing
  <2>2. \A k \in 1..Len(q) : q[k] \in Links
    BY <1>1
  <2> HIDE DEF q, j
  <2> QED BY <2>1, <2>2
<1>3. ASSUME ~Empty(r) PROVE r.node[r.bottom] \in Links /\ r.node[Before(r, r.top)] \in Links
  <2>1. Contents(r) # <<>> /\ r.node[r.bottom] = Head(Contents(r))
    BY <1>3, WithoutBottomOfRing
  <2>2. r.node[Before(r, r.top)] = Contents(r)[Len(Contents(r))]
    BY <1>3, WithoutTopOfRing
  <2> QED BY <1>1, <2>1, <2>2
<1> QED BY <1>2, <1>3

\* What a walk from the bottom has before it is the ring from its place on.
LEMMA RestOfRing ==
  ASSUME NEW r, NEW i, IsRing(Rest(r, i)), i # r.top
  PROVE  /\ IsRing(Rest(r, After(r, i)))
         /\ \A k \in Int : k > 0 => Peeked(Rest(r, i), k) = Peeked(Rest(r, After(r, i)), k - 1)
<1> DEFINE s == Rest(r, i)
           u == Rest(r, After(r, i))
           q == Contents(s)
           v == Contents(u)
<1>1. ~Empty(s) /\ u = WithoutBottom(s)
  BY DEF Rest, Ring, Empty, WithoutBottom, After
<1> HIDE DEF s, u
<1>2. IsRing(s) /\ IsRing(u) /\ q # <<>> /\ v = Tail(q)
  BY <1>1, WithoutBottomOfRing DEF s
<1>3. q \in Seq(Links) /\ v \in Seq(Links)
  BY <1>2, ContentsOfRing
<1>4. ASSUME NEW k \in Int, k > 0 PROVE Peeked(s, k) = Peeked(u, k - 1)
  <2>0. k >= 0 /\ k - 1 \in Int /\ k - 1 >= 0
    BY <1>4
  <2>1. /\ Peeked(s, k) = IF k + 1 \in 1..Len(q) THEN q[k + 1] ELSE NoLink
        /\ Peeked(u, k - 1) = IF (k - 1) + 1 \in 1..Len(v) THEN v[(k - 1) + 1] ELSE NoLink
    <3>1. Peeked(s, k) = IF k + 1 \in 1..Len(q) THEN q[k + 1] ELSE NoLink
      BY <1>2, <2>0, PeekedOfRing
    <3>2. \A x \in Int : x >= 0 => Peeked(u, x) = IF x + 1 \in 1..Len(v) THEN v[x + 1] ELSE NoLink
      BY <1>2, PeekedOfRing
    <3> HIDE DEF q, v
    <3> QED BY <2>0, <3>1, <3>2
  <2> HIDE DEF q, v
  <2>2. Len(v) = Len(q) - 1 /\ Len(q) \in Nat /\ \A j \in 1..Len(v) : v[j] = q[j + 1]
    BY <1>2, <1>3
  <2>3. (k - 1) + 1 = k
    BY <1>4
  <2> QED BY <1>4, <2>1, <2>2, <2>3
<1> QED BY <1>2, <1>4 DEF s, u

\* What a walk from the top has before it is the ring as far as its place.
UpToPlace(r, i) == Ring(r.cnt, After(r, i), r.bottom, r.node)

\* The place before the one after a place is that place, and the other way round.
LEMMA BeforeAfter ==
  ASSUME NEW r, r.cnt \in Nat \ {0, 1}, NEW i \in 0..(r.cnt - 1)
  PROVE  Before(r, After(r, i)) = i /\ After(r, Before(r, i)) = i
BY DEF Before, After

\* The last link of the part that is left, and the part without it.
LEMMA UpToOfRing ==
  ASSUME NEW r, r.cnt \in Nat \ {0, 1}, NEW i \in 0..(r.cnt - 1),
         IsRing(UpToPlace(r, i)), ~Empty(UpToPlace(r, i))
  PROVE  /\ Peeked(UpToPlace(r, i), -1) = r.node[i]
         /\ i # r.bottom => /\ IsRing(UpToPlace(r, Before(r, i))) /\ ~Empty(UpToPlace(r, Before(r, i)))
                            /\ \A k \in Int : k < 0 =>
                                 Peeked(UpToPlace(r, i), k - 1) = Peeked(UpToPlace(r, Before(r, i)), k)
         /\ i = r.bottom => \A k \in Int : k < 0 => Peeked(UpToPlace(r, i), k - 1) = NoLink
<1> DEFINE s == UpToPlace(r, i)
           u == WithoutTop(s)
           q == Contents(s)
           v == Contents(u)
<1>1. Before(r, After(r, i)) = i /\ After(r, Before(r, i)) = i
  BY BeforeAfter
<1>2. /\ s.cnt = r.cnt /\ s.top = After(r, i) /\ s.bottom = r.bottom /\ s.node = r.node
      /\ Before(s, s.top) = i
  BY <1>1 DEF UpToPlace, Ring, Before
<1>3. u = Ring(r.cnt, i, r.bottom, r.node)
  BY <1>2 DEF WithoutTop
<1>4. UpToPlace(r, Before(r, i)) = u
  BY <1>1, <1>3 DEF UpToPlace
<1>5. IsRing(s) /\ ~Empty(s)
  OBVIOUS
<1> HIDE DEF s
<1>6. /\ IsRing(u) /\ q # <<>> /\ r.node[i] = q[Len(q)] /\ v = SubSeq(q, 1, Len(q) - 1)
  BY <1>2, <1>5, WithoutTopOfRing
<1>7. Empty(u) <=> i = r.bottom
  BY <1>3 DEF Empty, Ring
<1> HIDE DEF u
<1>8. q \in Seq(Links) /\ v \in Seq(Links) /\ Len(q) \in Nat \ {0}
  BY <1>5, <1>6, ContentsOfRing
<1>9. Len(v) = Len(q) - 1 /\ \A j \in 1..Len(v) : v[j] = q[j]
  <2> DEFINE n == Len(q) - 1
  <2>1. n \in Nat /\ n <= Len(q) /\ v = SubSeq(q, 1, n)
    BY <1>6, <1>8
  <2>2. \A j \in 1..n : j \in 1..Len(q)
    BY <1>8
  <2> HIDE DEF q, v, n
  <2>3. Len(v) = n /\ \A j \in 1..n : v[j] = q[j]
    BY <1>8, <2>1, <2>2
  <2> QED BY <2>3 DEF n
<1>10. Empty(u) <=> Len(v) = 0
  BY <1>6, LengthOfRing, ContentsOfRing DEF IsRing
<1>11. \A k \in Int : k < 0 =>
         /\ Peeked(s, k) = IF Len(q) + 1 + k \in 1..Len(q) THEN q[Len(q) + 1 + k] ELSE NoLink
         /\ Peeked(u, k) = IF Len(v) + 1 + k \in 1..Len(v) THEN v[Len(v) + 1 + k] ELSE NoLink
  <2>1. ASSUME NEW k \in Int, k < 0
        PROVE  Peeked(s, k) = IF Len(q) + 1 + k \in 1..Len(q) THEN q[Len(q) + 1 + k] ELSE NoLink
    BY <1>5, <2>1, PeekedOfRing
  <2>2. ASSUME NEW k \in Int, k < 0
        PROVE  Peeked(u, k) = IF Len(v) + 1 + k \in 1..Len(v) THEN v[Len(v) + 1 + k] ELSE NoLink
    <3>1. IsRing(u)
      BY <1>6
    <3> QED BY <2>2, <3>1, PeekedOfRing
  <2> HIDE DEF q, v
  <2> QED BY <2>1, <2>2
<1> DEFINE n == Len(q)
           m == Len(v)
<1> HIDE DEF q, v
<1>12. n \in Nat \ {0} /\ m = n - 1
  BY <1>8, <1>9
<1>13. Peeked(s, -1) = r.node[i]
  <2>1. Peeked(s, -1) = IF n + 1 + (-1) \in 1..n THEN q[n + 1 + (-1)] ELSE NoLink
    BY <1>11
  <2>2. n + 1 + (-1) = n /\ n \in 1..n
    BY <1>12
  <2> QED BY <1>6, <2>1, <2>2
<1>14. ASSUME NEW k \in Int, k < 0
       PROVE  Peeked(s, k - 1) = Peeked(u, k)
  <2>1. /\ Peeked(s, k - 1) = IF n + 1 + (k - 1) \in 1..n THEN q[n + 1 + (k - 1)] ELSE NoLink
        /\ Peeked(u, k) = IF m + 1 + k \in 1..m THEN v[m + 1 + k] ELSE NoLink
    BY <1>11, <1>14
  <2> HIDE DEF n, m
  <2>2. n + 1 + (k - 1) = m + 1 + k /\ (m + 1 + k \in 1..m <=> n + 1 + (k - 1) \in 1..n)
    BY <1>12, <1>14
  <2>3. \A j \in 1..m : v[j] = q[j]
    BY <1>9 DEF m
  <2> QED BY <2>1, <2>2, <2>3
<1>15. ASSUME NEW k \in Int, k < 0, m = 0 PROVE Peeked(u, k) = NoLink
  <2>1. Peeked(u, k) = IF m + 1 + k \in 1..m THEN v[m + 1 + k] ELSE NoLink
    BY <1>11, <1>15
  <2> HIDE DEF m
  <2> QED BY <1>15, <2>1
<1>16. i = r.bottom => m = 0
  BY <1>7, <1>10
<1> QED BY <1>4, <1>6, <1>7, <1>13, <1>14, <1>15, <1>16 DEF s
-----------------------------------------------------------------------------
(***************************************************************************)
(* The variables have their types                                          *)
(***************************************************************************)
\* The walks are in their rings.
WalkType ==
  /\ walk \in [Threads -> [at : Nat, left : Int]]
  /\ \A t \in Threads : pc[t] = "walk" /\ ptr[t] \in Live => walk[t].at < heap[ptr[t]].cnt

\* The other variables.
RestType ==
  /\ setup \in Setups /\ queue \in Blocks \cup {Null}
  /\ Live \subseteq Blocks /\ \A b \in Live : IsRing(heap[b])
  /\ lock \in Threads \cup {NoOne}
  /\ pc \in [Threads -> PCs] /\ ptr \in [Threads -> Blocks \cup {Null}]
  /\ asked \in [Threads -> Requests] /\ got \in [Threads -> Links \cup {NoLink, Pending}]
  /\ fault \in BOOLEAN

LEMMA TypeInit == Init => TypeOK
<1> SUFFICES ASSUME Init PROVE TypeOK
  OBVIOUS
<1>1. setup \in Setups /\ IsRing(NewRing)
  BY NewRingIsRing DEF Init
<1>2. Live \subseteq Blocks /\ queue \in Blocks \cup {Null} /\ \A b \in Live : IsRing(heap[b])
  <2>1. CASE setup.early
    BY <1>1, <2>1 DEF Init, Live
  <2>2. CASE ~setup.early
    BY <1>1, <2>2 DEF Init, Live
  <2> QED BY <2>1, <2>2
<1>3. [op |-> "deque", link |-> NoLink, idx |-> 0] \in Requests
  BY QueueAssumption DEF Requests, Ops
<1>4. Still \in [at : Nat, left : Int]
  BY DEF Still
<1> QED BY <1>1, <1>2, <1>3, <1>4 DEF Init, TypeOK, PCs

\* A step of one thread leaves the others where they are.
LEMMA OthersStay ==
  ASSUME TypeOK, NEW t \in Threads, ThreadNext(t)
  PROVE  /\ setup' = setup
         /\ \A u \in Threads \ {t} : /\ pc'[u] = pc[u] /\ ptr'[u] = ptr[u] /\ walk'[u] = walk[u]
                                     /\ asked'[u] = asked[u] /\ got'[u] = got[u]
<1> USE DEF TypeOK
<1>1. CASE Call(t) \/ Create(t) \/ Lock(t) \/ LockDelete(t) \/ Free(t) \/ Fault(t)
  BY <1>1 DEF Call, Create, Lock, LockDelete, Free, Fault, Goto
<1>2. CASE LockNothing(t) \/ WalkEnds(t) \/ Clear(t)
  BY <1>2 DEF LockNothing, WalkEnds, Clear, Return, Goto
<1>3. CASE Start(t)
  BY <1>3 DEF Start, StartCreate, StartNothing, StartPeek, StartDelete, StartLock, Return, Goto
<1>4. CASE Locked(t)
  BY <1>4 DEF Locked, PutLink, PutExpand, PutNothing, Deque, Unque, PeekLocked, MakeEmpty, Return, Goto
<1>5. CASE PeekFrom(t)
  BY <1>5 DEF PeekFrom, Goto
<1>6. CASE WalkOn(t)
  BY <1>6 DEF WalkOn
<1> QED BY <1>1, <1>2, <1>3, <1>4, <1>5, <1>6 DEF ThreadNext

\* A ring that a thread points to keeps its places while it is allocated.
LEMMA PlacesStay ==
  ASSUME TypeOK, NEW t \in Threads, ThreadNext(t), NEW u \in Threads, ptr[u] \in Live'
  PROVE  ptr[u] \in Live /\ heap'[ptr[u]].cnt = heap[ptr[u]].cnt
<1>1. CASE heap' = heap
  BY <1>1 DEF Live
<1>2. CASE Create(t) \/ PutExpand(t)
  <2>1. PICK b \in Fresh : \E n :
           \/ heap' = [c \in Live \cup {b} |-> IF c = b THEN n ELSE heap[c]]
           \/ heap' = [c \in (Live \ {queue}) \cup {b} |-> IF c = b THEN n ELSE heap[c]]
    BY <1>2 DEF Create, PutExpand
  <2>2. ptr[u] # b
    BY DEF Fresh
  <2> QED BY <2>1, <2>2 DEF Live
<1>3. CASE Free(t)
  BY <1>3 DEF Free, Live
<1>4. ASSUME NEW b \in Live, NEW n, heap' = [heap EXCEPT ![b] = n], n.cnt = heap[b].cnt
      PROVE  ptr[u] \in Live /\ heap'[ptr[u]].cnt = heap[ptr[u]].cnt
  BY <1>4 DEF Live
<1>5. CASE PutLink(t)
  <2>1. ptr[t] \in Live /\ heap' = [heap EXCEPT ![ptr[t]] = Put(t, heap[ptr[t]])]
    BY <1>5 DEF PutLink, Holds, Uses
  <2>2. Put(t, heap[ptr[t]]).cnt = heap[ptr[t]].cnt
    BY DEF Put, AtTop, AtBottom, Ring
  <2> QED BY <1>4, <2>1, <2>2
<1>6. CASE Deque(t) \/ Unque(t) \/ MakeEmpty(t)
  <2>1. queue \in Live
    BY <1>6 DEF Deque, Unque, MakeEmpty, Holds, Uses, Puts
  <2>2. \/ heap' = heap
        \/ heap' = [heap EXCEPT ![queue] = WithoutBottom(heap[queue])]
        \/ heap' = [heap EXCEPT ![queue] = WithoutTop(heap[queue])]
        \/ heap' = [heap EXCEPT ![queue] = Emptied(heap[queue])]
    BY <1>6 DEF Deque, Unque, MakeEmpty
  <2>3. /\ WithoutBottom(heap[queue]).cnt = heap[queue].cnt
        /\ WithoutTop(heap[queue]).cnt = heap[queue].cnt
        /\ Emptied(heap[queue]).cnt = heap[queue].cnt
    BY DEF WithoutBottom, WithoutTop, Emptied, Ring
  <2> QED BY <1>1, <1>4, <2>1, <2>2, <2>3
<1>7. CASE \/ Call(t) \/ Start(t) \/ Lock(t) \/ LockNothing(t) \/ LockDelete(t) \/ PutNothing(t)
           \/ PeekLocked(t) \/ PeekFrom(t) \/ WalkOn(t) \/ WalkEnds(t) \/ Clear(t) \/ Fault(t)
  <2>1. heap' = heap
    BY <1>7 DEF Call, Start, StartCreate, StartNothing, StartPeek, StartDelete, StartLock, Lock,
                LockNothing, LockDelete, PutNothing, PeekLocked, PeekFrom, WalkOn, WalkEnds, Clear, Fault
  <2> QED BY <1>1, <2>1
<1> QED BY <1>2, <1>3, <1>5, <1>6, <1>7 DEF ThreadNext, Locked

\* A walk starts and stays in its ring.
LEMMA WalkTypeStep ==
  ASSUME TypeOK, NEW t \in Threads, ThreadNext(t)
  PROVE  WalkType'
<1> DEFINE W == [at : Nat, left : Int]
<1>1. pc \in [Threads -> PCs] /\ ptr \in [Threads -> Blocks \cup {Null}] /\ walk \in [Threads -> W]
  BY DEF TypeOK
<1>2. \A u \in Threads : pc[u] = "walk" /\ ptr[u] \in Live => walk[u].at < heap[ptr[u]].cnt
  BY DEF TypeOK
<1>3. ASSUME NEW u \in Threads \ {t}, pc'[u] = "walk", ptr'[u] \in Live'
      PROVE  walk'[u].at < heap'[ptr'[u]].cnt
  <2>1. pc'[u] = pc[u] /\ ptr'[u] = ptr[u] /\ walk'[u] = walk[u]
    BY OthersStay
  <2>2. ptr[u] \in Live /\ heap'[ptr[u]].cnt = heap[ptr[u]].cnt
    BY <1>3, <2>1, PlacesStay
  <2> QED BY <1>2, <1>3, <2>1, <2>2
<1>4. CASE PeekFrom(t) \/ WalkOn(t)
  <2> DEFINE h == heap[ptr[t]]
             i == walk[t].at
             k == walk[t].left
             q == asked[t].idx
  <2>1. ptr[t] \in Live /\ heap' = heap /\ ptr' = ptr
    BY <1>4 DEF PeekFrom, WalkOn
  <2>2. IsRing(h)
    BY <2>1 DEF TypeOK
  <2>3. h.cnt \in Nat \ {0, 1} /\ h.top \in 0..(h.cnt - 1) /\ h.bottom \in 0..(h.cnt - 1)
    BY <2>2 DEF IsRing, HasPlaces
  <2>4. q \in Int /\ i \in Nat /\ k \in Int
    BY <1>1, QueueAssumption DEF TypeOK, Requests
  <2>5. WalkOn(t) => i < h.cnt
    BY <1>2, <2>1 DEF WalkOn, Is
  <2>6. \/ WalkOn(t) /\ walk' = [walk EXCEPT ![t] = [at |-> Before(h, i), left |-> k + 1]]
        \/ WalkOn(t) /\ walk' = [walk EXCEPT ![t] = [at |-> After(h, i), left |-> k - 1]]
        \/ PeekFrom(t) /\ walk' = [walk EXCEPT ![t] = [at |-> Before(h, h.top), left |-> q + 1]]
        \/ PeekFrom(t) /\ walk' = [walk EXCEPT ![t] = [at |-> h.bottom, left |-> q]]
    BY <1>4 DEF PeekFrom, WalkOn
  <2> HIDE DEF h, i, k, q
  <2>7. ASSUME NEW x \in 0..(h.cnt - 1), NEW y \in Int, walk' = [walk EXCEPT ![t] = [at |-> x, left |-> y]]
        PROVE  WalkType'
    <3>0. [at |-> x, left |-> y] \in W
      BY <2>3, <2>7
    <3>1. walk' \in [Threads -> W] /\ walk'[t].at = x
      BY <1>1, <2>7, <3>0
    <3>2. walk'[t].at < heap'[ptr'[t]].cnt
      BY <2>1, <2>3, <2>7, <3>1 DEF h
    <3> QED BY <1>3, <3>1, <3>2 DEF WalkType
  <2>8. h.bottom \in 0..(h.cnt - 1) /\ Before(h, h.top) \in 0..(h.cnt - 1)
    BY <2>3 DEF Before
  <2>9. i < h.cnt => Before(h, i) \in 0..(h.cnt - 1) /\ After(h, i) \in 0..(h.cnt - 1)
    BY <2>3, <2>4 DEF Before, After
  <2>10. k + 1 \in Int /\ k - 1 \in Int /\ q + 1 \in Int
    BY <2>4
  <2> QED BY <2>4, <2>5, <2>6, <2>7, <2>8, <2>9, <2>10
<1>5. ASSUME walk' = walk \/ walk' = [walk EXCEPT ![t] = Still], pc'[t] # "walk"
      PROVE  WalkType'
  <2>1. Still \in W
    BY DEF Still
  <2>2. walk' \in [Threads -> W]
    BY <1>1, <1>5, <2>1
  <2> QED BY <1>3, <1>5, <2>2 DEF WalkType
<1>6. CASE \/ Call(t) \/ Start(t) \/ Create(t) \/ Lock(t) \/ LockNothing(t) \/ LockDelete(t) \/ Locked(t)
           \/ WalkEnds(t) \/ Free(t) \/ Clear(t)
  <2>1. walk' = walk \/ walk' = [walk EXCEPT ![t] = Still]
    BY <1>6 DEF Call, Start, StartCreate, StartNothing, StartPeek, StartDelete, StartLock, Create, Lock,
                LockNothing, LockDelete, Locked, PutLink, PutExpand, PutNothing, Deque, Unque, PeekLocked,
                MakeEmpty, WalkEnds, Free, Clear, Return
  <2>2. \E x : x # "walk" /\ pc' = [pc EXCEPT ![t] = x]
    BY <1>6 DEF Call, Start, StartCreate, StartNothing, StartPeek, StartDelete, StartLock, Create, Lock,
                LockNothing, LockDelete, Locked, PutLink, PutExpand, PutNothing, Deque, Unque, PeekLocked,
                MakeEmpty, WalkEnds, Free, Clear, Return, Goto
  <2> QED BY <1>1, <1>5, <2>1, <2>2
<1>7. CASE Fault(t)
  BY <1>1, <1>2, <1>7 DEF Fault, WalkType, Live
<1> QED BY <1>4, <1>6, <1>7 DEF ThreadNext

\* A step of one thread changes one entry of each function.
LEMMA TypeStep == TypeOK /\ [Next]_vars => TypeOK'
<1> SUFFICES ASSUME TypeOK, [Next]_vars PROVE TypeOK'
  OBVIOUS
<1>1. CASE UNCHANGED vars
  BY <1>1 DEF vars, Live, TypeOK
<1>0. RestType
  BY DEF TypeOK, RestType
<1> USE <1>0 DEF RestType
<1>2. ASSUME NEW t \in Threads, Call(t) PROVE RestType'
  BY <1>2 DEF Call, Goto, PCs, Live
<1>3. ASSUME NEW t \in Threads, Start(t) PROVE RestType'
  <2>1. CASE StartNothing(t)
    BY <2>1 DEF StartNothing, Return, Goto, PCs, Live
  <2>2. CASE StartCreate(t) \/ StartPeek(t) \/ StartDelete(t) \/ StartLock(t)
    BY <2>2 DEF StartCreate, StartPeek, StartDelete, StartLock, Goto, PCs, Live
  <2> QED BY <1>3, <2>1, <2>2 DEF Start
<1>4. ASSUME NEW t \in Threads, Create(t) PROVE RestType'
  <2>1. PICK b \in Fresh :
          /\ heap' = [c \in Live \cup {b} |-> IF c = b THEN NewRing ELSE heap[c]]
          /\ queue' = b
    BY <1>4 DEF Create
  <2>2. Live' \subseteq Blocks /\ \A c \in Live' : IsRing(heap'[c])
    BY <2>1, NewRingIsRing DEF Live, Fresh
  <2>3. pc' \in [Threads -> PCs] /\ queue' \in Blocks
    BY <1>4, <2>1 DEF Create, Goto, PCs, Fresh
  <2> QED BY <1>4, <2>2, <2>3 DEF Create
<1>5. ASSUME NEW t \in Threads, Lock(t) \/ LockDelete(t) PROVE RestType'
  BY <1>5 DEF Lock, LockDelete, Goto, PCs, Live
<1>6. ASSUME NEW t \in Threads, LockNothing(t) PROVE RestType'
  BY <1>6 DEF LockNothing, Return, Goto, PCs, Live
<1>7. ASSUME NEW t \in Threads, Locked(t) PROVE RestType'
  <2>1. /\ lock' \in Threads \cup {NoOne}
        /\ pc' \in [Threads -> PCs] /\ ptr' \in [Threads -> Blocks \cup {Null}]
        /\ UNCHANGED <<setup, asked, fault>>
    <3>1. lock' = NoOne /\ \E l : Return(t, l)
      <4>1. CASE PutLink(t) \/ PutExpand(t) \/ PutNothing(t)
        BY <4>1, Zenon DEF PutLink, PutExpand, PutNothing, Unlock
      <4>2. CASE Deque(t)
        BY <4>2, Zenon DEF Deque, Unlock
      <4>3. CASE Unque(t)
        BY <4>3, Zenon DEF Unque, Unlock
      <4>4. CASE PeekLocked(t) \/ MakeEmpty(t)
        BY <4>4, Zenon DEF PeekLocked, MakeEmpty, Unlock
      <4> QED BY <1>7, <4>1, <4>2, <4>3, <4>4 DEF Locked
    <3>2. PICK l : Return(t, l)
      BY <3>1
    <3>3. /\ pc' = [pc EXCEPT ![t] = "idle"] /\ ptr' = [ptr EXCEPT ![t] = Null]
          /\ setup' = setup /\ asked' = asked /\ fault' = fault
      BY <3>2 DEF Return, Goto
    <3>4. pc' \in [Threads -> PCs] /\ ptr' \in [Threads -> Blocks \cup {Null}]
      BY <3>3 DEF PCs
    <3> QED BY <3>1, <3>3, <3>4
  <2>2. queue' \in Blocks \cup {Null}
    <3>1. CASE PutLink(t) \/ PutNothing(t)
      BY <3>1 DEF PutLink, PutNothing, WriteBack
    <3>2. CASE PutExpand(t)
      BY <3>2 DEF PutExpand, Fresh
    <3>3. CASE Deque(t) \/ Unque(t) \/ PeekLocked(t) \/ MakeEmpty(t)
      BY <3>3 DEF Deque, Unque, PeekLocked, MakeEmpty
    <3> QED BY <1>7, <3>1, <3>2, <3>3 DEF Locked
  <2>3. got' \in [Threads -> Links \cup {NoLink, Pending}]
    <3>1. CASE PutLink(t) \/ PutExpand(t) \/ PutNothing(t) \/ MakeEmpty(t)
      BY <3>1 DEF PutLink, PutExpand, PutNothing, MakeEmpty, Return
    <3>2. CASE Deque(t) \/ Unque(t)
      <4>1. queue \in Live
        BY <3>2 DEF Deque, Unque, Holds, Uses, Puts
      <4> DEFINE r == heap[queue]
      <4>2. IsRing(r)
        BY <4>1
      <4> HIDE DEF r
      <4>3. ~Empty(r) => r.node[r.bottom] \in Links /\ r.node[Before(r, r.top)] \in Links
        BY <4>2, FoundInRing
      <4> QED BY <3>2, <4>3 DEF Deque, Unque, Return, r
    <3>3. CASE PeekLocked(t)
      <4>1. queue \in Live
        BY <3>3 DEF PeekLocked, Holds, Uses, Puts
      <4>2. asked[t].idx \in Int
        BY QueueAssumption DEF Requests
      <4>3. Peeked(heap[queue], asked[t].idx) \in Links \cup {NoLink}
        BY <4>1, <4>2, FoundInRing
      <4> QED BY <3>3, <4>3 DEF PeekLocked, Return
    <3> QED BY <1>7, <3>1, <3>2, <3>3 DEF Locked
  <2>4. Live' \subseteq Blocks /\ \A c \in Live' : IsRing(heap'[c])
    <3>1. CASE PutLink(t)
      <4>1. ptr[t] \in Live /\ ~Full(heap[ptr[t]])
        BY <3>1 DEF PutLink, Holds, Uses, Grows
      <4>2. IsRing(Put(t, heap[ptr[t]]))
        BY <3>1, <4>1, PutOfRing DEF PutLink
      <4> QED BY <3>1, <4>1, <4>2 DEF PutLink, Live
    <3>2. CASE PutExpand(t)
      <4>1. queue \in Live /\ Takes(t)
        BY <3>2 DEF PutExpand, Holds, Uses, Grows
      <4>2. IsRing(Put(t, Expanded(heap[queue])))
        BY <4>1, ExpandedOfRing, PutOfRing
      <4>3. PICK b \in Fresh :
              heap' = [c \in (Live \ {queue}) \cup {b} |->
                         IF c = b THEN Put(t, Expanded(heap[queue])) ELSE heap[c]]
        BY <3>2 DEF PutExpand
      <4> QED BY <4>2, <4>3 DEF Live, Fresh
    <3>3. CASE PutNothing(t) \/ PeekLocked(t)
      BY <3>3 DEF PutNothing, PeekLocked, Live
    <3>4. CASE Deque(t) \/ Unque(t) \/ MakeEmpty(t)
      <4>1. queue \in Live
        BY <3>4 DEF Deque, Unque, MakeEmpty, Holds, Uses, Puts
      <4> DEFINE r == heap[queue]
      <4>2. IsRing(r)
        BY <4>1
      <4> HIDE DEF r
      <4>3. /\ IsRing(Emptied(r))
            /\ ~Empty(r) => IsRing(WithoutBottom(r)) /\ IsRing(WithoutTop(r))
        BY <4>2, EmptiedOfRing, WithoutBottomOfRing, WithoutTopOfRing
      <4>4. heap' = heap \/ \E s : IsRing(s) /\ heap' = [heap EXCEPT ![queue] = s]
        BY <3>4, <4>3 DEF Deque, Unque, MakeEmpty, r
      <4> QED BY <4>1, <4>4 DEF Live
    <3> QED BY <1>7, <3>1, <3>2, <3>3, <3>4 DEF Locked
  <2> QED BY <2>1, <2>2, <2>3, <2>4
<1>8. ASSUME NEW t \in Threads, WalkEnds(t) PROVE RestType'
  <2> DEFINE r == heap[ptr[t]]
             i == walk[t].at
  <2>1. IsRing(r) /\ i \in Nat /\ i < r.cnt
    BY <1>8 DEF WalkEnds, Is, TypeOK
  <2>2. got' = [got EXCEPT ![t] = r.node[i]] \/ got' = [got EXCEPT ![t] = NoLink]
    BY <1>8 DEF WalkEnds, Return
  <2> HIDE DEF r, i
  <2>3. r.node[i] \in Links \cup {NoLink}
    <3>1. i \in 0..(r.cnt - 1) /\ r.node \in [0..(r.cnt - 1) -> Links \cup {NoLink}]
      BY <2>1 DEF IsRing, HasPlaces
    <3> QED BY <3>1
  <2>4. got' \in [Threads -> Links \cup {NoLink, Pending}]
    BY <2>2, <2>3
  <2> QED BY <1>8, <2>4 DEF WalkEnds, Return, Goto, PCs, Live
<1>12. ASSUME NEW t \in Threads, PeekFrom(t) \/ WalkOn(t) PROVE RestType'
  BY <1>12 DEF PeekFrom, WalkOn, Goto, PCs, Live
<1>9. ASSUME NEW t \in Threads, Free(t) PROVE RestType'
  BY <1>9 DEF Free, Goto, PCs, Live
<1>10. ASSUME NEW t \in Threads, Clear(t) PROVE RestType'
  BY <1>10 DEF Clear, Return, Goto, PCs, Live
<1>11. ASSUME NEW t \in Threads, Fault(t) PROVE RestType'
  BY <1>11 DEF Fault, Live
<1>13. ASSUME NEW t \in Threads, ThreadNext(t) PROVE TypeOK'
  <2> HIDE DEF RestType
  <2>1. RestType'
    BY <1>2, <1>3, <1>4, <1>5, <1>6, <1>7, <1>8, <1>9, <1>10, <1>11, <1>12, <1>13 DEF ThreadNext
  <2>2. WalkType'
    BY <1>13, WalkTypeStep
  <2> QED BY <2>1, <2>2 DEF RestType, WalkType, TypeOK
<1> HIDE DEF RestType
<1> QED BY <1>1, <1>13 DEF Next, Stopped

\* Every ring in memory is whole, its used places hold links, and every variable has the
\* type that the code gives it.
THEOREM TypeCorrect == Spec => []TypeOK
BY TypeInit, TypeStep, PTL DEF Spec
-----------------------------------------------------------------------------
(***************************************************************************)
(* The lock                                                                *)
(***************************************************************************)
LEMMA LockStep == TypeOK /\ LockIsReturned /\ [Next]_vars => LockIsReturned'
<1> SUFFICES ASSUME TypeOK, LockIsReturned, [Next]_vars PROVE LockIsReturned'
  OBVIOUS
<1> USE DEF LockIsReturned
<1>0. NoOne \notin Threads /\ pc \in [Threads -> PCs] /\ lock \in Threads \cup {NoOne}
  BY QueueAssumption DEF TypeOK
<1>1. CASE UNCHANGED vars
  BY <1>1 DEF vars
<1>2. ASSUME NEW t \in Threads, Call(t) \/ Start(t) \/ Create(t) \/ LockNothing(t) \/ LockDelete(t)
                                  \/ PeekFrom(t) \/ WalkOn(t) \/ WalkEnds(t) \/ Free(t) \/ Clear(t)
      PROVE  LockIsReturned'
  <2>1. lock' = lock /\ pc[t] # "held" /\ \E at \in PCs \ {"held"} : pc' = [pc EXCEPT ![t] = at]
    <3>1. CASE Call(t) \/ Create(t) \/ LockDelete(t) \/ Free(t)
      BY <3>1 DEF Call, Create, LockDelete, Free, Is, Goto, PCs
    <3>2. CASE LockNothing(t) \/ PeekFrom(t) \/ WalkEnds(t) \/ Clear(t)
      BY <3>2 DEF LockNothing, PeekFrom, WalkEnds, Clear, Return, Is, Goto, PCs
    <3>4. CASE WalkOn(t)
      <4>1. pc[t] = "walk" /\ pc' = pc /\ lock' = lock
        BY <3>4 DEF WalkOn, Is
      <4>2. pc' = [pc EXCEPT ![t] = "walk"]
        BY <1>0, <4>1
      <4> QED BY <4>1, <4>2 DEF PCs
    <3>3. CASE Start(t)
      BY <3>3 DEF Start, StartCreate, StartNothing, StartPeek, StartDelete, StartLock, Return, Is, Goto, PCs
    <3> QED BY <1>2, <3>1, <3>2, <3>3, <3>4
  <2> QED BY <1>0, <2>1
<1>3. ASSUME NEW t \in Threads, Lock(t) PROVE LockIsReturned'
  <2>1. lock = NoOne /\ lock' = t /\ pc' = [pc EXCEPT ![t] = "held"]
    BY <1>3 DEF Lock, Goto
  <2>2. \A u \in Threads : pc[u] # "held"
    BY <1>0, <2>1
  <2> QED BY <1>0, <2>1, <2>2
<1>4. ASSUME NEW t \in Threads, Locked(t) PROVE LockIsReturned'
  <2>1. pc[t] = "held" /\ lock' = NoOne /\ pc' = [pc EXCEPT ![t] = "idle"]
    BY <1>4 DEF Locked, PutLink, PutExpand, PutNothing, Deque, Unque, PeekLocked, MakeEmpty, Unlock,
                Return, Goto, Holds, Is
  <2>2. \A u \in Threads : u # t => pc[u] # "held"
    BY <1>0, <2>1
  <2> QED BY <1>0, <2>1, <2>2
<1>5. ASSUME NEW t \in Threads, Fault(t) PROVE LockIsReturned'
  BY <1>5 DEF Fault
<1> QED
  BY <1>1, <1>2, <1>3, <1>4, <1>5 DEF Next, ThreadNext, Stopped

\* The lock comes back on every return, and belongs to no thread that is not in the middle of
\* its step under it; so one thread at most is there.
THEOREM LockIsReturnedAlways == Spec => []LockIsReturned
<1>1. Init => LockIsReturned
  BY QueueAssumption DEF Init, LockIsReturned
<1> QED BY <1>1, TypeCorrect, LockStep, PTL DEF Spec
-----------------------------------------------------------------------------
(***************************************************************************)
(* What makes a safe use of a queue safe                                   *)
(***************************************************************************)
\* A thread does what it may, its second read of the pointer is the pointer still, and it
\* saw the queue there or is about to create it alone.
ThreadIsSafe(t) ==
  /\ pc[t] = "idle" <=> got[t] # Pending
  /\ pc[t] # "idle" => Op(t) \in setup.may[t]
  /\ pc[t] = "create" => queue = Null /\ IsLink /\ Op(t) \in Puts
  /\ pc[t] = "lock" /\ Op(t) # "delete" => queue # Null
  /\ pc[t] \in {"held", "peek", "walk"} => ptr[t] = queue /\ queue # Null /\ Op(t) # "delete"
  /\ pc[t] \in {"peek", "walk"} => IsLink /\ Op(t) = "peek"
  /\ pc[t] \in {"lock", "held"} => ~(IsLink /\ Op(t) = "peek")
  /\ asked[t].idx < 0 => IsLink /\ setup.back
  /\ pc[t] \in {"free", "clear"} => Op(t) = "delete"

\* The pointer is NULL or points to the ring that is allocated, but while that is deleted,
\* and a queue that was created early is there until then.
PointerIsSafe ==
  /\ ~fault /\ Live \subseteq {queue}
  /\ queue = Null \/ queue \in Live \/ \E t \in Threads : pc[t] = "clear"
  /\ \A t \in Threads : pc[t] = "clear" => Live = {}
  /\ setup.early /\ queue = Null => \E t \in Threads : "delete" \in setup.may[t]

SafeInv == IsSafe(setup) => PointerIsSafe /\ \A t \in Threads : ThreadIsSafe(t)

LEMMA SafeInit == Init => SafeInv
<1> SUFFICES ASSUME Init, IsSafe(setup)
             PROVE  PointerIsSafe /\ \A t \in Threads : ThreadIsSafe(t)
  BY DEF SafeInv
<1>1. \A t \in Threads : pc[t] = "idle" /\ got[t] # Pending /\ ~(asked[t].idx < 0)
  BY QueueAssumption DEF Init
<1>2. \A t \in Threads : ThreadIsSafe(t)
  BY <1>1 DEF ThreadIsSafe
<1>3. CASE setup.early
  <2>1. queue \in Blocks /\ Live = {queue} /\ ~fault
    BY <1>3 DEF Init, Live
  <2> QED BY <1>1, <1>2, <2>1, QueueAssumption DEF PointerIsSafe
<1>4. CASE ~setup.early
  BY <1>1, <1>2, <1>4 DEF Init, Live, PointerIsSafe
<1> QED BY <1>3, <1>4

\* While a thread deletes the queue the others are idle.
LEMMA DeletesAlone ==
  ASSUME SafeInv, IsSafe(setup), NEW t \in Threads, pc[t] # "idle", Op(t) = "delete"
  PROVE  \A u \in Threads \ {t} : pc[u] = "idle"
<1> TAKE u \in Threads \ {t}
<1>1. "delete" \in setup.may[t]
  BY DEF SafeInv, ThreadIsSafe
<1>2. setup.may[u] = {}
  BY <1>1 DEF IsSafe
<1> QED BY <1>2 DEF SafeInv, ThreadIsSafe

\* Who deletes the queue is the only thread.
LEMMA PointerOfOthers ==
  ASSUME TypeOK, SafeInv, IsSafe(setup), NEW t \in Threads, pc[t] \notin {"idle", "clear"}
  PROVE  queue = Null \/ queue \in Live
<1>1. \A u \in Threads : pc[u] # "clear"
  <2> SUFFICES ASSUME NEW u \in Threads, pc[u] = "clear" PROVE FALSE
    OBVIOUS
  <2>1. Op(u) = "delete"
    BY DEF SafeInv, ThreadIsSafe
  <2> QED BY <2>1, DeletesAlone
<1> QED BY <1>1 DEF SafeInv, PointerIsSafe

\* A thread that creates the queue is the only one that puts links there.
LEMMA CreatesAlone ==
  ASSUME SafeInv, IsSafe(setup), NEW t \in Threads, NEW u \in Threads, t # u,
         pc[t] = "create", pc[u] # "idle"
  PROVE  Op(u) \notin Puts
<1> SUFFICES ASSUME Op(u) \in Puts PROVE FALSE
  OBVIOUS
<1>1. Op(t) \in setup.may[t] /\ Op(u) \in setup.may[u] /\ Op(t) \in Puts /\ queue = Null
  BY DEF SafeInv, ThreadIsSafe
<1>2. setup.early
  BY <1>1 DEF IsSafe
<1>3. PICK v \in Threads : "delete" \in setup.may[v]
  BY <1>1, <1>2 DEF SafeInv, PointerIsSafe
<1>4. setup.may[t] = {} \/ setup.may[u] = {}
  BY <1>3 DEF IsSafe
<1> QED BY <1>1, <1>4

\* A step that leaves the pointer and the memory alone disturbs only its own thread.
LEMMA QuietStep ==
  ASSUME TypeOK, SafeInv, IsSafe(setup), NEW t \in Threads, ThreadNext(t),
         queue' = queue, Live' = Live, fault' = fault,
         pc[t] # "clear", pc'[t] # "clear", ThreadIsSafe(t)'
  PROVE  SafeInv'
<1>1. /\ setup' = setup
      /\ \A u \in Threads \ {t} :
           pc'[u] = pc[u] /\ ptr'[u] = ptr[u] /\ asked'[u] = asked[u] /\ got'[u] = got[u]
  BY OthersStay
<1>2. PointerIsSafe /\ \A u \in Threads : ThreadIsSafe(u)
  BY DEF SafeInv
<1>3. PointerIsSafe'
  BY <1>1, <1>2 DEF PointerIsSafe
<1>4. ASSUME NEW u \in Threads \ {t} PROVE ThreadIsSafe(u)'
  BY <1>1, <1>2, <1>4 DEF ThreadIsSafe, Op, IsLink
<1> QED BY <1>3, <1>4 DEF SafeInv

LEMMA SafeStep == TypeOK /\ TypeOK' /\ LockIsReturned /\ SafeInv /\ [Next]_vars => SafeInv'
<1> SUFFICES ASSUME TypeOK, TypeOK', LockIsReturned, SafeInv, [Next]_vars PROVE SafeInv'
  OBVIOUS
<1> SUFFICES ASSUME IsSafe(setup) PROVE SafeInv'
  <2>1. setup' = setup
    BY OthersStay DEF Next, Stopped, vars
  <2> QED BY <2>1 DEF SafeInv, IsSafe
<1>1. CASE UNCHANGED vars
  BY <1>1 DEF vars, SafeInv, PointerIsSafe, ThreadIsSafe, Live, Op, IsLink, IsSafe
<1>2. ASSUME NEW t \in Threads, ThreadNext(t) PROVE SafeInv'
  <2>1. /\ setup' = setup
        /\ \A u \in Threads \ {t} :
             pc'[u] = pc[u] /\ ptr'[u] = ptr[u] /\ asked'[u] = asked[u] /\ got'[u] = got[u]
    BY <1>2, OthersStay
  <2>2. ThreadIsSafe(t) /\ PointerIsSafe
    BY DEF SafeInv
  <2>3. \A u \in Threads : ThreadIsSafe(u)
    BY DEF SafeInv
  <2>4. CASE Call(t)
    <3>1. /\ queue' = queue /\ Live' = Live /\ fault' = fault
          /\ pc[t] = "idle" /\ pc'[t] = "called" /\ got'[t] = Pending /\ Op(t)' \in setup.may[t]
          /\ asked'[t].idx < 0 => IsLink /\ setup.back
      BY <2>4 DEF Call, Request, Goto, Is, TypeOK, Live, Op
    <3>2. ThreadIsSafe(t)'
      BY <2>1, <3>1 DEF ThreadIsSafe, IsLink
    <3> QED BY <1>2, <3>1, <3>2, QuietStep
  <2>5. CASE Start(t)
    <3>1. /\ queue' = queue /\ Live' = Live /\ fault' = fault /\ asked' = asked
          /\ pc[t] = "called"
      BY <2>5 DEF Start, StartCreate, StartNothing, StartPeek, StartDelete, StartLock, Return, Is, Live
    <3>2. pc'[t] # "clear" /\ ThreadIsSafe(t)'
      <4>1. CASE StartNothing(t)
        BY <2>1, <2>2, <3>1, <4>1, QueueAssumption DEF StartNothing, Return, Goto, TypeOK, ThreadIsSafe, IsLink
      <4>2. CASE StartCreate(t)
        BY <2>1, <2>2, <3>1, <4>2 DEF StartCreate, Goto, TypeOK, ThreadIsSafe, Op, IsLink
      <4>3. CASE StartPeek(t)
        BY <2>1, <2>2, <3>1, <4>3 DEF StartPeek, Goto, TypeOK, ThreadIsSafe, Op, IsLink
      <4>4. CASE StartDelete(t)
        BY <2>1, <2>2, <3>1, <4>4 DEF StartDelete, Goto, TypeOK, ThreadIsSafe, Op, IsLink
      <4>5. CASE StartLock(t)
        BY <2>1, <2>2, <3>1, <4>5 DEF StartLock, Goto, TypeOK, ThreadIsSafe, Op, IsLink
      <4> QED BY <2>5, <4>1, <4>2, <4>3, <4>4, <4>5 DEF Start
    <3> QED BY <1>2, <3>1, <3>2, QuietStep
  <2>6. CASE Create(t)
    <3>1. PICK b \in Fresh :
            /\ heap' = [c \in Live \cup {b} |-> IF c = b THEN NewRing ELSE heap[c]]
            /\ queue' = b
      BY <2>6 DEF Create
    <3>2. /\ pc[t] = "create" /\ queue = Null /\ IsLink /\ Op(t) \in Puts /\ asked' = asked /\ got' = got
          /\ pc'[t] = "lock" /\ fault' = fault /\ ~fault
      BY <2>2, <2>6 DEF Create, Is, Goto, TypeOK, ThreadIsSafe
    <3>3. b \in Blocks /\ b # Null /\ Live = {} /\ Live' = {b}
      <4>1. b \in Blocks /\ b # Null
        BY <3>1, QueueAssumption DEF Fresh
      <4>2. Live = {}
        BY <2>2, <3>2, QueueAssumption DEF PointerIsSafe, TypeOK
      <4>3. Live' = Live \cup {b}
        BY <3>1 DEF Live
      <4> QED BY <4>1, <4>2, <4>3
    <3>4. ASSUME NEW u \in Threads \ {t} PROVE pc[u] \notin {"create", "held", "peek", "walk", "clear", "free"}
      <4>1. Op(u) = "delete" => pc[u] = "idle"
        <5>1. SUFFICES ASSUME Op(u) = "delete", pc[u] # "idle" PROVE FALSE
          OBVIOUS
        <5> QED BY <3>2, <5>1, DeletesAlone
      <4>2. pc[u] = "create" => Op(u) \in Puts
        BY <2>3 DEF ThreadIsSafe
      <4>3. pc[u] # "create"
        BY <3>2, <4>2, CreatesAlone
      <4> QED BY <2>3, <3>2, <4>1, <4>3 DEF ThreadIsSafe
    <3>5. PointerIsSafe'
      BY <2>1, <3>1, <3>2, <3>3, <3>4 DEF PointerIsSafe
    <3>6. ThreadIsSafe(t)'
      BY <2>1, <2>2, <3>1, <3>2, <3>3 DEF ThreadIsSafe, Op, IsLink, Puts
    <3>7. ASSUME NEW u \in Threads \ {t} PROVE ThreadIsSafe(u)'
      BY <2>1, <2>3, <3>1, <3>3, <3>4 DEF ThreadIsSafe, Op, IsLink
    <3> QED BY <3>5, <3>6, <3>7 DEF SafeInv
  <2>7. CASE Lock(t)
    <3>1. /\ queue' = queue /\ Live' = Live /\ fault' = fault /\ asked' = asked /\ got' = got
          /\ pc[t] = "lock" /\ pc'[t] = "held" /\ ptr'[t] = queue /\ Op(t) # "delete"
      BY <2>7 DEF Lock, Goto, Is, TypeOK, Live
    <3>2. ThreadIsSafe(t)'
      BY <2>1, <2>2, <3>1 DEF ThreadIsSafe, Op, IsLink
    <3> QED BY <1>2, <3>1, <3>2, QuietStep
  <2>8. CASE LockNothing(t)
    BY <2>2, <2>8 DEF LockNothing, Is, ThreadIsSafe
  <2>9. CASE LockDelete(t)
    <3>1. /\ queue' = queue /\ Live' = Live /\ fault' = fault /\ asked' = asked /\ got' = got
          /\ pc[t] = "lock" /\ pc'[t] = "free" /\ Op(t) = "delete"
      BY <2>9 DEF LockDelete, Goto, Is, TypeOK, Live
    <3>2. ThreadIsSafe(t)'
      BY <2>1, <2>2, <3>1 DEF ThreadIsSafe, Op, IsLink
    <3> QED BY <1>2, <3>1, <3>2, QuietStep
  <2>10. CASE Locked(t)
    <3>1. /\ fault' = fault /\ asked' = asked /\ pc[t] = "held" /\ pc'[t] = "idle" /\ got'[t] # Pending
      <4>1. CASE PutLink(t) \/ PutExpand(t) \/ PutNothing(t) \/ MakeEmpty(t)
        BY <4>1, QueueAssumption
        DEF PutLink, PutExpand, PutNothing, MakeEmpty, Holds, Is, Return, Goto, TypeOK
      <4>2. CASE Deque(t) \/ Unque(t)
        <5>1. queue \in Live
          BY <4>2 DEF Deque, Unque, Holds, Uses, Puts
        <5> DEFINE r == heap[queue]
        <5>2. IsRing(r)
          BY <5>1 DEF TypeOK
        <5> HIDE DEF r
        <5>3. ~Empty(r) => r.node[r.bottom] \in Links /\ r.node[Before(r, r.top)] \in Links
          BY <5>2, FoundInRing
        <5> QED BY <4>2, <5>3, QueueAssumption DEF Deque, Unque, Holds, Is, Return, Goto, TypeOK, r
      <4>3. CASE PeekLocked(t)
        <5>1. queue \in Live
          BY <4>3 DEF PeekLocked, Holds, Uses, Puts
        <5>2. asked[t].idx \in Int
          BY QueueAssumption DEF TypeOK, Requests
        <5>3. Peeked(heap[queue], asked[t].idx) \in Links \cup {NoLink}
          BY <5>1, <5>2, FoundInRing DEF TypeOK
        <5> QED BY <4>3, <5>3, QueueAssumption DEF PeekLocked, Holds, Is, Return, Goto, TypeOK
      <4> QED BY <2>10, <4>1, <4>2, <4>3 DEF Locked
    <3>2. ptr[t] = queue /\ queue \in Live
      BY <2>2, <3>1, PointerOfOthers DEF ThreadIsSafe
    <3>3. ThreadIsSafe(t)'
      BY <2>1, <2>2, <3>1 DEF ThreadIsSafe, IsLink
    <3>4. CASE ~PutExpand(t)
      <4>1. queue' = queue
        BY <2>10, <3>2, <3>4 DEF Locked, PutLink, PutNothing, Deque, Unque, PeekLocked, MakeEmpty, WriteBack
      <4>2. Live' = Live
        BY <2>10, <3>4 DEF Locked, PutLink, PutNothing, Deque, Unque, PeekLocked, MakeEmpty, Live
      <4> QED BY <1>2, <3>1, <3>3, <4>1, <4>2, QuietStep
    <3>5. CASE PutExpand(t)
      <4>1. Op(t) \in Puts /\ Op(t) \in setup.may[t] /\ Op(t) # "delete"
        BY <2>2, <3>1, <3>5 DEF PutExpand, Grows, Takes, ThreadIsSafe
      <4>2. PICK b \in Fresh :
              /\ heap' = [c \in (Live \ {queue}) \cup {b} |->
                            IF c = b THEN Put(t, Expanded(heap[queue])) ELSE heap[c]]
              /\ queue' = b
        BY <3>5 DEF PutExpand
      <4>3. b \in Blocks /\ b # Null /\ Live' = {b}
        BY <2>2, <4>2, QueueAssumption DEF Fresh, PointerIsSafe, Live
      <4>4. queue \in Blocks /\ queue # Null
        BY <3>2, QueueAssumption DEF TypeOK
      <4>5. ASSUME NEW u \in Threads \ {t} PROVE pc[u] \notin {"create", "held", "peek", "walk", "clear", "free"}
        <5>1. pc[u] # "held"
          BY <3>1 DEF LockIsReturned
        <5>2. Op(u) = "delete" => pc[u] = "idle"
          <6>1. SUFFICES ASSUME Op(u) = "delete", pc[u] # "idle" PROVE FALSE
            OBVIOUS
          <6> QED BY <3>1, <6>1, DeletesAlone
        <5>3. pc[u] \notin {"peek", "walk"}
          <6>1. pc[u] \in {"peek", "walk"} => IsLink /\ "peek" \in setup.may[u]
            BY <2>3 DEF ThreadIsSafe
          <6> QED BY <4>1, <6>1 DEF IsSafe, IsLink, Puts
        <5> QED BY <2>3, <4>4, <5>1, <5>2, <5>3 DEF ThreadIsSafe
      <4>6. PointerIsSafe'
        BY <2>1, <2>2, <3>1, <4>2, <4>3, <4>5 DEF PointerIsSafe
      <4>7. ASSUME NEW u \in Threads \ {t} PROVE ThreadIsSafe(u)'
        BY <2>1, <2>3, <3>1, <4>2, <4>3, <4>5 DEF ThreadIsSafe, Op, IsLink
      <4> QED BY <3>3, <4>6, <4>7 DEF SafeInv
    <3> QED BY <3>4, <3>5
  <2>11. CASE WalkEnds(t)
    <3> DEFINE r == heap[ptr[t]]
               i == walk[t].at
    <3>1. IsRing(r) /\ i \in Nat /\ i < r.cnt
      BY <2>11 DEF TypeOK, WalkEnds, Is
    <3>2. got' = [got EXCEPT ![t] = r.node[i]] \/ got' = [got EXCEPT ![t] = NoLink]
      BY <2>11 DEF WalkEnds, Return
    <3> HIDE DEF r, i
    <3>3. r.node[i] \in Links \cup {NoLink}
      <4>1. i \in 0..(r.cnt - 1) /\ r.node \in [0..(r.cnt - 1) -> Links \cup {NoLink}]
        BY <3>1 DEF IsRing, HasPlaces
      <4> QED BY <4>1
    <3>4. /\ queue' = queue /\ Live' = Live /\ fault' = fault /\ pc[t] = "walk" /\ pc'[t] = "idle"
          /\ asked' = asked /\ got'[t] # Pending
      BY <2>11, <3>2, <3>3, QueueAssumption DEF WalkEnds, Is, Return, Goto, TypeOK, Live
    <3>5. ThreadIsSafe(t)'
      BY <2>1, <2>2, <3>4 DEF ThreadIsSafe, IsLink
    <3> QED BY <1>2, <3>4, <3>5, QuietStep
  <2>15. CASE PeekFrom(t) \/ WalkOn(t)
    <3>1. /\ queue' = queue /\ Live' = Live /\ fault' = fault /\ asked' = asked /\ got' = got /\ ptr' = ptr
          /\ pc[t] \in {"peek", "walk"} /\ pc'[t] = "walk"
      BY <2>15 DEF PeekFrom, WalkOn, Goto, Is, TypeOK, Live
    <3>2. ThreadIsSafe(t)'
      BY <2>1, <2>2, <3>1 DEF ThreadIsSafe, Op, IsLink
    <3> QED BY <1>2, <3>1, <3>2, QuietStep
  <2>12. CASE Free(t)
    <3>1. /\ queue' = queue /\ fault' = fault /\ asked' = asked /\ got' = got
          /\ pc[t] = "free" /\ pc'[t] = "clear" /\ Live' = {}
      BY <2>2, <2>12 DEF Free, Is, Goto, TypeOK, PointerIsSafe, Live
    <3>2. Op(t) = "delete"
      BY <2>2, <3>1 DEF ThreadIsSafe
    <3>3. \A u \in Threads \ {t} : pc[u] = "idle"
      BY <3>1, <3>2, DeletesAlone
    <3>4. PointerIsSafe'
      BY <2>1, <2>2, <3>1, <3>3 DEF PointerIsSafe
    <3>5. \A u \in Threads : ThreadIsSafe(u)'
      BY <2>1, <2>3, <3>1, <3>2, <3>3 DEF ThreadIsSafe, Op, IsLink
    <3> QED BY <3>4, <3>5 DEF SafeInv
  <2>13. CASE Clear(t)
    <3>1. /\ queue' = Null /\ fault' = fault /\ asked' = asked /\ got'[t] # Pending
          /\ pc[t] = "clear" /\ pc'[t] = "idle" /\ Live' = Live
      BY <2>13, QueueAssumption DEF Clear, Is, Return, Goto, TypeOK, Live
    <3>2. Op(t) = "delete" /\ Live = {} /\ "delete" \in setup.may[t]
      BY <2>2, <3>1 DEF ThreadIsSafe, PointerIsSafe
    <3>3. \A u \in Threads \ {t} : pc[u] = "idle"
      BY <3>1, <3>2, DeletesAlone
    <3>4. PointerIsSafe'
      BY <2>1, <2>2, <3>1, <3>2, <3>3 DEF PointerIsSafe
    <3>5. \A u \in Threads : ThreadIsSafe(u)'
      BY <2>1, <2>3, <3>1, <3>3 DEF ThreadIsSafe, Op, IsLink
    <3> QED BY <3>4, <3>5 DEF SafeInv
  <2>14. CASE Fault(t)
    <3>1. pc[t] \in {"held", "peek", "walk", "free"}
      BY <2>14 DEF Fault, Is
    <3>2. queue = Null \/ queue \in Live
      BY <3>1, PointerOfOthers
    <3>3. pc[t] \in {"held", "peek", "walk"} => ptr[t] = queue /\ queue # Null
      BY <2>2 DEF ThreadIsSafe
    <3>4. pc[t] = "held" => Uses(t) \subseteq {queue}
      BY <3>3 DEF Uses
    <3> QED BY <2>14, <3>2, <3>3, <3>4 DEF Fault, Is
  <2> QED
    BY <1>2, <2>4, <2>5, <2>6, <2>7, <2>8, <2>9, <2>10, <2>11, <2>12, <2>13, <2>14, <2>15 DEF ThreadNext
<1> QED BY <1>1, <1>2 DEF Next, Stopped

-----------------------------------------------------------------------------
(***************************************************************************)
(* A walk without the lock                                                 *)
(***************************************************************************)
\* Rings with the same fields are looked into alike.
LEMMA SameFields ==
  ASSUME NEW r, NEW s, s.cnt = r.cnt, s.top = r.top, s.bottom = r.bottom, s.node = r.node
  PROVE  /\ IsRing(s) <=> IsRing(r)
         /\ Empty(s) <=> Empty(r)
         /\ \A k \in Int : Peeked(s, k) = Peeked(r, k)
<1>1. Length(s) = Length(r) /\ \A i : At(s, i) = At(r, i)
  BY DEF Length, At
<1>2. IsRing(s) <=> IsRing(r)
  BY <1>1 DEF IsRing, HasPlaces
<1>3. \A k \in Int : Peeked(s, k) = Peeked(r, k)
  BY <1>1 DEF Peeked
<1> QED BY <1>2, <1>3 DEF Empty

\* A walk starts with the whole ring before it, at either end.
LEMMA WholeRing ==
  ASSUME NEW r, IsRing(r)
  PROVE  /\ IsRing(Rest(r, r.bottom)) /\ \A k \in Int : Peeked(Rest(r, r.bottom), k) = Peeked(r, k)
         /\ IsRing(UpToPlace(r, Before(r, r.top)))
         /\ Empty(UpToPlace(r, Before(r, r.top))) <=> Empty(r)
         /\ \A k \in Int : Peeked(UpToPlace(r, Before(r, r.top)), k) = Peeked(r, k)
<1>1. r.cnt \in Nat \ {0, 1} /\ r.top \in 0..(r.cnt - 1)
  BY DEF IsRing, HasPlaces
<1>2. After(r, Before(r, r.top)) = r.top
  BY <1>1, BeforeAfter
<1>3. LET s == Rest(r, r.bottom)
      IN  s.cnt = r.cnt /\ s.top = r.top /\ s.bottom = r.bottom /\ s.node = r.node
  BY DEF Rest, Ring
<1>4. LET s == UpToPlace(r, Before(r, r.top))
      IN  s.cnt = r.cnt /\ s.top = r.top /\ s.bottom = r.bottom /\ s.node = r.node
  BY <1>2 DEF UpToPlace, Ring
<1> QED BY <1>3, <1>4, SameFields

\* What is before a walk from the bottom is a ring, whatever has been taken since; what is
\* before one from the top holds what it will find, if the queue holds anything.
FromBottomIsSafe(r, w) == IsRing(Rest(r, w.at)) /\ w.left >= 0
FromTopIsSafe(r, w, i) ==
  ~Empty(r) => /\ IsRing(UpToPlace(r, w.at)) /\ ~Empty(UpToPlace(r, w.at))
               /\ w.left <= 0 /\ Peeked(UpToPlace(r, w.at), w.left - 1) = Peeked(r, i)
WalkIsSafe(t) ==
  pc[t] = "walk" => IF Backwards(t)
                    THEN FromTopIsSafe(heap[queue], walk[t], asked[t].idx)
                    ELSE FromBottomIsSafe(heap[queue], walk[t])
WalkInv == IsSafe(setup) => \A t \in Threads : WalkIsSafe(t)

LEMMA WalkInit == Init => WalkInv
BY DEF Init, WalkInv, WalkIsSafe

\* Beside a walk the others at most take links from the bottom, and not from under one that
\* goes there.
LEMMA BesideWalk ==
  ASSUME TypeOK, SafeInv, IsSafe(setup), NEW t \in Threads, pc[t] = "walk",
         NEW u \in Threads \ {t}, ThreadNext(u)
  PROVE  /\ queue' = queue
         /\ \/ heap' = heap
            \/ /\ ~Backwards(t) /\ queue \in Live
               /\ heap' = [heap EXCEPT ![queue] = WithoutBottom(heap[queue])]
<1>1. ThreadIsSafe(t) /\ ThreadIsSafe(u)
  BY DEF SafeInv
<1>2. /\ "peek" \in setup.may[t] /\ IsLink /\ queue # Null /\ Op(t) # "delete"
      /\ Backwards(t) => setup.back
  BY <1>1 DEF ThreadIsSafe, Backwards
<1>3. setup.may[u] \subseteq {"peek"} \cup (IF setup.back THEN {} ELSE {"deque"})
  BY <1>2 DEF IsSafe, IsLink
<1>4. pc[u] # "idle" => Op(u) = "peek" \/ (Op(u) = "deque" /\ ~setup.back)
  BY <1>1, <1>3 DEF ThreadIsSafe
<1>5. CASE Call(u) \/ Start(u) \/ Lock(u) \/ LockNothing(u) \/ LockDelete(u) \/ PeekFrom(u) \/ WalkOn(u)
           \/ WalkEnds(u) \/ Fault(u)
  BY <1>5 DEF Call, Start, StartCreate, StartNothing, StartPeek, StartDelete, StartLock, Lock,
              LockNothing, LockDelete, PeekFrom, WalkOn, WalkEnds, Fault
<1>6. ASSUME Create(u) \/ Free(u) \/ Clear(u) PROVE FALSE
  <2>1. pc[u] \in {"create", "free", "clear"}
    BY <1>6 DEF Create, Free, Clear, Is
  <2> QED BY <1>1, <1>4, <2>1 DEF ThreadIsSafe, Puts
<1>7. CASE Locked(u)
  <2>1. pc[u] = "held"
    BY <1>7 DEF Locked, PutLink, PutExpand, PutNothing, Deque, Unque, PeekLocked, MakeEmpty, Holds, Is
  <2>2. Op(u) = "peek" \/ (Op(u) = "deque" /\ ~Backwards(t))
    BY <1>2, <1>4, <2>1
  <2>3. PeekLocked(u) \/ (Deque(u) /\ ~Backwards(t))
    BY <1>7, <2>2
    DEF Locked, PutLink, PutExpand, PutNothing, Deque, Unque, PeekLocked, MakeEmpty, Grows, Takes, Puts
  <2>4. Deque(u) => queue \in Live
    BY DEF Deque, Holds, Uses, Puts
  <2> QED BY <2>3, <2>4 DEF PeekLocked, Deque
<1> QED BY <1>5, <1>6, <1>7 DEF ThreadNext

\* A walk that another thread's step leaves where it is finds what it would have found.
LEMMA WalkStays ==
  ASSUME TypeOK, SafeInv, IsSafe(setup), NEW t \in Threads, pc[t] = "walk",
         NEW u \in Threads \ {t}, ThreadNext(u)
  PROVE  /\ Backwards(t) => heap'[queue'] = heap[queue]
         /\ Rest(heap[queue], walk[t].at)' = Rest(heap[queue], walk[t].at)
         /\ Live' = Live
<1> DEFINE i == walk[t].at
<1>1. queue' = queue /\ walk'[t] = walk[t]
  BY BesideWalk, OthersStay
<1>2. CASE heap' = heap
  BY <1>1, <1>2 DEF Live, Rest
<1>3. CASE ~Backwards(t) /\ queue \in Live
           /\ heap' = [heap EXCEPT ![queue] = WithoutBottom(heap[queue])]
  <2>1. heap'[queue'] = WithoutBottom(heap[queue]) /\ Live' = Live
    BY <1>1, <1>3 DEF Live
  <2>2. Rest(WithoutBottom(heap[queue]), i) = Rest(heap[queue], i)
    BY DEF Rest, WithoutBottom, Ring
  <2>3. Rest(heap[queue], walk[t].at)' = Rest(heap'[queue'], walk'[t].at)
    BY DEF Rest
  <2> QED BY <1>1, <1>3, <2>1, <2>2, <2>3
<1> QED BY <1>2, <1>3, BesideWalk

\* A walk in a safe use is in the queue, which is a ring.
LEMMA WalkInQueue ==
  ASSUME TypeOK, SafeInv, IsSafe(setup), NEW t \in Threads, pc[t] \in {"peek", "walk"}
  PROVE  /\ ptr[t] = queue /\ queue \in Live /\ IsRing(heap[queue])
         /\ walk[t].at \in Nat /\ walk[t].left \in Int /\ asked[t].idx \in Int
         /\ pc[t] = "walk" => walk[t].at \in 0..(heap[queue].cnt - 1)
<1>1. ptr[t] = queue /\ queue # Null
  BY DEF SafeInv, ThreadIsSafe
<1>2. queue \in Live
  BY <1>1, PointerOfOthers
<1>3. IsRing(heap[queue]) /\ walk[t] \in [at : Nat, left : Int] /\ asked[t] \in Requests
  BY <1>2 DEF TypeOK
<1>4. heap[queue].cnt \in Nat
  BY <1>3 DEF IsRing, HasPlaces
<1>5. pc[t] = "walk" => walk[t].at < heap[queue].cnt
  BY <1>1, <1>2 DEF TypeOK
<1>6. walk[t].at \in Nat /\ walk[t].left \in Int
  BY <1>3
<1>7. asked[t].idx \in Int
  BY <1>3, QueueAssumption DEF Requests
<1>8. pc[t] = "walk" => walk[t].at \in 0..(heap[queue].cnt - 1)
  BY <1>4, <1>5, <1>6
<1> QED BY <1>1, <1>2, <1>3, <1>6, <1>7, <1>8

\* A walk sets out, and goes on, with what it will find before it.
LEMMA WalkStarts ==
  ASSUME TypeOK, SafeInv, IsSafe(setup), NEW t \in Threads, PeekFrom(t)
  PROVE  WalkIsSafe(t)'
<1> DEFINE r == heap[queue]
           k == asked[t].idx
<1>1. ptr[t] = queue /\ IsRing(r) /\ k \in Int /\ UNCHANGED <<queue, heap, asked>>
  BY WalkInQueue DEF PeekFrom, Is
<1>2. Backwards(t)' = Backwards(t) /\ (Backwards(t) <=> k < 0)
  BY <1>1 DEF Backwards
<1> HIDE DEF r, k
<1>3. walk'[t] = IF Backwards(t) THEN [at |-> Before(r, r.top), left |-> k + 1]
                                 ELSE [at |-> r.bottom, left |-> k]
  BY <1>1 DEF PeekFrom, TypeOK, r, k
<1>4. CASE Backwards(t)
  <2>1. walk'[t].at = Before(r, r.top) /\ walk'[t].left = k + 1
    BY <1>3, <1>4
  <2>2. k + 1 <= 0 /\ k + 1 - 1 = k
    BY <1>1, <1>2, <1>4
  <2>3. FromTopIsSafe(r, walk'[t], k)
    BY <1>1, <2>1, <2>2, WholeRing DEF FromTopIsSafe
  <2> QED BY <1>1, <1>2, <1>4, <2>3 DEF WalkIsSafe, r, k
<1>5. CASE ~Backwards(t)
  <2>1. walk'[t].at = r.bottom /\ walk'[t].left = k
    BY <1>3, <1>5
  <2>2. FromBottomIsSafe(r, walk'[t])
    BY <1>1, <1>2, <1>5, <2>1, WholeRing DEF FromBottomIsSafe
  <2> QED BY <1>1, <1>2, <1>5, <2>2 DEF WalkIsSafe, r, k
<1> QED BY <1>4, <1>5

LEMMA WalkGoesOn ==
  ASSUME TypeOK, SafeInv, IsSafe(setup), NEW t \in Threads, WalkOn(t), WalkIsSafe(t)
  PROVE  /\ WalkIsSafe(t)'
         /\ ~Backwards(t) =>
              Peeked(Rest(heap[queue], walk[t].at), walk[t].left)'
                = Peeked(Rest(heap[queue], walk[t].at), walk[t].left)
<1> DEFINE r == heap[queue]
           k == asked[t].idx
           i == walk[t].at
           n == walk[t].left
<1>1. /\ ptr[t] = queue /\ IsRing(r) /\ k \in Int /\ i \in 0..(r.cnt - 1) /\ n \in Int
      /\ UNCHANGED <<queue, heap, asked>> /\ pc[t] = "walk"
  BY WalkInQueue DEF WalkOn, Is
<1>2. Backwards(t)' = Backwards(t) /\ r' = r /\ k' = k
  BY <1>1 DEF Backwards
<1>3. n # 0 /\ i # Stop(t, r)
  BY <1>1 DEF WalkOn, Walks
<1>4. walk'[t] = IF Backwards(t) THEN [at |-> Before(r, i), left |-> n + 1]
                                 ELSE [at |-> After(r, i), left |-> n - 1]
  BY <1>1 DEF WalkOn, TypeOK
<1>5. r.cnt \in Nat \ {0, 1}
  BY <1>1 DEF IsRing, HasPlaces
<1>6. IF Backwards(t) THEN FromTopIsSafe(r, walk[t], k) ELSE FromBottomIsSafe(r, walk[t])
  BY <1>1 DEF WalkIsSafe
<1>7. CASE Backwards(t)
  <2>1. i' = Before(r, i) /\ n' = n + 1 /\ i # r.bottom
    BY <1>3, <1>4, <1>7 DEF Stop
  <2>2. ASSUME ~Empty(r)
        PROVE  /\ IsRing(UpToPlace(r, i')) /\ ~Empty(UpToPlace(r, i'))
               /\ n' <= 0 /\ Peeked(UpToPlace(r, i'), n' - 1) = Peeked(r, k)
    <3>1. /\ IsRing(UpToPlace(r, i)) /\ ~Empty(UpToPlace(r, i))
          /\ n <= 0 /\ Peeked(UpToPlace(r, i), n - 1) = Peeked(r, k)
      BY <1>6, <1>7, <2>2 DEF FromTopIsSafe
    <3> HIDE DEF r, k, i, n
    <3>2. /\ IsRing(UpToPlace(r, i')) /\ ~Empty(UpToPlace(r, i'))
          /\ \A x \in Int : x < 0 => Peeked(UpToPlace(r, i), x - 1) = Peeked(UpToPlace(r, i'), x)
      BY <1>1, <1>5, <2>1, <3>1, UpToOfRing
    <3>3. n \in Int /\ n < 0 /\ n' <= 0 /\ n' - 1 = n
      BY <1>1, <1>3, <2>1, <3>1
    <3> QED BY <3>1, <3>2, <3>3
  <2>3. FromTopIsSafe(r, walk'[t], k)
    BY <2>2 DEF FromTopIsSafe
  <2> QED BY <1>2, <1>7, <2>3 DEF WalkIsSafe
<1>8. CASE ~Backwards(t)
  <2>1. i' = After(r, i) /\ n' = n - 1 /\ i # r.top
    BY <1>3, <1>4, <1>8 DEF Stop
  <2>2. IsRing(Rest(r, i)) /\ n >= 0
    BY <1>6, <1>8 DEF FromBottomIsSafe
  <2> HIDE DEF k, i, n, r
  <2>3. /\ IsRing(Rest(r, i'))
        /\ \A x \in Int : x > 0 => Peeked(Rest(r, i), x) = Peeked(Rest(r, i'), x - 1)
    BY <2>1, <2>2, RestOfRing
  <2>4. n \in Int /\ n > 0 /\ n' >= 0 /\ n' = n - 1
    BY <1>1, <1>3, <2>1, <2>2
  <2>5. Peeked(Rest(r, i'), n') = Peeked(Rest(r, i), n)
    BY <2>3, <2>4
  <2>6. FromBottomIsSafe(r, walk'[t])
    BY <2>3, <2>4 DEF FromBottomIsSafe, i, n
  <2>7. WalkIsSafe(t)'
    BY <1>2, <1>8, <2>6 DEF WalkIsSafe, r
  <2>8. Peeked(Rest(r, i), n)' = Peeked(Rest(r, i'), n')
    BY <1>2 DEF Peeked, Rest, Length, At
  <2> QED BY <2>5, <2>7, <2>8 DEF r, i, n
<1> QED BY <1>7, <1>8

LEMMA WalkStep == TypeOK /\ SafeInv /\ WalkInv /\ [Next]_vars => WalkInv'
<1> SUFFICES ASSUME TypeOK, SafeInv, WalkInv, [Next]_vars PROVE WalkInv'
  OBVIOUS
<1>0. setup' = setup
  BY OthersStay DEF Next, Stopped, vars
<1> SUFFICES ASSUME IsSafe(setup) PROVE \A u \in Threads : WalkIsSafe(u)'
  BY <1>0 DEF WalkInv, IsSafe
<1>1. CASE UNCHANGED vars
  BY <1>1 DEF vars, WalkInv, WalkIsSafe, Backwards
<1>2. ASSUME NEW t \in Threads, ThreadNext(t), NEW u \in Threads PROVE WalkIsSafe(u)'
  <2>1. WalkIsSafe(u)
    BY DEF WalkInv
  <2>2. CASE u # t
    <3>1. pc'[u] = pc[u] /\ walk'[u] = walk[u] /\ asked'[u] = asked[u]
      BY <1>2, <2>2, OthersStay
    <3>2. SUFFICES ASSUME pc[u] = "walk" PROVE WalkIsSafe(u)'
      BY <3>1 DEF WalkIsSafe
    <3>3. /\ Backwards(u) => heap'[queue'] = heap[queue]
          /\ Rest(heap[queue], walk[u].at)' = Rest(heap[queue], walk[u].at)
      BY <1>2, <2>2, <3>2, WalkStays
    <3>4. Rest(heap[queue], walk[u].at)' = Rest(heap'[queue'], walk'[u].at)
      BY DEF Rest
    <3>5. Backwards(u)' = Backwards(u)
      BY <3>1 DEF Backwards
    <3>6. CASE Backwards(u)
      BY <2>1, <3>1, <3>2, <3>3, <3>5, <3>6 DEF WalkIsSafe
    <3>7. CASE ~Backwards(u)
      BY <2>1, <3>1, <3>2, <3>3, <3>4, <3>5, <3>7 DEF WalkIsSafe, FromBottomIsSafe
    <3> QED BY <3>6, <3>7
  <2>3. CASE u = t
    <3>1. CASE PeekFrom(t)
      BY <2>3, <3>1, WalkStarts
    <3>2. CASE WalkOn(t)
      BY <2>1, <2>3, <3>2, WalkGoesOn
    <3>3. CASE Fault(t)
      BY <2>1, <2>3, <3>3 DEF Fault, WalkIsSafe, Backwards
    <3>4. CASE ~PeekFrom(t) /\ ~WalkOn(t) /\ ~Fault(t)
      <4>1. \E x : x # "walk" /\ pc' = [pc EXCEPT ![t] = x]
        <5>1. CASE Locked(t)
          BY <5>1 DEF Locked, PutLink, PutExpand, PutNothing, Deque, Unque, PeekLocked, MakeEmpty, Return, Goto
        <5>2. CASE Start(t)
          BY <5>2 DEF Start, StartCreate, StartNothing, StartPeek, StartDelete, StartLock, Return, Goto
        <5>3. CASE Call(t) \/ Create(t) \/ Lock(t) \/ LockNothing(t) \/ LockDelete(t) \/ WalkEnds(t)
                   \/ Free(t) \/ Clear(t)
          BY <5>3 DEF Call, Create, Lock, LockNothing, LockDelete, WalkEnds, Free, Clear, Return, Goto
        <5> QED BY <1>2, <3>4, <5>1, <5>2, <5>3 DEF ThreadNext
      <4>2. pc'[t] # "walk"
        BY <4>1 DEF TypeOK
      <4> QED BY <2>3, <4>2 DEF WalkIsSafe
    <3> QED BY <3>1, <3>2, <3>3, <3>4
  <2> QED BY <2>2, <2>3
<1> QED BY <1>1, <1>2 DEF Next, Stopped

LEMMA SafeAlways == Spec => [](TypeOK /\ LockIsReturned /\ SafeInv /\ WalkInv)
<1>1. Init => LockIsReturned
  BY QueueAssumption DEF Init, LockIsReturned
<1>2. TypeOK /\ LockIsReturned /\ SafeInv /\ WalkInv /\ [Next]_vars
        => (TypeOK /\ LockIsReturned /\ SafeInv /\ WalkInv)'
  BY TypeStep, LockStep, SafeStep, WalkStep
<1> QED BY <1>1, <1>2, TypeInit, SafeInit, WalkInit, PTL DEF Spec

\* However many threads use a queue, no ring that was replaced or deleted is used again, as
\* long as who deletes is alone, who creates is the only one that puts links there, and who
\* looks into a link queue is not beside one that puts them there.
THEOREM NoFaultAlways == Spec => []NoFault
<1>1. SafeInv => NoFault
  BY DEF SafeInv, PointerIsSafe, NoFault
<1> QED BY <1>1, SafeAlways, PTL

\* Under the same conditions each ring that is replaced or deleted is freed.
THEOREM NoLeakAlways == Spec => []NoLeak
<1>1. SafeInv => NoLeak
  BY DEF SafeInv, PointerIsSafe, NoLeak
<1> QED BY <1>1, SafeAlways, PTL
-----------------------------------------------------------------------------
(***************************************************************************)
(* A link queue implements the abstract queue                              *)
(***************************************************************************)
\* What the abstract queue sees of a step that only moves a thread.
Unseen == UNCHANGED <<Items, IsOpen, asked, Answers>>

\* The answers are a function of these variables.
LEMMA AnswersStay ==
  ASSUME UNCHANGED <<heap, pc, ptr, walk, asked, got>>
  PROVE  Answers' = Answers
<1>1. \A t \in Threads :
        Peeked(Rest(heap[ptr[t]], walk[t].at), walk[t].left)'
          = Peeked(Rest(heap[ptr[t]], walk[t].at), walk[t].left)
  BY DEF Peeked, Rest, Length, At, Ring
<1>2. \A t \in Threads : Backwards(t)' = Backwards(t)
  BY DEF Backwards
<1>3. Live' = Live
  BY DEF Live
<1> QED BY <1>1, <1>2, <1>3 DEF Answers

\* A step of one thread changes no answer of another.
LEMMA AnswersOfOthers ==
  ASSUME TypeOK, SafeInv, IsSafe(setup), NEW t \in Threads, ThreadNext(t), NEW u \in Threads \ {t}
  PROVE  Answers'[u] = Answers[u]
<1>1. pc'[u] = pc[u] /\ ptr'[u] = ptr[u] /\ walk'[u] = walk[u] /\ asked'[u] = asked[u] /\ got'[u] = got[u]
  BY OthersStay
<1>2. CASE pc[u] # "walk"
  BY <1>1, <1>2 DEF Answers
<1>3. CASE pc[u] = "walk"
  <2> DEFINE s == Rest(heap[queue], walk[u].at)
  <2>1. ptr[u] = queue /\ queue \in Live /\ queue' = queue
    BY <1>3, WalkInQueue, BesideWalk
  <2>2. Live' = Live /\ s' = s
    BY <1>3, WalkStays
  <2>3. Answers[u] = IF Backwards(u) THEN got[u] ELSE Peeked(s, walk[u].left)
    BY <1>3, <2>1 DEF Answers
  <2>4. Backwards(u)' = Backwards(u)
    BY <1>1 DEF Backwards
  <2>5. Answers'[u] = IF Backwards(u) THEN got'[u] ELSE Peeked(s, walk[u].left)'
    BY <1>1, <1>3, <2>1, <2>2, <2>4 DEF Answers
  <2>6. Peeked(s, walk[u].left)' = Peeked(s', walk[u].left)
    BY <1>1 DEF Peeked, Length, At
  <2> HIDE DEF s
  <2> QED BY <1>1, <2>2, <2>3, <2>5, <2>6
<1> QED BY <1>2, <1>3

LEMMA AnswersAre ==
  ASSUME TypeOK, SafeInv, IsSafe(setup), NEW t \in Threads, ThreadNext(t)
  PROVE  /\ Answers \in [Threads -> {Answers[u] : u \in Threads}]
         /\ Answers' = [Answers EXCEPT ![t] = Answers'[t]]
         /\ pc[t] # "walk"  => Answers[t] = got[t]
         /\ pc'[t] # "walk" => Answers'[t] = got'[t]
<1>1. DOMAIN Answers = Threads /\ DOMAIN Answers' = Threads
  BY DEF Answers
<1>2. Answers = [u \in Threads |-> Answers[u]] /\ Answers' = [u \in Threads |-> Answers'[u]]
  BY DEF Answers
<1>3. \A u \in Threads \ {t} : Answers'[u] = Answers[u]
  BY AnswersOfOthers
<1>4. /\ pc[t] # "walk"  => Answers[t] = got[t]
      /\ pc'[t] # "walk" => Answers'[t] = got'[t]
  BY DEF Answers
<1> DEFINE a == Answers
           b == Answers'
<1>5. a = [u \in Threads |-> a[u]] /\ b = [u \in Threads |-> b[u]] /\ \A u \in Threads \ {t} : b[u] = a[u]
  BY <1>2, <1>3
<1> HIDE DEF a, b
<1>6. b = [a EXCEPT ![t] = b[t]]
  BY <1>5
<1>7. a \in [Threads -> {a[u] : u \in Threads}]
  BY <1>5
<1> QED BY <1>4, <1>6, <1>7 DEF a, b

\* A call returns at the step that the code makes of it.
LEMMA AnswersReturn ==
  ASSUME TypeOK, SafeInv, IsSafe(setup), NEW t \in Threads, ThreadNext(t), pc'[t] # "walk",
         NEW l, got' = [got EXCEPT ![t] = l]
  PROVE  Answers' = [Answers EXCEPT ![t] = l]
<1>1. got'[t] = l
  BY DEF TypeOK
<1> QED BY <1>1, AnswersAre

LEMMA AbstractInit == Init => Deques!Init
<1> SUFFICES ASSUME Init PROVE Deques!Init
  OBVIOUS
<1>1. TypeOK
  BY TypeInit
<1>2. Items = <<>>
  <2>1. CASE setup.early
    <3>1. queue \in Live /\ heap[queue] = NewRing
      BY <2>1 DEF Init, Live
    <3> QED BY <3>1, NewRingIsRing DEF Items, Init
  <2>2. CASE ~setup.early
    BY <2>2 DEF Init, Live, Items
  <2> QED BY <2>1, <2>2
<1>3. Answers = [t \in Threads |-> NoLink]
  BY DEF Init, Answers
<1> QED BY <1>1, <1>2, <1>3 DEF Deques!Init, Init, TypeOK, IsOpen, IsLink

\* Under the lock, in a safe use, the ring is the queue, and what the step does to its
\* contents is what the call does to the abstract queue.
LEMMA LockedImplements ==
  ASSUME TypeOK, LockIsReturned, SafeInv, IsSafe(setup), NEW t \in Threads, Locked(t)
  PROVE  Deques!Next
<1> DEFINE r == heap[queue]
<1>1. pc[t] = "held" /\ asked' = asked /\ setup' = setup
  BY DEF Locked, PutLink, PutExpand, PutNothing, Deque, Unque, PeekLocked, MakeEmpty, Holds, Is, Return
<1>2. ptr[t] = queue /\ queue \in Live /\ queue # Null /\ Answers[t] = Pending /\ Op(t) # "delete"
  <2>1. ThreadNext(t)
    BY DEF ThreadNext
  <2>2. ptr[t] = queue /\ queue \in Live /\ queue # Null /\ got[t] = Pending /\ Op(t) # "delete"
    BY <1>1, PointerOfOthers DEF SafeInv, ThreadIsSafe
  <2> QED BY <1>1, <2>1, <2>2, AnswersAre
<1>3. IsRing(r) /\ Items = Contents(r) /\ IsOpen
  BY <1>2 DEF TypeOK, Items, IsOpen
<1>4. asked[t].op = Op(t) /\ asked[t].link \in Links \cup {NoLink} /\ asked[t].idx \in Int
  BY QueueAssumption DEF TypeOK, Requests, Op
<1>12. \A l : got' = [got EXCEPT ![t] = l] => Answers' = [Answers EXCEPT ![t] = l]
  <2>1. ThreadNext(t) /\ pc'[t] = "idle"
    BY DEF ThreadNext, Locked, PutLink, PutExpand, PutNothing, Deque, Unque, PeekLocked, MakeEmpty,
           Return, Goto, TypeOK
  <2> QED BY <2>1, AnswersReturn
<1> HIDE DEF r
<1>5. CASE PutLink(t)
  <2>1. Takes(t) /\ ~Full(r) /\ queue' = queue /\ heap' = [heap EXCEPT ![queue] = Put(t, r)]
        /\ got' = [got EXCEPT ![t] = NoLink]
    BY <1>2, <1>5 DEF PutLink, Grows, WriteBack, Return, r
  <2>2. Items' = Contents(Put(t, r)) /\ IsOpen'
    BY <1>1, <1>2, <2>1 DEF Items, IsOpen, Live
  <2>3. /\ Op(t) = "enque"  => Items' = Append(Items, asked[t].link)
        /\ Op(t) = "preque" => Items' = <<asked[t].link>> \o Items
    BY <1>3, <2>1, <2>2, PutOfRing
  <2>4. Op(t) \in Puts /\ asked[t].link # NoLink
    BY <2>1 DEF Takes
  <2>5. Deques!Enque(t) \/ Deques!Preque(t)
    BY <1>1, <1>12, <1>2, <1>3, <1>4, <2>1, <2>2, <2>3, <2>4
    DEF Deques!Enque, Deques!Preque, Deques!Asks, Deques!Return, Deques!Taken, Puts
  <2> QED BY <2>5 DEF Deques!Next
<1>6. CASE PutExpand(t)
  <2>1. PICK b \in Fresh :
          /\ heap' = [c \in (Live \ {queue}) \cup {b} |-> IF c = b THEN Put(t, Expanded(r)) ELSE heap[c]]
          /\ queue' = b
    BY <1>6 DEF PutExpand, r
  <2>2. Takes(t) /\ got' = [got EXCEPT ![t] = NoLink]
    BY <1>6 DEF PutExpand, Grows, Return
  <2>3. Items' = Contents(Put(t, Expanded(r))) /\ IsOpen'
    <3>1. queue' \in Live' /\ heap'[queue'] = Put(t, Expanded(r))
      BY <2>1 DEF Live
    <3>2. queue' # Null
      BY <2>1, QueueAssumption DEF Fresh
    <3> QED BY <3>1, <3>2 DEF Items, IsOpen
  <2>4. /\ Op(t) = "enque"  => Items' = Append(Items, asked[t].link)
        /\ Op(t) = "preque" => Items' = <<asked[t].link>> \o Items
    BY <1>3, <2>2, <2>3, ExpandedOfRing, PutOfRing
  <2>5. Op(t) \in Puts /\ asked[t].link # NoLink
    BY <2>2 DEF Takes
  <2>6. Deques!Enque(t) \/ Deques!Preque(t)
    BY <1>1, <1>12, <1>2, <1>3, <1>4, <2>2, <2>3, <2>4, <2>5
    DEF Deques!Enque, Deques!Preque, Deques!Asks, Deques!Return, Deques!Taken, Puts
  <2> QED BY <2>6 DEF Deques!Next
<1>7. CASE PutNothing(t)
  <2>1. /\ Op(t) \in Puts /\ asked[t].link = NoLink /\ queue' = queue /\ heap' = heap
        /\ got' = [got EXCEPT ![t] = NoLink]
    BY <1>2, <1>7 DEF PutNothing, Takes, WriteBack, Return
  <2>2. Items' = Items /\ IsOpen' = IsOpen
    BY <1>1, <2>1 DEF Items, IsOpen, IsLink, Live
  <2>3. Deques!Enque(t) \/ Deques!Preque(t)
    BY <1>1, <1>12, <1>2, <1>4, <2>1, <2>2
    DEF Deques!Enque, Deques!Preque, Deques!Asks, Deques!Return, Deques!Taken, Puts
  <2> QED BY <2>3 DEF Deques!Next
<1>8. CASE Deque(t)
  <2>1. Op(t) = "deque" /\ queue' = queue /\ IsOpen' = IsOpen
    BY <1>1, <1>8 DEF Deque, IsOpen, IsLink
  <2>2. CASE Empty(r)
    <3>1. heap' = heap /\ got' = [got EXCEPT ![t] = NoLink]
      BY <1>8, <2>2 DEF Deque, Return, r
    <3>2. Items = <<>>
      BY <1>3, <2>2, LengthOfRing, ContentsOfRing DEF IsRing
    <3>3. Items' = Items
      BY <2>1, <3>1 DEF Items, Live
    <3> QED BY <1>1, <1>12, <1>2, <1>4, <2>1, <3>1, <3>2, <3>3
            DEF Deques!Next, Deques!Deque, Deques!Asks, Deques!Return
  <2>3. CASE ~Empty(r)
    <3>1. /\ heap' = [heap EXCEPT ![queue] = WithoutBottom(r)]
          /\ got' = [got EXCEPT ![t] = r.node[r.bottom]]
      BY <1>8, <2>3 DEF Deque, Return, r
    <3>2. Items' = Contents(WithoutBottom(r))
      BY <1>2, <2>1, <3>1 DEF Items, Live
    <3>3. Items # <<>> /\ got' = [got EXCEPT ![t] = Head(Items)] /\ Items' = Tail(Items)
      BY <1>3, <2>3, <3>1, <3>2, WithoutBottomOfRing
    <3> QED BY <1>1, <1>12, <1>2, <1>4, <2>1, <3>3
            DEF Deques!Next, Deques!Deque, Deques!Asks, Deques!Return
  <2> QED BY <2>2, <2>3
<1>9. CASE Unque(t)
  <2>1. Op(t) = "unque" /\ queue' = queue /\ IsOpen' = IsOpen
    BY <1>1, <1>9 DEF Unque, IsOpen, IsLink
  <2>2. CASE Empty(r)
    <3>1. heap' = heap /\ got' = [got EXCEPT ![t] = NoLink]
      BY <1>9, <2>2 DEF Unque, Return, r
    <3>2. Items = <<>>
      BY <1>3, <2>2, LengthOfRing, ContentsOfRing DEF IsRing
    <3>3. Items' = Items
      BY <2>1, <3>1 DEF Items, Live
    <3> QED BY <1>1, <1>12, <1>2, <1>4, <2>1, <3>1, <3>2, <3>3
            DEF Deques!Next, Deques!Unque, Deques!Asks, Deques!Return
  <2>3. CASE ~Empty(r)
    <3>1. /\ heap' = [heap EXCEPT ![queue] = WithoutTop(r)]
          /\ got' = [got EXCEPT ![t] = r.node[Before(r, r.top)]]
      BY <1>9, <2>3 DEF Unque, Return, r
    <3>2. Items' = Contents(WithoutTop(r))
      BY <1>2, <2>1, <3>1 DEF Items, Live
    <3>3. Items # <<>> /\ got' = [got EXCEPT ![t] = Items[Len(Items)]]
          /\ Items' = SubSeq(Items, 1, Len(Items) - 1)
      BY <1>3, <2>3, <3>1, <3>2, WithoutTopOfRing
    <3> QED BY <1>1, <1>12, <1>2, <1>4, <2>1, <3>3
            DEF Deques!Next, Deques!Unque, Deques!Asks, Deques!Return
  <2> QED BY <2>2, <2>3
<1>10. CASE PeekLocked(t)
  <2>1. /\ Op(t) = "peek" /\ queue' = queue /\ heap' = heap /\ IsOpen' = IsOpen
        /\ got' = [got EXCEPT ![t] = Peeked(r, asked[t].idx)]
    BY <1>1, <1>10 DEF PeekLocked, Return, IsOpen, IsLink, r
  <2>2. Items' = Items
    BY <2>1 DEF Items, Live
  <2>3. got' = [got EXCEPT ![t] =
                  IF Deques!Index(asked[t].idx) \in 1..Len(Items)
                  THEN Items[Deques!Index(asked[t].idx)] ELSE NoLink]
    BY <1>3, <1>4, <2>1, PeekedOfRing DEF Deques!Index
  <2> QED BY <1>1, <1>12, <1>2, <1>4, <2>1, <2>2, <2>3
          DEF Deques!Next, Deques!Peek, Deques!Asks, Deques!Return
<1>11. CASE MakeEmpty(t)
  <2>1. /\ Op(t) = "empty" /\ queue' = queue /\ heap' = [heap EXCEPT ![queue] = Emptied(r)]
        /\ got' = [got EXCEPT ![t] = NoLink] /\ IsOpen' = IsOpen
    BY <1>1, <1>11 DEF MakeEmpty, Return, IsOpen, IsLink, r
  <2>2. Items' = <<>>
    BY <1>2, <1>3, <2>1, EmptiedOfRing DEF Items, Live
  <2> QED BY <1>1, <1>12, <1>2, <1>4, <2>1, <2>2
          DEF Deques!Next, Deques!Clear, Deques!Asks, Deques!Return
<1> QED BY <1>5, <1>6, <1>7, <1>8, <1>9, <1>10, <1>11 DEF Locked

\* A call that finds no queue does what it would do with an empty one, but puts nothing there.
LEMMA NothingImplements ==
  ASSUME TypeOK, SafeInv, IsSafe(setup), NEW t \in Threads, StartNothing(t)
  PROVE  Deques!Next
<1>1. /\ queue = Null /\ pc[t] = "called" /\ got' = [got EXCEPT ![t] = NoLink]
      /\ UNCHANGED <<queue, heap, asked, setup>>
      /\ Op(t) # "delete" /\ (Op(t) \in Puts => ~IsLink)
  BY DEF StartNothing, Return, Is
<1>2. Answers[t] = Pending /\ Answers' = [Answers EXCEPT ![t] = NoLink]
  <2>1. ThreadNext(t) /\ pc'[t] = "idle"
    BY DEF ThreadNext, Start, StartNothing, Return, Goto, TypeOK
  <2>2. got[t] = Pending
    BY <1>1 DEF SafeInv, ThreadIsSafe
  <2>3. Answers[t] = got[t]
    BY <1>1, <2>1, AnswersAre
  <2> QED BY <1>1, <2>1, <2>2, <2>3, AnswersReturn
<1>3. Items = <<>> /\ Items' = Items /\ IsOpen' = IsOpen /\ IsOpen = IsLink
  BY <1>1, QueueAssumption DEF TypeOK, Items, IsOpen, IsLink, Live
<1>4. asked[t].op = Op(t) /\ Op(t) \in Ops \ {"delete"} /\ asked[t].idx \in Int
  BY <1>1, QueueAssumption DEF TypeOK, Requests, Op
<1>5. Deques!Index(asked[t].idx) \notin 1..Len(Items)
  BY <1>3, <1>4 DEF Deques!Index
<1>6. CASE Op(t) \in Puts
  BY <1>1, <1>2, <1>3, <1>4, <1>6
  DEF Puts, Deques!Next, Deques!Enque, Deques!Preque, Deques!Asks, Deques!Return, Deques!Taken
<1>7. CASE Op(t) \in {"deque", "unque"}
  BY <1>1, <1>2, <1>3, <1>4, <1>7
  DEF Deques!Next, Deques!Deque, Deques!Unque, Deques!Asks, Deques!Return
<1>8. CASE Op(t) \in {"peek", "empty"}
  BY <1>1, <1>2, <1>3, <1>4, <1>5, <1>8
  DEF Deques!Next, Deques!Peek, Deques!Clear, Deques!Asks, Deques!Return
<1> QED BY <1>4, <1>6, <1>7, <1>8 DEF Ops

LEMMA WalkImplements ==
  ASSUME TypeOK, SafeInv, IsSafe(setup), NEW t \in Threads, WalkIsSafe(t),
         PeekFrom(t) \/ WalkOn(t) \/ WalkEnds(t)
  PROVE  Deques!Next \/ Unseen
<1> DEFINE r == heap[queue]
           k == asked[t].idx
           i == walk[t].at
           n == walk[t].left
<1>1. pc[t] \in {"peek", "walk"} /\ UNCHANGED <<setup, queue, heap, asked>> /\ ThreadNext(t)
  BY DEF PeekFrom, WalkOn, WalkEnds, Is, Return, ThreadNext
<1>2. /\ ptr[t] = queue /\ queue \in Live /\ IsRing(r) /\ k \in Int /\ i \in Nat /\ n \in Int
      /\ pc[t] = "walk" => i \in 0..(r.cnt - 1)
  BY <1>1, WalkInQueue
<1>3. Items = Contents(r) /\ Items' = Items /\ IsOpen' = IsOpen
  BY <1>1, <1>2 DEF Items, IsOpen, IsLink, Live
<1>4. got[t] = Pending /\ asked[t].op = "peek"
  BY <1>1 DEF SafeInv, ThreadIsSafe, Op
<1>5. Answers' = [Answers EXCEPT ![t] = Answers'[t]] /\ (pc[t] # "walk" => Answers[t] = got[t])
      /\ (pc'[t] # "walk" => Answers'[t] = got'[t])
  BY <1>1, AnswersAre
<1>6. pc[t] = "walk" => Answers[t] = IF Backwards(t) THEN got[t] ELSE Peeked(Rest(r, i), n)
  BY <1>2 DEF Answers
<1>7. Backwards(t)' = Backwards(t) /\ r' = r /\ (Backwards(t) <=> k < 0)
  BY <1>1 DEF Backwards
<1>8. ptr' = ptr /\ pc'[t] = "walk"
        => Answers'[t] = IF Backwards(t) THEN got'[t] ELSE Peeked(Rest(r, i), n)'
  BY <1>1, <1>2, <1>7 DEF Answers, Live
\* The call looks into the queue now.
<1>9. ASSUME Answers[t] = Pending, Answers'[t] = Peeked(r, k) PROVE Deques!Next
  <2>1. Peeked(r, k) = IF Deques!Index(k) \in 1..Len(Items) THEN Items[Deques!Index(k)] ELSE NoLink
    BY <1>2, <1>3, PeekedOfRing DEF Deques!Index
  <2>2. Answers' = [Answers EXCEPT ![t] = IF Deques!Index(asked[t].idx) \in 1..Len(Items)
                                          THEN Items[Deques!Index(asked[t].idx)] ELSE NoLink]
    BY <1>5, <1>9, <2>1
  <2> QED BY <1>1, <1>3, <1>4, <1>9, <2>2 DEF Deques!Next, Deques!Peek, Deques!Asks, Deques!Return
\* It does not.
<1>10. ASSUME Answers'[t] = Answers[t] PROVE Unseen
  <2>1. Answers' = Answers
    BY <1>1, <1>5, <1>10, AnswersAre
  <2> QED BY <1>1, <1>3, <2>1 DEF Unseen
<1>11. CASE PeekFrom(t)
  <2>1. pc[t] = "peek" /\ pc'[t] = "walk" /\ ptr' = ptr /\ got' = got
    BY <1>11 DEF PeekFrom, Is, Goto, TypeOK
  <2>2. Answers[t] = Pending
    BY <1>4, <1>5, <2>1
  <2>3. CASE Backwards(t)
    BY <1>4, <1>8, <1>10, <2>1, <2>2, <2>3
  <2>4. CASE ~Backwards(t)
    <3>1. i' = r.bottom /\ n' = k
      BY <1>2, <1>11, <2>4 DEF PeekFrom, TypeOK
    <3>2. Peeked(Rest(r, i), n)' = Peeked(Rest(r, i'), n')
      BY <1>7 DEF Peeked, Rest, Length, At
    <3>3. Peeked(Rest(r, r.bottom), k) = Peeked(r, k)
      BY <1>2, WholeRing
    <3> HIDE DEF r, k, i, n
    <3>4. Answers'[t] = Peeked(r, k)
      BY <1>8, <2>1, <2>4, <3>1, <3>2, <3>3
    <3> QED BY <1>9, <2>2, <3>4
  <2> QED BY <2>3, <2>4
<1>12. CASE WalkOn(t)
  <2>1. pc[t] = "walk" /\ pc'[t] = "walk" /\ ptr' = ptr /\ got' = got
    BY <1>12 DEF WalkOn, Is
  <2>2. ~Backwards(t) => Peeked(Rest(r, i), n)' = Peeked(Rest(r, i), n)
    BY <1>12, WalkGoesOn
  <2> QED BY <1>6, <1>8, <1>10, <2>1, <2>2
<1>13. CASE WalkEnds(t)
  <2>1. /\ pc[t] = "walk" /\ pc'[t] = "idle" /\ ~Walks(t, r)
        /\ got'[t] = IF Found(t, r) THEN r.node[i] ELSE NoLink
    BY <1>2, <1>13 DEF WalkEnds, Is, Return, Goto, TypeOK
  <2>2. n = 0 \/ i = Stop(t, r)
    BY <2>1 DEF Walks
  <2>3. IF Backwards(t) THEN FromTopIsSafe(r, walk[t], k) ELSE FromBottomIsSafe(r, walk[t])
    BY <2>1 DEF WalkIsSafe
  <2>4. r.cnt \in Nat \ {0, 1}
    BY <1>2 DEF IsRing, HasPlaces
  <2>5. CASE Backwards(t)
    <3>1. Answers[t] = Pending
      BY <1>4, <1>6, <2>1, <2>5
    <3>2. got'[t] = IF n = 0 /\ ~Empty(r) THEN r.node[i] ELSE NoLink
      BY <2>1, <2>5 DEF Found
    <3>3. got'[t] = Peeked(r, k)
      <4>1. CASE Empty(r)
        <5>1. Length(r) = 0
          BY <1>2, <4>1, LengthOfRing DEF IsRing
        <5>2. k < 0 /\ ~(-k <= 0)
          BY <1>2, <1>7, <2>5
        <5> HIDE DEF r, k
        <5>3. Peeked(r, k) = NoLink
          BY <1>2, <5>1, <5>2 DEF Peeked
        <5> QED BY <3>2, <4>1, <5>3
      <4>2. CASE ~Empty(r)
        <5>1. /\ IsRing(UpToPlace(r, i)) /\ ~Empty(UpToPlace(r, i))
              /\ n <= 0 /\ Peeked(UpToPlace(r, i), n - 1) = Peeked(r, k)
          BY <2>3, <2>5, <4>2 DEF FromTopIsSafe
        <5>2. Stop(t, r) = r.bottom
          BY <2>5 DEF Stop
        <5> HIDE DEF r, k, i, n
        <5>3. /\ Peeked(UpToPlace(r, i), -1) = r.node[i]
              /\ i = r.bottom => \A x \in Int : x < 0 => Peeked(UpToPlace(r, i), x - 1) = NoLink
          BY <1>2, <2>1, <2>4, <5>1, UpToOfRing
        <5>4. CASE n = 0
          <6>1. n - 1 = -1
            BY <5>4
          <6> QED BY <3>2, <4>2, <5>1, <5>3, <5>4, <6>1
        <5>5. CASE n # 0
          <6>1. i = r.bottom /\ n < 0 /\ n \in Int
            BY <1>2, <2>2, <5>1, <5>2, <5>5
          <6>2. Peeked(UpToPlace(r, i), n - 1) = NoLink
            BY <5>3, <6>1
          <6> QED BY <3>2, <5>1, <5>5, <6>2
        <5> QED BY <5>4, <5>5
      <4> QED BY <4>1, <4>2
    <3> QED BY <1>5, <1>9, <2>1, <3>1, <3>3
  <2>6. CASE ~Backwards(t)
    <3> DEFINE s == Rest(r, i)
    <3>1. IsRing(s) /\ n >= 0 /\ s.node = r.node /\ s.bottom = i /\ s.top = r.top /\ s.cnt = r.cnt
      BY <2>3, <2>6 DEF FromBottomIsSafe, Rest, Ring
    <3>2. got'[t] = IF n = 0 /\ i # r.top THEN r.node[i] ELSE NoLink
      BY <2>1, <2>6 DEF Found
    <3>3. n = 0 \/ i = r.top
      BY <2>2, <2>6 DEF Stop
    <3> HIDE DEF s, r, i, n
    <3>4. HasPlaces(s) /\ (Empty(s) <=> i = r.top)
      BY <3>1 DEF IsRing, Empty
    <3>5. Length(s) \in Nat /\ (Length(s) = 0 <=> i = r.top)
      <4>1. Length(s) \in 0..(s.cnt - 1) /\ (Length(s) = 0 <=> Empty(s)) /\ s.cnt \in Nat
        BY <3>4, LengthOfRing DEF HasPlaces
      <4> QED BY <3>4, <4>1
    <3>6. At(s, 0) = i
      <4>1. i \in 0..(s.cnt - 1) /\ s.cnt \in Nat /\ s.bottom = i
        BY <1>2, <2>1, <2>4, <3>1
      <4>2. i \in Nat /\ i + 0 = i /\ ~(i >= s.cnt)
        BY <4>1
      <4> QED BY <4>1, <4>2 DEF At
    <3>7. Peeked(s, n) = IF n < Length(s) THEN s.node[At(s, n)] ELSE NoLink
      BY <1>2, <3>1 DEF Peeked
    <3>8. got'[t] = Peeked(s, n)
      BY <1>2, <3>1, <3>2, <3>3, <3>5, <3>6, <3>7
    <3>9. Answers[t] = Peeked(s, n)
      BY <1>6, <2>1, <2>6 DEF s, r, i, n
    <3> QED BY <1>5, <1>10, <2>1, <3>8, <3>9
  <2> QED BY <2>5, <2>6
<1> QED BY <1>11, <1>12, <1>13

LEMMA AbstractStep ==
  TypeOK /\ TypeOK' /\ LockIsReturned /\ SafeInv /\ SafeInv' /\ WalkInv /\ [Next]_vars
    => [IsSafe(setup) => Deques!Next]_<<Items, IsOpen, asked, Answers>>
<1> SUFFICES ASSUME TypeOK, TypeOK', LockIsReturned, SafeInv, WalkInv, [Next]_vars, IsSafe(setup)
             PROVE  Deques!Next \/ Unseen
  BY DEF Unseen
<1>1. CASE UNCHANGED vars
  BY <1>1, AnswersStay DEF vars, Unseen, Items, IsOpen, IsLink, Live
<1>2. ASSUME NEW t \in Threads, ThreadNext(t) PROVE Deques!Next \/ Unseen
  <2>1. ThreadIsSafe(t) /\ PointerIsSafe /\ WalkIsSafe(t)
    BY DEF SafeInv, WalkInv
  <2>13. /\ Answers' = [Answers EXCEPT ![t] = Answers'[t]]
         /\ pc[t] # "walk"  => Answers[t] = got[t]
         /\ pc'[t] # "walk" => Answers'[t] = got'[t]
    BY <1>2, AnswersAre
  <2>14. ASSUME pc[t] # "walk", pc'[t] # "walk", got' = got PROVE Answers' = Answers
    <3>1. Answers'[t] = Answers[t]
      BY <2>13, <2>14
    <3> QED BY <1>2, <2>13, <3>1, AnswersAre
  <2>2. CASE Call(t)
    <3>1. got[t] # Pending /\ pc[t] = "idle" /\ pc'[t] = "called"
      BY <2>1, <2>2 DEF Call, Is, Goto, ThreadIsSafe, TypeOK
    <3>2. Items' = Items /\ IsOpen' = IsOpen
      BY <2>2 DEF Call, Items, IsOpen, IsLink, Live
    <3>3. Answers[t] # Pending /\ Answers' = [Answers EXCEPT ![t] = Pending]
      <4>1. got'[t] = Pending
        BY <2>2 DEF Call, TypeOK
      <4> QED BY <2>13, <3>1, <4>1
    <3>4. \E q \in Requests : asked' = [asked EXCEPT ![t] = q]
      BY <2>2 DEF Call
    <3>5. Deques!Call(t)
      BY <3>2, <3>3, <3>4 DEF Deques!Call
    <3> QED BY <3>5 DEF Deques!Next
  <2>3. CASE StartCreate(t) \/ StartPeek(t) \/ StartDelete(t) \/ StartLock(t)
    <3>1. pc[t] = "called" /\ pc'[t] # "walk" /\ got' = got /\ UNCHANGED <<queue, heap, setup, asked>>
      BY <2>3 DEF StartCreate, StartPeek, StartDelete, StartLock, Is, Goto, TypeOK
    <3>2. Answers' = Answers
      BY <2>14, <3>1
    <3> QED BY <3>1, <3>2 DEF Unseen, Items, IsOpen, IsLink, Live
  <2>4. CASE StartNothing(t)
    BY <2>4, NothingImplements
  <2>5. CASE Create(t)
    <3>1. /\ IsLink /\ queue = Null /\ UNCHANGED <<setup, asked, got>>
          /\ pc[t] = "create" /\ pc'[t] = "lock"
      BY <2>1, <2>5 DEF Create, Is, Goto, ThreadIsSafe, TypeOK
    <3>2. queue' \in Live' /\ heap'[queue'] = NewRing
      BY <2>5 DEF Create, Live
    <3>3. Items = <<>>
      BY <3>1, QueueAssumption DEF Items, TypeOK
    <3>4. Items' = <<>>
      BY <3>2, NewRingIsRing DEF Items, TypeOK
    <3>5. Answers' = Answers
      BY <2>14, <3>1
    <3> QED BY <3>1, <3>3, <3>4, <3>5 DEF Unseen, IsOpen, IsLink
  <2>6. CASE Lock(t) \/ LockDelete(t)
    <3>1. pc[t] = "lock" /\ pc'[t] # "walk" /\ got' = got /\ UNCHANGED <<queue, heap, setup, asked>>
      BY <2>6 DEF Lock, LockDelete, Is, Goto, TypeOK
    <3>2. Answers' = Answers
      BY <2>14, <3>1
    <3> QED BY <3>1, <3>2 DEF Unseen, Items, IsOpen, IsLink, Live
  <2>7. CASE LockNothing(t)
    BY <2>1, <2>7 DEF LockNothing, Is, ThreadIsSafe
  <2>8. CASE Locked(t)
    BY <2>8, LockedImplements
  <2>9. CASE PeekFrom(t) \/ WalkOn(t) \/ WalkEnds(t)
    BY <2>1, <2>9, WalkImplements
  <2>10. CASE Free(t)
    <3>1. /\ Op(t) = "delete" /\ got[t] = Pending /\ UNCHANGED <<queue, asked, got, setup>>
          /\ pc[t] = "free" /\ pc'[t] = "clear"
      BY <2>1, <2>10 DEF Free, Is, Goto, ThreadIsSafe, TypeOK
    <3>2. queue' \notin Live'
      BY <2>10 DEF Free, Live
    <3>3. Items' = <<>> /\ IsOpen' = IsOpen
      BY <3>1, <3>2 DEF Items, IsOpen, IsLink
    <3>4. Answers' = Answers /\ Answers[t] = Pending
      BY <2>13, <2>14, <3>1
    <3> QED BY <3>1, <3>3, <3>4 DEF Deques!Next, Deques!Drop, Deques!Asks, Op
  <2>11. CASE Clear(t)
    <3>1. /\ Op(t) = "delete" /\ got[t] = Pending /\ Live = {} /\ UNCHANGED <<heap, asked, setup>>
          /\ queue' = Null /\ got' = [got EXCEPT ![t] = NoLink]
          /\ pc[t] = "clear" /\ pc'[t] = "idle"
      BY <2>1, <2>11 DEF Clear, Is, Return, Goto, ThreadIsSafe, PointerIsSafe, TypeOK
    <3>2. Items = <<>> /\ Items' = <<>>
      BY <3>1 DEF Items, Live
    <3>3. IsOpen' \in {IsOpen, FALSE}
      BY <3>1 DEF IsOpen, IsLink
    <3>4. Answers[t] = Pending /\ Answers' = [Answers EXCEPT ![t] = NoLink]
      BY <1>2, <2>13, <3>1, AnswersReturn
    <3> QED BY <3>1, <3>2, <3>3, <3>4 DEF Deques!Next, Deques!Delete, Deques!Asks, Deques!Return, Op
  <2>12. CASE Fault(t)
    <3>1. Items' = Items /\ IsOpen' = IsOpen /\ asked' = asked
      BY <2>12 DEF Fault, Items, IsOpen, IsLink, Live
    <3>2. Answers' = Answers
      BY <2>12, AnswersStay DEF Fault
    <3> QED BY <3>1, <3>2 DEF Unseen
  <2> QED
    BY <1>2, <2>2, <2>3, <2>4, <2>5, <2>6, <2>7, <2>8, <2>9, <2>10, <2>11, <2>12
    DEF ThreadNext, Start
<1> QED BY <1>1, <1>2 DEF Next, Stopped

\* Used safely by any number of threads, a link queue or a data queue is a sequence on which
\* each call acts at one moment, wherever the ring wraps and whenever it is replaced, and a
\* look into a link queue too, which takes no lock and reads the ring again at each turn.
THEOREM QueueImplementsDeque == Spec => ImplementsDeque
<1>1. Spec => Deques!Init
  BY AbstractInit DEF Spec
<1> QED BY <1>1, SafeAlways, AbstractStep, PTL DEF Spec, ImplementsDeque
=============================================================================
