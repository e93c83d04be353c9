---------------------------- MODULE TimersProofs ----------------------------
(***************************************************************************)
(* Theorems about Timers, for any number of timers, clients and callbacks, *)
(* and their proofs.                                                       *)
(***************************************************************************)
EXTENDS Timers, FiniteSetTheorems, SequenceTheorems, WellFoundedInduction, TLAPS

(***************************************************************************)
(* The list                                                                *)
(***************************************************************************)
\* A set of natural numbers that is not empty has a least one.
LEMMA MinOf ==
  ASSUME NEW S \in SUBSET Nat, S # {}
  PROVE  Min(S) \in S /\ \A y \in S : Min(S) <= y
<1> DEFINE R == {ss \in Nat \X Nat : ss[1] < ss[2]}
<1>1. \E x \in S : \A y \in S : ~(<<y, x>> \in R)
  <2>1. IsWellFoundedOn(R, Nat)
    BY NatLessThanWellFounded DEF OpToRel
  <2> HIDE DEF R
  <2> QED BY <2>1, WFMin
<1>2. ASSUME NEW x \in Nat, NEW y \in Nat, y < x
      PROVE  <<y, x>> \in R
  <2>1. <<y, x>> \in Nat \X Nat /\ <<y, x>>[1] < <<y, x>>[2]
    BY <1>2
  <2> QED BY <2>1
<1>3. PICK x \in S : \A y \in S : ~(<<y, x>> \in R)
  BY <1>1
<1> HIDE DEF R
<1>4. ASSUME NEW y \in S PROVE x <= y
  <2>1. x \in Nat /\ y \in Nat /\ (y < x => <<y, x>> \in R)
    BY <1>2
  <2> QED BY <1>3, <2>1
<1> QED BY <1>3, <1>4 DEF Min

\* What InsertAt and RemoveAt make of a sequence, position by position.
LEMMA InsertAtIs ==
  ASSUME NEW S, NEW s \in Seq(S), NEW t \in S, NEW p \in 1..(Len(s) + 1)
  PROVE  /\ InsertAt(s, p, t) \in Seq(S)
         /\ Len(InsertAt(s, p, t)) = Len(s) + 1
         /\ \A i \in 1..(Len(s) + 1) :
              InsertAt(s, p, t)[i] = IF i < p THEN s[i] ELSE IF i = p THEN t ELSE s[i - 1]
<1> DEFINE n == Len(s)
           a == SubSeq(s, 1, p - 1)
           b == SubSeq(s, p, n)
           c == a \o <<t>>
<1>1. n \in Nat /\ p \in Int /\ p - 1 \in Int /\ 1 <= p /\ p <= n + 1 /\ \A i \in 1..n : s[i] \in S
  OBVIOUS
<1>2. a \in Seq(S) /\ Len(a) = p - 1 /\ \A i \in 1..(p - 1) : a[i] = s[i]
  <2>1. \A i \in 1..(p - 1) : s[i] \in S
    BY <1>1
  <2>2. /\ a \in Seq(S) /\ Len(a) = IF 1 <= p - 1 THEN (p - 1) - 1 + 1 ELSE 0
        /\ \A i \in 1..((p - 1) - 1 + 1) : a[i] = s[1 + i - 1]
    BY <1>1, <2>1, SubSeqProperties
  <2> HIDE DEF a
  <2> QED BY <1>1, <2>2
<1>3. b \in Seq(S) /\ Len(b) = n - p + 1 /\ \A i \in 1..(n - p + 1) : b[i] = s[p + i - 1]
  <2>1. \A i \in p..n : s[i] \in S
    BY <1>1
  <2>2. /\ b \in Seq(S) /\ Len(b) = IF p <= n THEN n - p + 1 ELSE 0
        /\ \A i \in 1..(n - p + 1) : b[i] = s[p + i - 1]
    BY <1>1, <2>1, SubSeqProperties
  <2> HIDE DEF b
  <2> QED BY <1>1, <2>2
<1> HIDE DEF a, b
<1>4. c \in Seq(S) /\ Len(c) = p /\ c[p] = t /\ \A i \in 1..(p - 1) : c[i] = a[i]
  BY <1>1, <1>2, SMTT(30)
<1> HIDE DEF c
<1>5. /\ c \o b \in Seq(S) /\ Len(c \o b) = Len(c) + Len(b)
      /\ \A i \in 1..(Len(c) + Len(b)) :
           (c \o b)[i] = IF i <= Len(c) THEN c[i] ELSE b[i - Len(c)]
  BY <1>3, <1>4, ConcatProperties
<1>6. InsertAt(s, p, t) = c \o b
  BY DEF InsertAt, a, b, c
<1> DEFINE u == c \o b
<1>7. u \in Seq(S) /\ Len(u) = n + 1
      /\ \A i \in 1..(n + 1) : u[i] = IF i <= p THEN c[i] ELSE b[i - p]
  BY <1>1, <1>3, <1>4, <1>5
<1> HIDE DEF u, n
<1>8. ASSUME NEW i \in 1..(n + 1)
      PROVE  u[i] = IF i < p THEN s[i] ELSE IF i = p THEN t ELSE s[i - 1]
  <2>1. CASE i < p
    BY <1>1, <1>2, <1>4, <1>7, <2>1
  <2>2. CASE i = p
    BY <1>1, <1>4, <1>7, <2>2
  <2>3. CASE i > p
    <3>1. i - p \in 1..(n - p + 1) /\ p + (i - p) - 1 = i - 1
      BY <1>1, <2>3
    <3>2. b[i - p] = s[p + (i - p) - 1]
      BY <1>3, <3>1
    <3>3. u[i] = b[i - p]
      BY <1>1, <1>7, <2>3
    <3> QED BY <1>1, <2>3, <3>1, <3>2, <3>3, SMTT(30)
  <2> QED BY <1>1, <2>1, <2>2, <2>3
<1> QED BY <1>6, <1>7, <1>8 DEF u, n

LEMMA RemoveAtIs ==
  ASSUME NEW S, NEW s \in Seq(S), NEW p \in 1..Len(s)
  PROVE  /\ RemoveAt(s, p) \in Seq(S)
         /\ Len(RemoveAt(s, p)) = Len(s) - 1
         /\ \A i \in 1..(Len(s) - 1) :
              RemoveAt(s, p)[i] = IF i < p THEN s[i] ELSE s[i + 1]
<1> DEFINE n == Len(s)
           a == SubSeq(s, 1, p - 1)
           b == SubSeq(s, p + 1, n)
<1>1. n \in Nat /\ p \in Int /\ p - 1 \in Int /\ p + 1 \in Int /\ 1 <= p /\ p <= n
      /\ \A i \in 1..n : s[i] \in S
  OBVIOUS
<1>2. a \in Seq(S) /\ Len(a) = p - 1 /\ \A i \in 1..(p - 1) : a[i] = s[i]
  <2>1. \A i \in 1..(p - 1) : s[i] \in S
    BY <1>1
  <2>2. /\ a \in Seq(S) /\ Len(a) = IF 1 <= p - 1 THEN (p - 1) - 1 + 1 ELSE 0
        /\ \A i \in 1..((p - 1) - 1 + 1) : a[i] = s[1 + i - 1]
    BY <1>1, <2>1, SubSeqProperties
  <2> HIDE DEF a
  <2> QED BY <1>1, <2>2
<1>3. b \in Seq(S) /\ Len(b) = n - p /\ \A i \in 1..(n - p) : b[i] = s[p + i]
  <2>1. \A i \in (p + 1)..n : s[i] \in S
    BY <1>1
  <2>2. /\ b \in Seq(S) /\ Len(b) = IF p + 1 <= n THEN n - (p + 1) + 1 ELSE 0
        /\ \A i \in 1..(n - (p + 1) + 1) : b[i] = s[(p + 1) + i - 1]
    BY <1>1, <2>1, SubSeqProperties
  <2> HIDE DEF b, n
  <2>3. \A i \in 1..(n - p) : i \in 1..(n - (p + 1) + 1) /\ (p + 1) + i - 1 = p + i
    BY <1>1
  <2> QED BY <1>1, <2>2, <2>3
<1> HIDE DEF a, b
<1>4. /\ a \o b \in Seq(S) /\ Len(a \o b) = Len(a) + Len(b)
      /\ \A i \in 1..(Len(a) + Len(b)) :
           (a \o b)[i] = IF i <= Len(a) THEN a[i] ELSE b[i - Len(a)]
  BY <1>2, <1>3, ConcatProperties
<1>5. RemoveAt(s, p) = a \o b
  BY DEF RemoveAt, a, b
<1> DEFINE u == a \o b
<1>6. u \in Seq(S) /\ Len(u) = n - 1
      /\ \A i \in 1..(n - 1) : u[i] = IF i <= p - 1 THEN a[i] ELSE b[i - (p - 1)]
  BY <1>1, <1>2, <1>3, <1>4
<1> HIDE DEF u, n
<1>7. ASSUME NEW i \in 1..(n - 1)
      PROVE  u[i] = IF i < p THEN s[i] ELSE s[i + 1]
  <2>1. CASE i < p
    BY <1>1, <1>2, <1>6, <2>1
  <2>2. CASE i >= p
    <3>1. i - (p - 1) \in 1..(n - p) /\ p + (i - (p - 1)) = i + 1
      BY <1>1, <2>2
    <3>2. b[i - (p - 1)] = s[p + (i - (p - 1))]
      BY <1>3, <3>1
    <3>3. u[i] = b[i - (p - 1)]
      BY <1>1, <1>6, <2>2
    <3> QED BY <1>1, <2>2, <3>1, <3>2, <3>3
  <2> QED BY <1>1, <2>1, <2>2
<1> QED BY <1>5, <1>6, <1>7 DEF u, n

\* A list of timers, each once.
IsList(s) == s \in Seq(Timers) /\ \A i, j \in 1..Len(s) : s[i] = s[j] => i = j

LEMMA InsertAtOf ==
  ASSUME NEW s, IsList(s), NEW t \in Timers, t \notin ToSet(s), NEW p \in 1..(Len(s) + 1)
  PROVE  IsList(InsertAt(s, p, t)) /\ ToSet(InsertAt(s, p, t)) = ToSet(s) \cup {t}
<1> DEFINE u == InsertAt(s, p, t)
           n == Len(s)
<1>1. n \in Nat /\ s \in Seq(Timers) /\ DOMAIN s = 1..n
  BY DEF IsList
<1>2. /\ u \in Seq(Timers) /\ Len(u) = n + 1 /\ u[p] = t
      /\ \A i \in 1..(p - 1) : u[i] = s[i]
      /\ \A i \in (p + 1)..(n + 1) : u[i] = s[i - 1]
  <2>1. /\ u \in Seq(Timers) /\ Len(u) = n + 1
        /\ \A i \in 1..(n + 1) : u[i] = IF i < p THEN s[i] ELSE IF i = p THEN t ELSE s[i - 1]
    BY <1>1, InsertAtIs
  <2>2. p \in 1..(n + 1)
    OBVIOUS
  <2> HIDE DEF u, n
  <2> QED BY <1>1, <2>1, <2>2
<1> HIDE DEF u, n
<1>3. ASSUME NEW i \in 1..(n + 1), NEW j \in 1..(n + 1), u[i] = u[j] PROVE i = j
  <2>0. p \in 1..(n + 1)
    BY DEF n
  <2>1. \A k, l \in 1..n : s[k] = s[l] => k = l
    BY DEF IsList, n
  <2>2. \A k \in 1..n : s[k] # t
    BY <1>1 DEF ToSet
  <2>3. ASSUME NEW k \in 1..(n + 1)
        PROVE  \/ k < p /\ k \in 1..n /\ u[k] = s[k]
               \/ k = p /\ u[k] = t
               \/ k > p /\ k - 1 \in 1..n /\ u[k] = s[k - 1]
    BY <1>1, <1>2, <2>0
  <2> QED BY <1>1, <1>3, <2>0, <2>1, <2>2, <2>3
<1>4. ToSet(u) = ToSet(s) \cup {t}
  <2>1. DOMAIN u = 1..(n + 1)
    BY <1>1, <1>2
  <2>2. \A i \in 1..n : \E j \in 1..(n + 1) : u[j] = s[i]
    <3> TAKE i \in 1..n
    <3>1. CASE i < p
      BY <1>1, <1>2, <3>1
    <3>2. CASE i >= p
      <4>1. i + 1 \in (p + 1)..(n + 1) /\ (i + 1) - 1 = i /\ i + 1 \in 1..(n + 1)
        BY <1>1, <3>2 DEF n
      <4> QED BY <1>2, <4>1
    <3> QED BY <1>1, <3>1, <3>2 DEF n
  <2>3. \A j \in 1..(n + 1) : u[j] = t \/ \E i \in 1..n : u[j] = s[i]
    <3> TAKE j \in 1..(n + 1)
    <3>1. p \in 1..(n + 1)
      BY DEF n
    <3>2. CASE j < p
      BY <1>1, <1>2, <3>1, <3>2
    <3>3. CASE j > p
      <4>1. j - 1 \in 1..n /\ j \in (p + 1)..(n + 1)
        BY <1>1, <3>1, <3>3
      <4> QED BY <1>2, <4>1
    <3> QED BY <1>1, <1>2, <3>1, <3>2, <3>3
  <2>4. p \in 1..(n + 1) /\ u[p] = t
    BY <1>2 DEF n
  <2>5. \A x : x \in ToSet(u) <=> \E j \in 1..(n + 1) : u[j] = x
    BY <2>1 DEF ToSet
  <2>6. \A x : x \in ToSet(s) <=> \E i \in 1..n : s[i] = x
    BY <1>1 DEF ToSet
  <2> QED BY <2>2, <2>3, <2>4, <2>5, <2>6
<1> QED BY <1>2, <1>3, <1>4, <1>1 DEF IsList, u

LEMMA RemoveAtOf ==
  ASSUME NEW s, IsList(s), NEW p \in 1..Len(s)
  PROVE  IsList(RemoveAt(s, p)) /\ ToSet(RemoveAt(s, p)) = ToSet(s) \ {s[p]}
<1> DEFINE u == RemoveAt(s, p)
           n == Len(s)
<1>1. n \in Nat /\ s \in Seq(Timers) /\ DOMAIN s = 1..n
  BY DEF IsList
<1>2. /\ u \in Seq(Timers) /\ Len(u) = n - 1
      /\ \A i \in 1..(p - 1) : u[i] = s[i]
      /\ \A i \in p..(n - 1) : u[i] = s[i + 1]
  <2>1. /\ u \in Seq(Timers) /\ Len(u) = n - 1
        /\ \A i \in 1..(n - 1) : u[i] = IF i < p THEN s[i] ELSE s[i + 1]
    BY <1>1, RemoveAtIs
  <2>2. p \in 1..n
    OBVIOUS
  <2> HIDE DEF u, n
  <2> QED BY <1>1, <2>1, <2>2
<1> HIDE DEF u, n
<1>3. ASSUME NEW i \in 1..(n - 1), NEW j \in 1..(n - 1), u[i] = u[j] PROVE i = j
  <2>1. \A k, l \in 1..n : s[k] = s[l] => k = l
    BY DEF IsList, n
  <2>2. p \in 1..n
    BY DEF n
  <2>3. ASSUME NEW k \in 1..(n - 1)
        PROVE  \/ k < p /\ k \in 1..n /\ u[k] = s[k]
               \/ k >= p /\ k + 1 \in 1..n /\ u[k] = s[k + 1]
    BY <1>1, <1>2, <2>2
  <2> QED BY <1>1, <1>3, <2>1, <2>2, <2>3
<1>4. ToSet(u) = ToSet(s) \ {s[p]}
  <2>1. DOMAIN u = 1..(n - 1)
    BY <1>1, <1>2
  <2>2. \A i \in 1..n : i # p => \E j \in 1..(n - 1) : u[j] = s[i]
    <3> TAKE i \in 1..n
    <3>1. CASE i < p
      BY <1>1, <1>2, <3>1 DEF n
    <3>2. CASE i > p
      <4>1. i - 1 \in p..(n - 1) /\ (i - 1) + 1 = i /\ i - 1 \in 1..(n - 1)
        BY <1>1, <3>2 DEF n
      <4> QED BY <1>2, <4>1
    <3> QED BY <1>1, <3>1, <3>2 DEF n
  <2>3. \A j \in 1..(n - 1) : \E i \in 1..n : i # p /\ u[j] = s[i]
    BY <1>1, <1>2 DEF n
  <2>4. \A i \in 1..n : s[i] = s[p] => i = p
    BY DEF IsList, n
  <2>5. \A x : x \in ToSet(u) <=> \E j \in 1..(n - 1) : u[j] = x
    BY <2>1 DEF ToSet
  <2>6. \A x : x \in ToSet(s) <=> \E i \in 1..n : s[i] = x
    BY <1>1 DEF ToSet
  <2>7. ASSUME NEW x \in ToSet(u) PROVE x \in ToSet(s) \ {s[p]}
    BY <2>3, <2>4, <2>5, <2>6, <2>7
  <2>8. ASSUME NEW x \in ToSet(s), x # s[p] PROVE x \in ToSet(u)
    BY <2>2, <2>5, <2>6, <2>8
  <2> QED BY <2>7, <2>8
<1> QED BY <1>1, <1>2, <1>3, <1>4 DEF IsList, u

LEMMA LinkedOf ==
  ASSUME NEW s, IsList(s), NEW d, NEW t \in Timers, t \notin ToSet(s), NEW amount
  PROVE  /\ IsList(Linked(s, d, t, amount).order)
         /\ ToSet(Linked(s, d, t, amount).order) = ToSet(s) \cup {t}
<1> DEFINE S == {i \in 1..Len(s) : amount < Offset(s, d, i)} \cup {Len(s) + 1}
<1>1. S \in SUBSET (1..(Len(s) + 1)) /\ S \in SUBSET Nat /\ S # {}
  BY DEF IsList
<1>2. Place(s, d, amount) \in 1..(Len(s) + 1)
  BY <1>1, MinOf DEF Place
<1>3. Linked(s, d, t, amount).order = InsertAt(s, Place(s, d, amount), t)
  BY DEF Linked
<1> QED BY <1>2, <1>3, InsertAtOf

LEMMA UnlinkedOf ==
  ASSUME NEW s, IsList(s), NEW d, NEW t \in ToSet(s), NEW b
  PROVE  /\ IsList(Unlinked(s, d, t, b).order)
         /\ ToSet(Unlinked(s, d, t, b).order) = ToSet(s) \ {t}
<1> DEFINE S == {i \in 1..Len(s) : s[i] = t}
           p == SelectInSeq(s, LAMBDA u : u = t)
<1>1. S \in SUBSET Nat /\ S # {}
  BY DEF IsList, ToSet
<1>2. p \in S
  <2>1. p = Min(S)
    BY <1>1 DEF SelectInSeq
  <2> QED BY <1>1, <2>1, MinOf
<1>3. p \in 1..Len(s) /\ s[p] = t
  BY <1>2
<1>4. Unlinked(s, d, t, b).order = RemoveAt(s, p)
  BY DEF Unlinked
<1> HIDE DEF p
<1> QED BY <1>3, <1>4, RemoveAtOf

\* What a reschedule makes of the list: the same timers, each once.
LEMMA RegrabOf ==
  ASSUME NEW t \in ToSet(timers), IsList(timers), NEW d, Regrab(t, d)
  PROVE  IsList(timers') /\ ToSet(timers') = ToSet(timers)
<1> DEFINE out == Unlinked(timers, delta, t, FALSE)
           in  == Linked(out.order, out.delta, t, d + (now - last_tick))
<1>1. IsList(out.order) /\ ToSet(out.order) = ToSet(timers) \ {t}
  BY UnlinkedOf, ZenonT(60)
<1>2. t \in Timers
  BY DEF IsList, ToSet
<1>3. timers' = in.order
  BY DEF Regrab
<1> HIDE DEF out
<1>4. IsList(in.order) /\ ToSet(in.order) = ToSet(out.order) \cup {t}
  BY <1>1, <1>2, LinkedOf
<1> QED BY <1>1, <1>3, <1>4

LEMMA ListedIs ==
  ASSUME NEW s, NEW t
  PROVE  Listed(s, t) <=> t \in ToSet(s)
BY DEF Listed, Contains, ToSet

(***************************************************************************)
(* Where a timer is                                                        *)
(***************************************************************************)
\* The calls that a client can be in, by the step it is at.
GoodCalls ==
  {r \in Calls :
     /\ r.at = "idle" => r.op = "none"
     /\ r.at \in {"insert", "count", "counting", "recheck", "inserting"}
          => r.op = "add" /\ ~r.placed
     /\ r.at \in {"uncount", "uncounting"} => r.op = "add"
     /\ r.at \in {"change", "changing"} /\ r.op = "add" => ~r.placed
     /\ r.at = "wake" /\ r.op = "add" => r.placed
     /\ r.at \in {"found", "mark", "marking", "walk"} => r.op \notin {"none", "add"}
     /\ r.op # "none" => r.timer \in Timers}

\* The clients that hold the timer they add, and the four places of timers.
Holding(r) == r.op = "add" /\ ~r.placed
Hands    == {c \in Clients : Holding(call[c])}
InHand   == {call[c].timer : c \in Hands}
InSlot   == {add_timer} \ {None}
InThread == IF tpc \in Handling THEN {timer} ELSE {}

Apart(hand, listed, slot, thread, all) ==
  /\ all = hand \cup listed \cup slot \cup thread
  /\ hand \cap listed = {} /\ hand \cap slot = {} /\ hand \cap thread = {}
  /\ listed \cap slot = {} /\ listed \cap thread = {} /\ slot \cap thread = {}

Typed ==
  /\ call \in [Clients -> GoodCalls]
  /\ flags \in [Timers -> Flags] /\ word \in Flags
  /\ insert_while_away_count \in 0..(CountValues - 1)
  /\ IsList(timers)
  /\ pool \subseteq made /\ made \subseteq Timers

\* While a timer is called back it is the current one.
Current == tpc \in {"leaving", "callback", "stopping", "back"} => current_timer = timer

OneHand == \A c, d \in Hands : call[c].timer = call[d].timer => c = d

Where == Apart(InHand, ToSet(timers), InSlot, InThread, pool)

Inv == Current /\ (NoFault => Typed /\ OneHand /\ Where)

\* What the step of a client does to the timers in hand.
LEMMA CallIs ==
  ASSUME call \in [Clients -> GoodCalls], NEW c \in Clients, NEW r \in GoodCalls,
         call' = [call EXCEPT ![c] = r]
  PROVE  /\ call' \in [Clients -> GoodCalls]
         /\ call'[c] = r
         /\ \A d \in Clients \ {c} : call'[d] = call[d]
OBVIOUS

LEMMA HandKept ==
  ASSUME call \in [Clients -> GoodCalls], OneHand, NEW c \in Clients, NEW r \in GoodCalls,
         call' = [call EXCEPT ![c] = r],
         Holding(r) <=> Holding(call[c]), Holding(r) => r.timer = call[c].timer
  PROVE  InHand' = InHand /\ OneHand'
<1>1. call'[c] = r /\ \A d \in Clients \ {c} : call'[d] = call[d]
  BY CallIs
<1>2. Hands' = Hands
  BY <1>1 DEF Hands, Holding
<1>3. \A d \in Hands : call'[d].timer = call[d].timer
  BY <1>1 DEF Hands
<1> QED BY <1>2, <1>3 DEF InHand, OneHand

LEMMA HandLeft ==
  ASSUME call \in [Clients -> GoodCalls], OneHand, NEW c \in Clients, NEW r \in GoodCalls,
         call' = [call EXCEPT ![c] = r], Holding(call[c]), ~Holding(r)
  PROVE  /\ InHand' = InHand \ {call[c].timer} /\ OneHand'
         /\ call[c].timer \in InHand
<1>1. call'[c] = r /\ \A d \in Clients \ {c} : call'[d] = call[d]
  BY CallIs
<1>2. Hands' = Hands \ {c} /\ c \in Hands
  BY <1>1 DEF Hands, Holding
<1>3. \A d \in Hands \ {c} : call'[d].timer = call[d].timer /\ call[d].timer # call[c].timer
  BY <1>1, <1>2 DEF Hands, OneHand
<1> QED BY <1>2, <1>3 DEF InHand, OneHand

LEMMA HandTaken ==
  ASSUME call \in [Clients -> GoodCalls], OneHand, NEW c \in Clients, NEW r \in GoodCalls,
         call' = [call EXCEPT ![c] = r], ~Holding(call[c]), Holding(r), r.timer \notin InHand
  PROVE  InHand' = InHand \cup {r.timer} /\ OneHand'
<1>1. call'[c] = r /\ \A d \in Clients \ {c} : call'[d] = call[d]
  BY CallIs
<1>2. Hands' = Hands \cup {c} /\ c \notin Hands
  BY <1>1 DEF Hands, Holding
<1>3. \A d \in Hands : call'[d].timer = call[d].timer /\ call[d].timer # r.timer
  BY <1>1, <1>2 DEF Hands, InHand
<1> QED BY <1>1, <1>2, <1>3 DEF InHand, OneHand

\* Steps that move no timer.
Still == UNCHANGED <<timers, pool, made, add_timer, tpc, timer>>

LEMMA QuietCall ==
  ASSUME Typed, OneHand, Where, NEW c \in Clients, NEW r \in GoodCalls,
         call' = [call EXCEPT ![c] = r],
         Holding(r) <=> Holding(call[c]), Holding(r) => r.timer = call[c].timer,
         Still, flags' \in [Timers -> Flags], word' = word,
         insert_while_away_count' \in 0..(CountValues - 1)
  PROVE  Typed' /\ OneHand' /\ Where'
<1>1. InHand' = InHand /\ OneHand'
  BY HandKept DEF Typed
<1>2. Typed'
  BY CallIs DEF Typed, IsList, Still
<1>3. Where'
  BY <1>1 DEF Where, Apart, InSlot, InThread, Still
<1> QED BY <1>1, <1>2, <1>3

LEMMA GoodAt ==
  ASSUME NEW r \in GoodCalls, NEW step \in Steps,
         step = "idle" => r.op = "none",
         step \in {"insert", "count", "counting", "recheck", "inserting"}
           => r.op = "add" /\ ~r.placed,
         step \in {"uncount", "uncounting"} => r.op = "add",
         step \in {"change", "changing"} /\ r.op = "add" => ~r.placed,
         step = "wake" /\ r.op = "add" => r.placed,
         step \in {"found", "mark", "marking", "walk"} => r.op \notin {"none", "add"}
  PROVE  /\ [r EXCEPT !.at = step] \in GoodCalls
         /\ Holding([r EXCEPT !.at = step]) <=> Holding(r)
         /\ [r EXCEPT !.at = step].timer = r.timer
BY DEF GoodCalls, Calls, Holding

LEMMA GoodCount ==
  ASSUME NEW r \in GoodCalls, NEW n \in 0..(CountValues - 1)
  PROVE  LET q == [r EXCEPT !.count = n] IN
         /\ q \in GoodCalls
         /\ q.at = r.at /\ q.op = r.op /\ q.timer = r.timer /\ q.placed = r.placed
BY DEF GoodCalls, Calls

LEMMA GoodNoCall == NoCall \in GoodCalls /\ ~Holding(NoCall)
<1>1. 0 \in 0..(CountValues - 1)
  BY NumbersAssumption
<1> QED BY <1>1 DEF NoCall, GoodCalls, Calls, Steps, NoFlags, Flags, Holding

\* What stays of a call when one field is set.
Keeps(q, r, fields) ==
  /\ "at" \in fields => q.at = r.at
  /\ "op" \in fields => q.op = r.op
  /\ "timer" \in fields => q.timer = r.timer
  /\ "placed" \in fields => q.placed = r.placed

LEMMA FieldOf ==
  ASSUME NEW r \in Calls
  PROVE  /\ \A x \in Steps : LET q == [r EXCEPT !.at = x] IN
              q \in Calls /\ q.at = x /\ Keeps(q, r, {"op", "timer", "placed"})
         /\ \A x \in {"add", "remove", "reschedule", "change"} : LET q == [r EXCEPT !.op = x] IN
              q \in Calls /\ q.op = x /\ Keeps(q, r, {"at", "timer", "placed"})
         /\ \A x \in Timers : LET q == [r EXCEPT !.timer = x] IN
              q \in Calls /\ q.timer = x /\ Keeps(q, r, {"at", "op", "placed"})
         /\ \A x \in Delays : LET q == [r EXCEPT !.delay = x] IN
              q \in Calls /\ Keeps(q, r, {"at", "op", "timer", "placed"})
         /\ \A x \in Frequencies : LET q == [r EXCEPT !.frequency = x] IN
              q \in Calls /\ Keeps(q, r, {"at", "op", "timer", "placed"})
         /\ \A x \in Timers : LET q == [r EXCEPT !.head = x] IN
              q \in Calls /\ Keeps(q, r, {"at", "op", "timer", "placed"})
         /\ \A x \in Flags : LET q == [r EXCEPT !.word = x] IN
              q \in Calls /\ Keeps(q, r, {"at", "op", "timer", "placed"})
         /\ LET q == [r EXCEPT !.placed = TRUE] IN
              q \in Calls /\ q.placed /\ Keeps(q, r, {"at", "op", "timer"})
BY ZenonT(60) DEF Calls, Keeps

\* A call that begins.
Fresh(step, op, t) == [NoCall EXCEPT !.at = step, !.op = op, !.timer = t]

LEMMA GoodBegun ==
  ASSUME NEW step \in Steps, NEW op \in {"add", "remove", "reschedule", "change"},
         NEW t \in Timers,
         step # "idle",
         step \in {"insert", "count", "counting", "recheck", "inserting", "uncount", "uncounting"}
           => op = "add",
         step = "wake" => op # "add",
         step \in {"found", "mark", "marking", "walk"} => op # "add"
  PROVE  LET q == Fresh(step, op, t) IN
         /\ q \in GoodCalls /\ (Holding(q) <=> op = "add") /\ q.timer = t
         /\ q.at = step /\ q.op = op /\ ~q.placed
<1> DEFINE p == [NoCall EXCEPT !.at = step]
           o == [p EXCEPT !.op = op]
           q == [NoCall EXCEPT !.at = step, !.op = op, !.timer = t]
<1>1. NoCall \in Calls /\ ~NoCall.placed
  BY GoodNoCall DEF GoodCalls, NoCall
<1>2. q = [o EXCEPT !.timer = t]
  OBVIOUS
<1>3. p \in Calls /\ p.at = step /\ Keeps(p, NoCall, {"op", "timer", "placed"})
  BY <1>1, FieldOf
<1> HIDE DEF p
<1>4. o \in Calls /\ o.op = op /\ Keeps(o, p, {"at", "timer", "placed"})
  BY <1>3, FieldOf, ZenonT(60)
<1> HIDE DEF o, q
<1>5. q \in Calls /\ q.timer = t /\ Keeps(q, o, {"at", "op", "placed"})
  BY <1>2, <1>4, FieldOf
<1>6. q.at = step /\ q.op = op /\ ~q.placed
  BY <1>1, <1>3, <1>4, <1>5 DEF Keeps
<1>7. q \in GoodCalls /\ (Holding(q) <=> op = "add")
  BY <1>5, <1>6 DEF GoodCalls, Holding
<1> QED BY <1>5, <1>6, <1>7 DEF q, Fresh

\* Setting what Holding does not read.
LEMMA GoodField ==
  ASSUME NEW r \in GoodCalls
  PROVE  /\ \A x \in Delays : LET q == [r EXCEPT !.delay = x] IN
              q \in GoodCalls /\ (Holding(q) <=> Holding(r)) /\ q.timer = r.timer
         /\ \A x \in Frequencies : LET q == [r EXCEPT !.frequency = x] IN
              q \in GoodCalls /\ (Holding(q) <=> Holding(r)) /\ q.timer = r.timer
         /\ \A x \in Timers : LET q == [r EXCEPT !.head = x] IN
              q \in GoodCalls /\ (Holding(q) <=> Holding(r)) /\ q.timer = r.timer
         /\ \A x \in Flags : LET q == [r EXCEPT !.word = x] IN
              q \in GoodCalls /\ (Holding(q) <=> Holding(r)) /\ q.timer = r.timer
<1>1. r \in Calls
  BY DEF GoodCalls
<1>2. ASSUME NEW q \in Calls, Keeps(q, r, {"at", "op", "timer", "placed"})
      PROVE  q \in GoodCalls /\ (Holding(q) <=> Holding(r)) /\ q.timer = r.timer
  BY <1>2 DEF Keeps, GoodCalls, Holding
<1>3. \A x \in Delays : LET q == [r EXCEPT !.delay = x] IN
         q \in GoodCalls /\ (Holding(q) <=> Holding(r)) /\ q.timer = r.timer
  BY <1>1, <1>2, FieldOf
<1>4. \A x \in Frequencies : LET q == [r EXCEPT !.frequency = x] IN
         q \in GoodCalls /\ (Holding(q) <=> Holding(r)) /\ q.timer = r.timer
  BY <1>1, <1>2, FieldOf
<1>5. \A x \in Timers : LET q == [r EXCEPT !.head = x] IN
         q \in GoodCalls /\ (Holding(q) <=> Holding(r)) /\ q.timer = r.timer
  BY <1>1, <1>2, FieldOf
<1>6. \A x \in Flags : LET q == [r EXCEPT !.word = x] IN
         q \in GoodCalls /\ (Holding(q) <=> Holding(r)) /\ q.timer = r.timer
  BY <1>1, <1>2, FieldOf
<1> QED BY <1>3, <1>4, <1>5, <1>6

(***************************************************************************)
(* The steps of the clients                                                *)
(***************************************************************************)
LEMMA CallSteps ==
  ASSUME Typed, OneHand, Where, NEW c \in Clients,
         \/ CheckAway(c) \/ ReadCount(c) \/ CountUp(c) \/ CountDown(c) \/ Recheck(c)
         \/ EnterChange(c) \/ SpinForSlot(c) \/ Schedule(c) \/ Wake(c)
         \/ RemoveCall(c) \/ ChangeCall(c)
  PROVE  Typed' /\ OneHand' /\ Where'
<1> DEFINE r == call[c]
<1>1. /\ r \in GoodCalls /\ r \in Calls /\ flags \in [Timers -> Flags]
      /\ insert_while_away_count \in 0..(CountValues - 1) /\ CountValues \in Nat \ {0}
  BY NumbersAssumption DEF Typed, GoodCalls
<1>2. CASE CheckAway(c)
  <2> DEFINE step == IF away_in_timer THEN "count" ELSE "change"
  <2>1. /\ [r EXCEPT !.at = step] \in GoodCalls
        /\ Holding([r EXCEPT !.at = step]) <=> Holding(r)
        /\ [r EXCEPT !.at = step].timer = r.timer
    <3>1. r.op = "add" /\ ~r.placed /\ step \in Steps
          /\ step # "idle" /\ step # "wake" /\ step \notin {"found", "mark", "marking", "walk"}
      BY <1>1, <1>2 DEF CheckAway, GoodCalls, Steps
    <3> HIDE DEF step, r
    <3> QED BY <1>1, <3>1, GoodAt
  <2>2. call' = [call EXCEPT ![c] = [r EXCEPT !.at = step]]
    BY <1>2 DEF CheckAway, GoTo
  <2> QED BY <1>1, <1>2, <2>1, <2>2, QuietCall DEF CheckAway, Still, list, records, slots, place, away
<1>3. CASE ReadCount(c)
  <2> DEFINE step == IF r.at = "count" THEN "counting" ELSE "uncounting"
             q == [r EXCEPT !.count = insert_while_away_count, !.at = step]
  <2>1. q \in GoodCalls /\ (Holding(q) <=> Holding(r)) /\ q.timer = r.timer
    BY <1>1, <1>3, ZenonT(60) DEF ReadCount, GoodCalls, Calls, Steps, Holding
  <2>2. call' = [call EXCEPT ![c] = q]
    BY <1>3 DEF ReadCount
  <2> QED BY <1>1, <1>3, <2>1, <2>2, QuietCall DEF ReadCount, Still, list, records, slots, place, away
<1>4. CASE CountUp(c)
  <2> DEFINE q == [r EXCEPT !.at = "recheck", !.count = 0]
  <2>1. q \in GoodCalls /\ (Holding(q) <=> Holding(r)) /\ q.timer = r.timer
    <3> DEFINE p == [r EXCEPT !.at = "recheck"]
    <3>1. r.op = "add" /\ ~r.placed /\ "recheck" \in Steps /\ 0 \in 0..(CountValues - 1)
      BY <1>1, <1>4 DEF CountUp, GoodCalls, Steps
    <3>2. q = [p EXCEPT !.count = 0]
      OBVIOUS
    <3>3. p \in GoodCalls /\ (Holding(p) <=> Holding(r)) /\ p.timer = r.timer
      BY <1>1, <3>1, GoodAt
    <3> HIDE DEF p, q
    <3> QED BY <3>1, <3>2, <3>3, GoodCount DEF Holding
  <2>2. call' = [call EXCEPT ![c] = q]
    BY <1>4 DEF CountUp
  <2>3. insert_while_away_count' \in 0..(CountValues - 1)
    BY <1>1, <1>4 DEF CountUp, Calls
  <2> QED BY <1>1, <1>4, <2>1, <2>2, <2>3, QuietCall DEF CountUp, Still, list, records, slots, place
<1>5. CASE CountDown(c)
  <2>1. insert_while_away_count' \in 0..(CountValues - 1)
    BY <1>1, <1>5 DEF CountDown, Calls
  <2>2. CASE r.placed
    <3>1. call' = [call EXCEPT ![c] = NoCall] /\ ~Holding(r)
      BY <1>5, <2>2 DEF CountDown, Return, Holding
    <3> QED BY <1>1, <1>5, <2>1, <3>1, GoodNoCall, QuietCall
            DEF CountDown, Still, list, records, slots, place
  <2>3. CASE ~r.placed
    <3> DEFINE q == [r EXCEPT !.at = "change", !.count = 0]
    <3>1. q \in GoodCalls /\ (Holding(q) <=> Holding(r)) /\ q.timer = r.timer
      <4> DEFINE p == [r EXCEPT !.at = "change"]
      <4>1. r.op = "add" /\ ~r.placed /\ "change" \in Steps /\ 0 \in 0..(CountValues - 1)
        BY <1>1, <1>5, <2>3 DEF CountDown, GoodCalls, Steps
      <4>2. q = [p EXCEPT !.count = 0]
        OBVIOUS
      <4>3. p \in GoodCalls /\ (Holding(p) <=> Holding(r)) /\ p.timer = r.timer
        BY <1>1, <4>1, GoodAt
      <4> HIDE DEF p, q
      <4> QED BY <4>1, <4>2, <4>3, GoodCount DEF Holding
    <3>2. call' = [call EXCEPT ![c] = q]
      BY <1>5, <2>3 DEF CountDown
    <3> QED BY <1>1, <1>5, <2>1, <3>1, <3>2, QuietCall DEF CountDown, Still, list, records, slots, place
  <2> QED BY <2>2, <2>3
<1>6. CASE Recheck(c)
  <2> DEFINE step == IF away_in_timer THEN "inserting" ELSE "uncount"
  <2>1. /\ [r EXCEPT !.at = step] \in GoodCalls
        /\ Holding([r EXCEPT !.at = step]) <=> Holding(r)
        /\ [r EXCEPT !.at = step].timer = r.timer
    <3>1. r.op = "add" /\ ~r.placed /\ step \in Steps
          /\ step # "idle" /\ step # "wake" /\ step \notin {"found", "mark", "marking", "walk"}
      BY <1>1, <1>6 DEF Recheck, GoodCalls, Steps
    <3> HIDE DEF step, r
    <3> QED BY <1>1, <3>1, GoodAt
  <2>2. call' = [call EXCEPT ![c] = [r EXCEPT !.at = step]]
    BY <1>6 DEF Recheck, GoTo
  <2> QED BY <1>1, <1>6, <2>1, <2>2, QuietCall DEF Recheck, Still, list, records, slots, place, away
<1>7. CASE EnterChange(c)
  <2>1. /\ [r EXCEPT !.at = "changing"] \in GoodCalls
        /\ Holding([r EXCEPT !.at = "changing"]) <=> Holding(r)
        /\ [r EXCEPT !.at = "changing"].timer = r.timer
    BY <1>1, <1>7, GoodAt DEF EnterChange, GoodCalls, Steps
  <2>2. call' = [call EXCEPT ![c] = [r EXCEPT !.at = "changing"]]
    BY <1>7 DEF EnterChange, GoTo
  <2> QED BY <1>1, <1>7, <2>1, <2>2, QuietCall DEF EnterChange, Still, list, records, place, away
<1>8. CASE SpinForSlot(c)
  <2>1. call' = [call EXCEPT ![c] = r]
    BY <1>8 DEF SpinForSlot, Typed
  <2> QED BY <1>1, <1>8, <2>1, QuietCall DEF SpinForSlot, Still, list, records, slots, place, away
<1>9. CASE Schedule(c)
  <2>1. /\ [r EXCEPT !.at = "wake"] \in GoodCalls
        /\ Holding([r EXCEPT !.at = "wake"]) <=> Holding(r)
        /\ [r EXCEPT !.at = "wake"].timer = r.timer
    BY <1>1, <1>9, GoodAt DEF Schedule, GoodCalls, Steps
  <2>2. call' = [call EXCEPT ![c] = [r EXCEPT !.at = "wake"]]
    BY <1>9 DEF Schedule, GoTo
  <2> QED BY <1>1, <1>9, <2>1, <2>2, QuietCall DEF Schedule, Still, list, records, place, away
<1>10. CASE Wake(c)
  <2>1. call' = [call EXCEPT ![c] = NoCall] /\ ~Holding(r)
    BY <1>1, <1>10 DEF Wake, Return, Holding, GoodCalls
  <2> QED BY <1>1, <1>10, <2>1, GoodNoCall, QuietCall DEF Wake, Still, list, records, slots, place, away
<1>11. CASE RemoveCall(c)
  <2>1. PICK t \in Removable :
          call' = [call EXCEPT ![c] = [NoCall EXCEPT !.at = "change", !.op = "remove", !.timer = t]]
    BY <1>11 DEF RemoveCall
  <2>2. t \in Timers
    BY DEF Removable, Known, Typed
  <2> DEFINE q == Fresh("change", "remove", t)
  <2>3. q \in GoodCalls /\ ~Holding(q)
    <3>1. "change" \in Steps /\ "remove" \in {"add", "remove", "reschedule", "change"}
      BY DEF Steps
    <3>2. q \in GoodCalls /\ (Holding(q) <=> "remove" = "add")
      BY <2>2, <3>1, GoodBegun
    <3> QED BY <3>2
  <2>4. ~Holding(r)
    BY <1>1, <1>11 DEF RemoveCall, GoodCalls, Holding
  <2> HIDE DEF q
  <2> QED BY <1>1, <1>11, <2>1, <2>3, <2>4, QuietCall
          DEF RemoveCall, Still, list, records, slots, place, away, q, Fresh
<1>12. CASE ChangeCall(c)
  <2>1. PICK t \in Known, d \in Delays, f \in Frequencies :
          call' = [call EXCEPT ![c] = [NoCall EXCEPT !.at = "walk", !.op = "change", !.timer = t,
                                         !.delay = d, !.frequency = f, !.head = timers[1]]]
    BY <1>12 DEF ChangeCall
  <2>2. t \in Timers /\ timers[1] \in Timers
    <3>1. timers \in Seq(Timers) /\ timers # <<>>
      BY <1>12 DEF Typed, IsList, ChangeCall
    <3>2. timers[1] \in Timers
      BY <3>1
    <3> QED BY <3>2 DEF Known, Typed
  <2> DEFINE q == [NoCall EXCEPT !.at = "walk", !.op = "change", !.timer = t,
                                 !.delay = d, !.frequency = f, !.head = timers[1]]
  <2>3. q \in GoodCalls /\ ~Holding(q)
    <3> DEFINE q1 == Fresh("walk", "change", t)
               q2 == [q1 EXCEPT !.delay = d]
               q3 == [q2 EXCEPT !.frequency = f]
    <3>1. q = [q3 EXCEPT !.head = timers[1]]
      BY DEF Fresh
    <3>2. q1 \in GoodCalls /\ ~Holding(q1)
      <4>1. "walk" \in Steps /\ "change" \in {"add", "remove", "reschedule", "change"}
        BY DEF Steps
      <4>2. q1 \in GoodCalls /\ (Holding(q1) <=> "change" = "add")
        BY <2>2, <4>1, GoodBegun
      <4> QED BY <4>2
    <3> HIDE DEF q1
    <3>3. q2 \in GoodCalls /\ ~Holding(q2)
      BY <3>2, GoodField
    <3> HIDE DEF q2
    <3>4. q3 \in GoodCalls /\ ~Holding(q3)
      BY <3>3, GoodField
    <3> HIDE DEF q3, q
    <3> QED BY <2>2, <3>1, <3>4, GoodField
  <2>4. ~Holding(r)
    BY <1>1, <1>12 DEF ChangeCall, GoodCalls, Holding
  <2> HIDE DEF q
  <2> QED BY <1>1, <1>12, <2>1, <2>3, <2>4, QuietCall
          DEF ChangeCall, Still, list, records, slots, place, away, q
<1> QED BY <1>2, <1>3, <1>4, <1>5, <1>6, <1>7, <1>8, <1>9, <1>10, <1>11, <1>12

LEMMA RescheduleSteps ==
  ASSUME Typed, OneHand, Where, NEW c \in Clients,
         \/ RescheduleCall(c) \/ FindCurrent(c) \/ Mark(c) \/ MarkRescheduled(c) \/ Walk(c)
  PROVE  Typed' /\ OneHand' /\ Where'
<1> DEFINE r == call[c]
<1>1. /\ r \in GoodCalls /\ r \in Calls /\ flags \in [Timers -> Flags] /\ word \in Flags
      /\ insert_while_away_count \in 0..(CountValues - 1)
  BY DEF Typed, GoodCalls
<1>2. ASSUME NEW q \in GoodCalls, call' = [call EXCEPT ![c] = q], ~Holding(q), ~Holding(r),
             UNCHANGED <<pool, made, add_timer, tpc, timer, flags, word, insert_while_away_count>>,
             IsList(timers'), ToSet(timers') = ToSet(timers)
      PROVE  Typed' /\ OneHand' /\ Where'
  <2>1. InHand' = InHand /\ OneHand'
    BY <1>1, <1>2, HandKept DEF Typed
  <2>2. Typed'
    BY <1>2, CallIs DEF Typed, IsList
  <2>3. Where'
    BY <1>2, <2>1 DEF Where, Apart, InSlot, InThread
  <2> QED BY <2>1, <2>2, <2>3
<1>3. ~Holding(r) /\ call = [call EXCEPT ![c] = r]
  BY <1>1 DEF RescheduleCall, FindCurrent, Mark, MarkRescheduled, Walk, GoodCalls, Holding, Typed
<1>4. NoCall \in GoodCalls /\ ~Holding(NoCall) /\ IsList(timers)
  BY GoodNoCall DEF Typed
<1>5. CASE RescheduleCall(c)
  <2>1. PICK t \in Known, d \in Delays :
          IF Listed(timers, t)
          THEN Regrab(t, d) /\ UNCHANGED <<csGrab, call>>
          ELSE /\ call' = [call EXCEPT ![c] = [NoCall EXCEPT !.at = "found", !.op = "reschedule",
                                                           !.timer = t, !.delay = d]]
               /\ UNCHANGED <<timers, delta, due, event>>
    BY <1>5 DEF RescheduleCall
  <2>2. UNCHANGED <<pool, made, add_timer, tpc, timer, flags, word, insert_while_away_count>>
    BY <1>5 DEF RescheduleCall, records, slots, place, away
  <2>3. CASE Listed(timers, t)
    <3>1. IsList(timers') /\ ToSet(timers') = ToSet(timers)
      BY <1>4, <2>1, <2>3, ListedIs, RegrabOf
    <3>2. call' = [call EXCEPT ![c] = r]
      BY <1>3, <2>1, <2>3
    <3> QED BY <1>1, <1>2, <1>3, <2>2, <3>1, <3>2
  <2>4. CASE ~Listed(timers, t)
    <3> DEFINE p == Fresh("found", "reschedule", t)
               q == [NoCall EXCEPT !.at = "found", !.op = "reschedule", !.timer = t, !.delay = d]
    <3>1. q = [p EXCEPT !.delay = d]
      BY DEF Fresh
    <3>2. /\ "found" \in Steps /\ "reschedule" \in {"add", "remove", "reschedule", "change"}
          /\ t \in Timers
      BY DEF Steps, Known, Typed
    <3>3. p \in GoodCalls /\ (Holding(p) <=> "reschedule" = "add")
      BY <3>2, GoodBegun
    <3> HIDE DEF p
    <3>4. q \in GoodCalls /\ ~Holding(q)
      BY <3>1, <3>3, GoodField
    <3>5. call' = [call EXCEPT ![c] = q] /\ timers' = timers
      BY <2>1, <2>4
    <3> HIDE DEF q
    <3> QED BY <1>2, <1>3, <1>4, <2>2, <3>4, <3>5
  <2> QED BY <2>3, <2>4
<1>6. CASE FindCurrent(c)
  <2>1. /\ UNCHANGED <<pool, made, add_timer, tpc, timer, flags, word, insert_while_away_count>>
        /\ timers' = timers
    BY <1>6 DEF FindCurrent, list, records, slots, place, away
  <2>2. CASE current_timer = r.timer
    <3>1. "mark" \in Steps /\ r.op \notin {"none", "add"} /\ "mark" \in {"found", "mark", "marking", "walk"}
      BY <1>1, <1>6 DEF Steps, GoodCalls, FindCurrent
    <3>2. [r EXCEPT !.at = "mark"] \in GoodCalls /\ ~Holding([r EXCEPT !.at = "mark"])
      BY <1>1, <1>3, <3>1, GoodAt
    <3>3. call' = [call EXCEPT ![c] = [r EXCEPT !.at = "mark"]]
      BY <1>6, <2>2 DEF FindCurrent, GoTo
    <3> QED BY <1>2, <1>3, <1>4, <2>1, <3>2, <3>3
  <2>3. CASE current_timer # r.timer
    <3>1. call' = [call EXCEPT ![c] = NoCall]
      BY <1>6, <2>3 DEF FindCurrent, Return
    <3> QED BY <1>2, <1>3, <1>4, <2>1, <3>1
  <2> QED BY <2>2, <2>3
<1>7. CASE Mark(c)
  <2>1. /\ UNCHANGED <<pool, made, add_timer, tpc, timer, flags, word, insert_while_away_count>>
        /\ timers' = timers
    BY <1>7 DEF Mark, records, slots, place, away
  <2>2. CASE away_in_timer /\ CurrentTimerID = r.timer
    <3> DEFINE p == [r EXCEPT !.at = "marking"]
               q == [r EXCEPT !.at = "marking", !.word = flags[r.timer]]
    <3>1. /\ "marking" \in Steps /\ r.op \notin {"none", "add"} /\ "marking" \in {"found", "mark", "marking", "walk"}
      BY <1>1, <1>7 DEF Steps, GoodCalls, Mark
    <3>2. p \in GoodCalls /\ ~Holding(p)
      BY <1>1, <1>3, <3>1, GoodAt
    <3>3. call' = [call EXCEPT ![c] = q]
      BY <1>7, <2>2 DEF Mark
    <3>4. q = [p EXCEPT !.word = flags[r.timer]]
      OBVIOUS
    <3>5. r.timer \in Timers
      BY <1>1, <1>7 DEF Mark, GoodCalls
    <3> HIDE DEF p
    <3>6. q \in GoodCalls /\ ~Holding(q)
      BY <1>1, <3>2, <3>4, <3>5, GoodField
    <3> HIDE DEF q
    <3> QED BY <1>2, <1>3, <1>4, <2>1, <3>3, <3>6
  <2>3. CASE ~(away_in_timer /\ CurrentTimerID = r.timer)
    <3>1. call' = [call EXCEPT ![c] = NoCall]
      BY <1>7, <2>3 DEF Mark, Return
    <3> QED BY <1>2, <1>3, <1>4, <2>1, <3>1
  <2> QED BY <2>2, <2>3
<1>8. CASE MarkRescheduled(c)
  <2>1. /\ UNCHANGED <<pool, made, add_timer, tpc, timer, word, insert_while_away_count>>
        /\ timers' = timers
    BY <1>8 DEF MarkRescheduled, slots, place, away
  <2>2. call' = [call EXCEPT ![c] = NoCall]
    BY <1>8 DEF MarkRescheduled, Return
  <2>3. flags' \in [Timers -> Flags]
    <3>1. [r.word EXCEPT !.rescheduled = TRUE] \in Flags
      BY <1>1 DEF Calls, Flags
    <3> QED BY <1>1, <1>8, <3>1 DEF MarkRescheduled
  <2> QED BY <1>1, <1>3, <1>4, <2>1, <2>2, <2>3, QuietCall DEF Still
<1>9. CASE Walk(c)
  <2> DEFINE t == r.timer
  <2>1. UNCHANGED <<pool, made, add_timer, tpc, timer, flags, word, insert_while_away_count>>
    BY <1>9 DEF Walk, slots, place, away
  <2>2. IsList(timers') /\ ToSet(timers') = ToSet(timers)
    <3>1. CASE t \in From(r.head) /\ Listed(timers, t)
      BY <1>4, <1>9, <3>1, ListedIs, RegrabOf DEF Walk
    <3>2. CASE ~(t \in From(r.head) /\ Listed(timers, t))
      BY <1>4, <1>9, <3>2 DEF Walk
    <3> QED BY <3>1, <3>2
  <2>3. CASE t \in From(r.head) /\ ~Listed(timers, t)
    <3>1. "mark" \in Steps /\ r.op \notin {"none", "add"} /\ "mark" \in {"found", "mark", "marking", "walk"}
      BY <1>1, <1>9 DEF Steps, GoodCalls, Walk
    <3>2. [r EXCEPT !.at = "mark"] \in GoodCalls /\ ~Holding([r EXCEPT !.at = "mark"])
      BY <1>1, <1>3, <3>1, GoodAt
    <3>3. call' = [call EXCEPT ![c] = [r EXCEPT !.at = "mark"]]
      BY <1>9, <2>3 DEF Walk, GoTo
    <3> QED BY <1>2, <1>3, <2>1, <2>2, <3>2, <3>3
  <2>4. CASE ~(t \in From(r.head) /\ ~Listed(timers, t))
    <3>1. call' = [call EXCEPT ![c] = NoCall]
      BY <1>9, <2>4 DEF Walk, Return
    <3> QED BY <1>2, <1>3, <1>4, <2>1, <2>2, <3>1
  <2> QED BY <2>3, <2>4
<1> QED BY <1>5, <1>6, <1>7, <1>8, <1>9

LEMMA PlacingSteps ==
  ASSUME Typed, OneHand, Where, NEW c \in Clients,
         AddCall(c) \/ InsertAway(c) \/ Put(c)
  PROVE  Typed' /\ OneHand' /\ Where'
<1> DEFINE r == call[c]
<1>1. /\ r \in GoodCalls /\ r \in Calls /\ flags \in [Timers -> Flags] /\ word \in Flags
      /\ insert_while_away_count \in 0..(CountValues - 1)
      /\ call \in [Clients -> GoodCalls] /\ IsList(timers)
      /\ pool \subseteq made /\ made \subseteq Timers
  BY DEF Typed, GoodCalls
<1>2. CASE AddCall(c)
  <2>1. PICK t \in Timers, d \in Delays, f \in Frequencies :
          /\ Make(t, d, f)
          /\ call' = [call EXCEPT ![c] = [NoCall EXCEPT !.at = "insert", !.op = "add", !.timer = t]]
    BY <1>2 DEF AddCall
  <2> DEFINE q == Fresh("insert", "add", t)
  <2>2. q \in GoodCalls /\ Holding(q) /\ q.timer = t
    <3>1. "insert" \in Steps /\ "add" \in {"add", "remove", "reschedule", "change"}
      BY DEF Steps
    <3>2. q \in GoodCalls /\ q.timer = t /\ q.op = "add" /\ ~q.placed
      BY <3>1, GoodBegun
    <3> HIDE DEF q
    <3> QED BY <3>2 DEF Holding
  <2>3. UNCHANGED <<timers, add_timer, tpc, timer, word, insert_while_away_count>>
    BY <1>2 DEF AddCall, slots, place, away
  <2>4. t \notin made /\ made' = made \cup {t} /\ pool' = pool \cup {t}
        /\ flags' = [flags EXCEPT ![t] = NoFlags]
    BY <2>1 DEF Make
  <2>5. ~Holding(r)
    BY <1>1, <1>2 DEF AddCall, GoodCalls, Holding
  <2>6. t \notin pool /\ t \notin InHand
    BY <1>1, <2>4 DEF Where, Apart
  <2>7. call' = [call EXCEPT ![c] = q]
    BY <2>1 DEF Fresh
  <2> HIDE DEF q
  <2>8. InHand' = InHand \cup {t} /\ OneHand'
    BY <1>1, <2>2, <2>5, <2>6, <2>7, HandTaken
  <2>9. Typed'
    BY <1>1, <2>2, <2>3, <2>4, <2>7, CallIs DEF Typed, IsList, NoFlags, Flags
  <2>10. Where'
    <3>1. InThread' = InThread /\ InSlot' = InSlot /\ ToSet(timers') = ToSet(timers)
      BY <2>3 DEF InThread, InSlot
    <3> QED BY <2>4, <2>6, <2>8, <3>1 DEF Where, Apart
  <2> QED BY <2>8, <2>9, <2>10
<1>3. CASE InsertAway(c)
  <2> DEFINE t == r.timer
             p == [r EXCEPT !.at = "uncount"]
             q == [r EXCEPT !.at = "uncount", !.placed = TRUE]
  <2>1. Holding(r) /\ t \in Timers /\ r.op = "add"
    BY <1>1, <1>3 DEF InsertAway, GoodCalls, Holding
  <2>2. q \in GoodCalls /\ ~Holding(q)
    <3>1. p \in Calls /\ p.at = "uncount" /\ Keeps(p, r, {"op", "timer", "placed"})
      BY <1>1, FieldOf DEF Steps
    <3>2. q = [p EXCEPT !.placed = TRUE]
      OBVIOUS
    <3> HIDE DEF p
    <3>3. q \in Calls /\ q.placed /\ Keeps(q, p, {"at", "op", "timer"})
      BY <3>1, <3>2, FieldOf
    <3> HIDE DEF q
    <3> QED BY <2>1, <3>1, <3>3 DEF Keeps, GoodCalls, Holding
  <2>3. call' = [call EXCEPT ![c] = q]
    BY <1>3 DEF InsertAway
  <2> HIDE DEF q
  <2>4. InHand' = InHand \ {t} /\ OneHand' /\ t \in InHand
    BY <1>1, <2>1, <2>2, <2>3, HandLeft
  <2>5. t \notin ToSet(timers)
    BY <2>4 DEF Where, Apart
  <2>6. IsList(timers') /\ ToSet(timers') = ToSet(timers) \cup {t}
    BY <1>1, <1>3, <2>1, <2>5, LinkedOf DEF InsertAway, DoInsertTimer
  <2>7. UNCHANGED <<pool, made, flags, add_timer, tpc, timer, word, insert_while_away_count>>
    BY <1>3 DEF InsertAway, records, slots, place, away
  <2>8. Typed'
    BY <1>1, <2>2, <2>3, <2>6, <2>7, CallIs DEF Typed
  <2>9. Where'
    <3>1. InThread' = InThread /\ InSlot' = InSlot
      BY <2>7 DEF InThread, InSlot
    <3> QED BY <2>4, <2>6, <2>7, <3>1 DEF Where, Apart
  <2> QED BY <2>4, <2>8, <2>9
<1>4. CASE Put(c)
  <2> DEFINE t == r.timer
             p == [r EXCEPT !.at = "wake"]
             q == [r EXCEPT !.at = "wake", !.placed = TRUE]
  <2>1. Holding(r) /\ t \in Timers /\ r.op = "add"
    BY <1>1, <1>4 DEF Put, GoodCalls, Holding
  <2>2. q \in GoodCalls /\ ~Holding(q)
    <3>1. p \in Calls /\ p.at = "wake" /\ Keeps(p, r, {"op", "timer", "placed"})
      BY <1>1, FieldOf DEF Steps
    <3>2. q = [p EXCEPT !.placed = TRUE]
      OBVIOUS
    <3> HIDE DEF p
    <3>3. q \in Calls /\ q.placed /\ Keeps(q, p, {"at", "op", "timer"})
      BY <3>1, <3>2, FieldOf
    <3> HIDE DEF q
    <3> QED BY <2>1, <3>1, <3>3 DEF Keeps, GoodCalls, Holding
  <2>3. call' = [call EXCEPT ![c] = q]
    BY <1>4 DEF Put
  <2> HIDE DEF q
  <2>4. InHand' = InHand \ {t} /\ OneHand' /\ t \in InHand
    BY <1>1, <2>1, <2>2, <2>3, HandLeft
  <2>5. UNCHANGED <<timers, pool, made, flags, tpc, timer, word, insert_while_away_count>>
    BY <1>4 DEF Put, list, records, place, away
  <2>6. InSlot = {} /\ InSlot' = {t}
    BY <1>4, <2>1, SetsAssumption DEF Put, InSlot
  <2>7. Typed'
    BY <1>1, <2>2, <2>3, <2>5, CallIs DEF Typed, IsList
  <2>8. Where'
    <3>1. InThread' = InThread /\ ToSet(timers') = ToSet(timers)
      BY <2>5 DEF InThread
    <3> QED BY <2>4, <2>5, <2>6, <3>1 DEF Where, Apart
  <2> QED BY <2>4, <2>7, <2>8
<1> QED BY <1>2, <1>3, <1>4

(***************************************************************************)
(* The steps of the timer thread and of callbacks                          *)
(***************************************************************************)
LEMMA QuietThread ==
  ASSUME Typed, OneHand, Where,
         UNCHANGED <<call, timers, pool, made, add_timer, insert_while_away_count>>,
         InThread' = InThread, flags' \in [Timers -> Flags], word' \in Flags
  PROVE  Typed' /\ OneHand' /\ Where'
<1>1. InHand' = InHand /\ OneHand' /\ InSlot' = InSlot
  BY DEF InHand, OneHand, Hands, InSlot
<1> QED BY <1>1 DEF Typed, IsList, Where, Apart

\* A step that changes places other than a hand.
LEMMA Moved ==
  ASSUME Typed, OneHand, UNCHANGED <<call, insert_while_away_count>>,
         flags' \in [Timers -> Flags], word' \in Flags, IsList(timers'),
         pool' \subseteq made', made' \subseteq Timers,
         Apart(InHand, ToSet(timers'), InSlot', InThread', pool')
  PROVE  Typed' /\ OneHand' /\ Where'
<1>1. InHand' = InHand /\ OneHand'
  BY DEF InHand, OneHand, Hands
<1> QED BY <1>1 DEF Typed, Where

LEMMA Handled ==
  ASSUME Typed, Where, tpc \in Handling
  PROVE  /\ timer \in Timers /\ timer \in pool /\ InThread = {timer}
         /\ timer \notin ToSet(timers) /\ timer \notin InSlot /\ timer \notin InHand
BY DEF Typed, Where, Apart, InThread

LEMMA QuietSteps ==
  ASSUME Typed, OneHand, Where, Current,
         \/ Top \/ WakeForever \/ TakeDel \/ ReadTick \/ NoneDue \/ AdvanceTick \/ SetCurrent
         \/ Depart \/ CallbackStop \/ MarkRemoved \/ CallbackReturn \/ Drain \/ Again \/ Pause
         \/ WakeUp \/ Tick
  PROVE  Typed' /\ OneHand' /\ Where'
<1>1. UNCHANGED <<call, timers, pool, made, add_timer, insert_while_away_count>>
  BY DEF Top, WakeForever, TakeDel, ReadTick, NoneDue, AdvanceTick, SetCurrent, Depart,
         CallbackStop, MarkRemoved, CallbackReturn, Drain, Again, Pause, WakeUp, Tick,
         list, records, slots, away
<1>2. InThread' = InThread
  BY DEF Top, WakeForever, TakeDel, ReadTick, NoneDue, AdvanceTick, SetCurrent, Depart,
         CallbackStop, MarkRemoved, CallbackReturn, Drain, Again, Pause, WakeUp, Tick,
         place, InThread, Handling
<1>3. flags \in [Timers -> Flags] /\ word \in Flags
  BY DEF Typed
<1>4. flags' \in [Timers -> Flags] /\ word' \in Flags
  <2>1. CASE SetCurrent
    <3>1. ASSUME NEW t \in Timers PROVE [flags[t] EXCEPT !.rescheduled = FALSE] \in Flags
      <4>1. flags[t] \in Flags
        BY <1>3
      <4> QED BY <4>1 DEF Flags
    <3>2. timer \in Timers
      BY <2>1, Handled DEF SetCurrent, Handling
    <3>3. flags' = [flags EXCEPT ![timer] = [flags[timer] EXCEPT !.rescheduled = FALSE]]
      BY <2>1 DEF SetCurrent
    <3> QED BY <1>3, <2>1, <3>1, <3>2, <3>3 DEF SetCurrent
  <2>2. CASE Again
    <3>1. ASSUME NEW t \in Timers PROVE [flags[t] EXCEPT !.rescheduled = FALSE] \in Flags
      <4>1. flags[t] \in Flags
        BY <1>3
      <4> QED BY <4>1 DEF Flags
    <3>2. timer \in Timers
      BY <2>2, Handled DEF Again, Handling
    <3>3. flags' = [flags EXCEPT ![timer] = [flags[timer] EXCEPT !.rescheduled = FALSE]]
      BY <2>2 DEF Again
    <3> QED BY <1>3, <2>2, <3>1, <3>2, <3>3 DEF Again
  <2>3. CASE CallbackStop
    <3>1. current_timer \in Timers
      BY <2>3, Handled DEF CallbackStop, Handling, Current
    <3> QED BY <1>3, <2>3, <3>1 DEF CallbackStop, records
  <2>4. CASE MarkRemoved
    <3>1. [word EXCEPT !.removed = TRUE] \in Flags /\ NoFlags \in Flags
      BY <1>3 DEF Flags, NoFlags
    <3> QED BY <1>3, <2>4, <3>1 DEF MarkRemoved
  <2>5. CASE \/ Top \/ WakeForever \/ TakeDel \/ ReadTick \/ NoneDue \/ AdvanceTick \/ Depart
             \/ CallbackReturn \/ Drain \/ Pause \/ WakeUp \/ Tick
    BY <1>3, <2>5
       DEF Top, WakeForever, TakeDel, ReadTick, NoneDue, AdvanceTick, Depart, CallbackReturn,
           Drain, Pause, WakeUp, Tick, records, place
  <2> QED BY <2>1, <2>2, <2>3, <2>4, <2>5
<1> QED BY <1>1, <1>2, <1>4, QuietThread

LEMMA ThreadSteps ==
  ASSUME Typed, OneHand, Where, ~fault',
         \/ TakeAdd \/ InsertAdded \/ RemoveScheduled \/ GrabDue \/ Free \/ PutBack
  PROVE  Typed' /\ OneHand' /\ Where'
<1>1. /\ flags \in [Timers -> Flags] /\ word \in Flags /\ IsList(timers)
      /\ pool \subseteq made /\ made \subseteq Timers
  BY DEF Typed
<1>2. /\ UNCHANGED <<call, insert_while_away_count, made, flags, word>>
  BY DEF TakeAdd, InsertAdded, RemoveScheduled, GrabDue, Free, PutBack, away, records, place
<1>3. CASE TakeAdd
  <2>1. UNCHANGED <<timers, pool>> /\ InThread = {} /\ InSlot' = {} /\ InThread' = InSlot
    BY <1>3 DEF TakeAdd, list, records, InThread, InSlot, Handling
  <2>2. Apart(InHand, ToSet(timers'), InSlot', InThread', pool')
    BY <2>1 DEF Where, Apart
  <2> QED BY <1>1, <1>2, <2>1, <2>2, Moved
<1>4. CASE InsertAdded
  <2>1. tpc \in Handling
    BY <1>4 DEF InsertAdded, Handling
  <2>2. IsList(timers') /\ ToSet(timers') = ToSet(timers) \cup {timer}
    BY <1>1, <1>4, <2>1, Handled, LinkedOf DEF InsertAdded, DoInsertTimer
  <2>3. pool' = pool /\ InSlot' = InSlot /\ InThread' = {}
    BY <1>4 DEF InsertAdded, records, slots, InThread, InSlot, Handling
  <2>4. Apart(InHand, ToSet(timers'), InSlot', InThread', pool')
    BY <2>1, <2>2, <2>3, Handled DEF Where, Apart
  <2> QED BY <1>1, <1>2, <2>2, <2>3, <2>4, Moved
<1>5. CASE RemoveScheduled
  <2>1. InSlot' = InSlot /\ InThread' = {} /\ InThread = {}
    BY <1>5 DEF RemoveScheduled, slots, InThread, InSlot, Handling
  <2>2. /\ pool' = pool \ {timer} /\ (timer \in pool => timer \in ToSet(timers))
        /\ IsList(timers') /\ ToSet(timers') = ToSet(timers) \ {timer}
    <3>1. CASE Listed(timers, timer)
      <4> DEFINE out == Unlinked(timers, delta, timer, FALSE)
      <4>1. timer \in ToSet(timers) /\ timers' = out.order /\ pool' = pool \ {timer}
        BY <1>5, <3>1, ListedIs DEF RemoveScheduled, DoRemoveTimer
      <4>2. IsList(out.order) /\ ToSet(out.order) = ToSet(timers) \ {timer}
        BY <1>1, <4>1, UnlinkedOf, ZenonT(60)
      <4> HIDE DEF out
      <4> QED BY <4>1, <4>2
    <3>2. CASE ~Listed(timers, timer)
      BY <1>1, <1>5, <3>2, ListedIs DEF RemoveScheduled, DoRemoveTimer
    <3> QED BY <3>1, <3>2
  <2>3. Apart(InHand, ToSet(timers'), InSlot', InThread', pool')
    BY <2>1, <2>2 DEF Where, Apart
  <2> QED BY <1>1, <1>2, <2>2, <2>3, Moved
<1>6. CASE GrabDue
  <2> DEFINE t == timers[1]
  <2>1. t \in ToSet(timers)
    BY <1>1, <1>6 DEF GrabDue, Due, IsList, ToSet
  <2>2. IsList(timers') /\ ToSet(timers') = ToSet(timers) \ {t}
    <3>1. timers' = Unlinked(timers, delta, t, TRUE).order
      BY <1>6 DEF GrabDue
    <3>2. IsList(timers)
      BY <1>1
    <3> HIDE DEF t
    <3>3. /\ IsList(Unlinked(timers, delta, t, TRUE).order)
          /\ ToSet(Unlinked(timers, delta, t, TRUE).order) = ToSet(timers) \ {t}
      BY <2>1, <3>2, UnlinkedOf, ZenonT(60)
    <3> QED BY <3>1, <3>3
  <2>3. pool' = pool /\ InSlot' = InSlot /\ InThread = {} /\ InThread' = {t}
    BY <1>6 DEF GrabDue, records, slots, InThread, InSlot, Handling
  <2>4. Apart(InHand, ToSet(timers'), InSlot', InThread', pool')
    BY <2>1, <2>2, <2>3 DEF Where, Apart
  <2> QED BY <1>1, <1>2, <2>2, <2>3, <2>4, Moved
<1>7. CASE Free
  <2>1. tpc \in Handling
    BY <1>7 DEF Free, Handling
  <2>2. /\ pool' = pool \ {timer} /\ InSlot' = InSlot /\ InThread' = {}
        /\ timers' = timers
    BY <1>7 DEF Free, list, slots, InThread, InSlot, Handling
  <2>3. Apart(InHand, ToSet(timers'), InSlot', InThread', pool')
    BY <2>1, <2>2, Handled DEF Where, Apart
  <2> QED BY <1>1, <1>2, <2>2, <2>3, Moved
<1>8. CASE PutBack
  <2>1. tpc \in Handling
    BY <1>8 DEF PutBack, Handling
  <2>2. IsList(timers') /\ ToSet(timers') = ToSet(timers) \cup {timer}
    BY <1>1, <1>8, <2>1, Handled, LinkedOf DEF PutBack, DoInsertTimer
  <2>3. pool' = pool /\ InSlot' = InSlot /\ InThread' = {}
    BY <1>8 DEF PutBack, records, slots, InThread, InSlot, Handling
  <2>4. Apart(InHand, ToSet(timers'), InSlot', InThread', pool')
    BY <2>1, <2>2, <2>3, Handled DEF Where, Apart
  <2> QED BY <1>1, <1>2, <2>2, <2>3, <2>4, Moved
<1> QED BY <1>3, <1>4, <1>5, <1>6, <1>7, <1>8

LEMMA CallbackSteps ==
  ASSUME Typed, OneHand, Where, ~fault',
         CallbackAdd \/ CallbackRemove \/ CallbackReschedule
  PROVE  Typed' /\ OneHand' /\ Where'
<1>1. /\ flags \in [Timers -> Flags] /\ word \in Flags /\ IsList(timers)
      /\ pool \subseteq made /\ made \subseteq Timers
  BY DEF Typed
<1>2. UNCHANGED <<call, insert_while_away_count, word>> /\ InSlot' = InSlot /\ InThread' = InThread
  BY DEF CallbackAdd, CallbackRemove, CallbackReschedule, away, slots, place, InSlot, InThread
<1>3. CASE CallbackAdd
  <2>1. PICK t \in Timers, d \in Delays, f \in Frequencies :
          /\ Make(t, d, f)
          /\ timers' = Linked(timers, delta, t, d + (now - last_tick)).order
    BY <1>3 DEF CallbackAdd
  <2>2. t \notin made /\ made' = made \cup {t} /\ pool' = pool \cup {t}
        /\ flags' = [flags EXCEPT ![t] = NoFlags]
    BY <2>1 DEF Make
  <2>3. t \notin pool /\ t \notin ToSet(timers)
    BY <1>1, <2>2 DEF Where, Apart
  <2>4. IsList(timers') /\ ToSet(timers') = ToSet(timers) \cup {t}
    BY <1>1, <2>1, <2>3, LinkedOf
  <2>5. Apart(InHand, ToSet(timers'), InSlot', InThread', pool')
    BY <1>2, <2>2, <2>3, <2>4 DEF Where, Apart
  <2>6. flags' \in [Timers -> Flags]
    BY <1>1, <2>2 DEF Flags, NoFlags
  <2> QED BY <1>1, <1>2, <2>2, <2>4, <2>5, <2>6, Moved
<1>4. CASE CallbackRemove
  <2>1. PICK t \in Removable : DoRemoveTimer(t)
    BY <1>4 DEF CallbackRemove
  <2>2. /\ pool' = pool \ {t} /\ (t \in pool => t \in ToSet(timers))
        /\ IsList(timers') /\ ToSet(timers') = ToSet(timers) \ {t}
    <3>1. CASE Listed(timers, t)
      <4> DEFINE out == Unlinked(timers, delta, t, FALSE)
      <4>1. t \in ToSet(timers) /\ timers' = out.order /\ pool' = pool \ {t}
        BY <2>1, <3>1, ListedIs DEF DoRemoveTimer
      <4>2. IsList(out.order) /\ ToSet(out.order) = ToSet(timers) \ {t}
        BY <1>1, <4>1, UnlinkedOf, ZenonT(60)
      <4> HIDE DEF out
      <4> QED BY <4>1, <4>2
    <3>2. CASE ~Listed(timers, t)
      BY <1>1, <2>1, <3>2, ListedIs DEF DoRemoveTimer
    <3> QED BY <3>1, <3>2
  <2>3. UNCHANGED <<made, flags>>
    BY <1>4 DEF CallbackRemove
  <2>4. Apart(InHand, ToSet(timers'), InSlot', InThread', pool')
    BY <1>2, <2>2 DEF Where, Apart
  <2> QED BY <1>1, <1>2, <2>2, <2>3, <2>4, Moved
<1>5. CASE CallbackReschedule
  <2>1. PICK d \in Delays :
          \/ /\ \E t \in Known \cap ToSet(timers) : Regrab(t, d)
             /\ UNCHANGED flags
          \/ /\ flags' = [flags EXCEPT ![current_timer].rescheduled = TRUE]
             /\ UNCHANGED timers
    BY <1>5 DEF CallbackReschedule
  <2>2. UNCHANGED <<pool, made>>
    BY <1>5 DEF CallbackReschedule
  <2>3. IsList(timers') /\ ToSet(timers') = ToSet(timers)
    BY <1>1, <2>1, RegrabOf
  <2>4. Apart(InHand, ToSet(timers'), InSlot', InThread', pool')
    BY <1>2, <2>2, <2>3 DEF Where, Apart
  <2>5. flags' \in [Timers -> Flags]
    <3>1. CASE flags' = [flags EXCEPT ![current_timer].rescheduled = TRUE]
      <4>1. ASSUME NEW t \in Timers PROVE [flags[t] EXCEPT !.rescheduled = TRUE] \in Flags
        <5>1. flags[t] \in Flags
          BY <1>1
        <5> QED BY <5>1 DEF Flags
      <4>2. flags' = [flags EXCEPT ![current_timer] = [flags[current_timer] EXCEPT !.rescheduled = TRUE]]
        BY <3>1
      <4> QED BY <1>1, <4>1, <4>2
    <3> QED BY <1>1, <2>1, <3>1
  <2> QED BY <1>1, <1>2, <2>2, <2>3, <2>4, <2>5, Moved
<1> QED BY <1>3, <1>4, <1>5

LEMMA CurrentStep ==
  ASSUME Current, Process \/ Callback \/ Tick
                  \/ \E c \in Clients : Begin(c) \/ EnterChange(c) \/ Proceed(c)
  PROVE  Current'
<1>1. CASE Process
  <2>1. CASE \/ Top \/ WakeForever \/ TakeAdd \/ InsertAdded \/ TakeDel \/ RemoveScheduled
             \/ ReadTick \/ GrabDue \/ NoneDue \/ AdvanceTick
    BY <2>1 DEF Current, Top, WakeForever, TakeAdd, InsertAdded, TakeDel, RemoveScheduled,
                ReadTick, GrabDue, NoneDue, AdvanceTick
  <2>2. CASE SetCurrent
    BY <2>2 DEF Current, SetCurrent
  <2>3. CASE Depart \/ MarkRemoved \/ CallbackReturn
    BY <2>3 DEF Current, Depart, MarkRemoved, CallbackReturn, current, place
  <2>4. CASE Drain \/ Again \/ Free \/ PutBack \/ Pause \/ WakeUp
    BY <2>4 DEF Current, Drain, Again, Free, PutBack, Pause, WakeUp
  <2> QED BY <1>1, <2>1, <2>2, <2>3, <2>4 DEF Process
<1>2. CASE Callback \/ Tick
  BY <1>2 DEF Current, Callback, CallbackAdd, CallbackRemove, CallbackStop, CallbackReschedule,
              Tick, current, place
<1>3. ASSUME NEW c \in Clients, Begin(c) \/ EnterChange(c) \/ Proceed(c)
      PROVE  Current'
  <2>1. UNCHANGED <<current, place>>
    BY <1>3 DEF Begin, AddCall, RemoveCall, RescheduleCall, ChangeCall, EnterChange, Proceed,
                CheckAway, ReadCount, CountUp, CountDown, Recheck, InsertAway, SpinForSlot, Put,
                Schedule, Wake, FindCurrent, Mark, MarkRescheduled, Walk
  <2> QED BY <2>1 DEF Current, current, place
<1> QED BY <1>1, <1>2, <1>3

LEMMA InitInv == Init => Inv
<1> SUFFICES ASSUME Init PROVE Inv
  OBVIOUS
<1>1. Current
  BY DEF Init, Current
<1>2. Typed
  <2>1. call \in [Clients -> GoodCalls]
    BY GoodNoCall DEF Init
  <2>2. IsList(timers)
    BY SetsAssumption DEF Init, IsList, IsInjective
  <2>3. flags \in [Timers -> Flags] /\ word \in Flags
    BY DEF Init, Flags, NoFlags
  <2>4. insert_while_away_count \in 0..(CountValues - 1)
    BY NumbersAssumption DEF Init
  <2>5. pool \subseteq made /\ made \subseteq Timers
    BY SetsAssumption DEF Init, ToSet
  <2> QED BY <2>1, <2>2, <2>3, <2>4, <2>5 DEF Typed
<1>3. Hands = {} /\ InHand = {}
  BY GoodNoCall DEF Init, Hands, InHand
<1>4. InSlot = {} /\ InThread = {} /\ pool = ToSet(timers)
  BY DEF Init, InSlot, InThread, Handling
<1> QED BY <1>1, <1>2, <1>3, <1>4 DEF Inv, OneHand, Where, Apart

LEMMA NextInv == Inv /\ [Next]_vars => Inv'
<1> SUFFICES ASSUME Inv, [Next]_vars PROVE Inv'
  OBVIOUS
<1>1. CASE UNCHANGED vars
  BY <1>1 DEF Inv, NoFault, Current, Typed, IsList, OneHand, Hands, Where, Apart, InHand, InSlot,
              InThread, vars, clock, list, records, slots, away, current, place, seen
<1>2. CASE Next
  <2>1. Current'
    BY <1>2, CurrentStep DEF Next, Inv
  <2>2. Current /\ Typed /\ OneHand /\ Where
    BY <1>2 DEF Next, Inv, NoFault
  <2>3. ASSUME ~fault' PROVE Typed' /\ OneHand' /\ Where'
    <3>1. CASE Process
      BY <2>2, <2>3, <3>1, QuietSteps, ThreadSteps DEF Process
    <3>2. CASE Callback
      BY <2>2, <2>3, <3>2, QuietSteps, CallbackSteps DEF Callback
    <3>3. CASE Tick
      BY <2>2, <3>3, QuietSteps
    <3>4. ASSUME NEW c \in Clients, Begin(c) \/ EnterChange(c) \/ Proceed(c)
          PROVE  Typed' /\ OneHand' /\ Where'
      BY <2>2, <3>4, CallSteps, RescheduleSteps, PlacingSteps DEF Begin, Proceed
    <3> QED BY <1>2, <3>1, <3>2, <3>3, <3>4 DEF Next
  <2> QED BY <2>1, <2>3 DEF Inv, NoFault
<1> QED BY <1>1, <1>2

LEMMA InvAlways == Spec => []Inv
BY InitInv, NextInv, PTL DEF Spec

(***************************************************************************)
(* A timer is in one place                                                 *)
(***************************************************************************)
LEMMA InvPlaces == Inv => (NoFault => InOnePlace)
<1> SUFFICES ASSUME Inv, NoFault, NEW t \in Timers
             PROVE  Cardinality(PlacesOf(t)) = (IF t \in pool THEN 1 ELSE 0)
  BY DEF InOnePlace
<1> DEFINE h == {<<"hand", c>> : c \in {d \in Clients : call[d].op = "add" /\ call[d].timer = t
                                                          /\ ~call[d].placed}}
           l == {<<"list", i>> : i \in {j \in 1..Len(timers) : timers[j] = t}}
           s == IF add_timer = t THEN {<<"slot", None>>} ELSE {}
           w == IF timer = t /\ tpc \in Handling THEN {<<"thread", None>>} ELSE {}
<1>1. PlacesOf(t) = h \cup l \cup s \cup w
  BY DEF PlacesOf
<1>2. Typed /\ OneHand /\ Where /\ IsList(timers)
  BY DEF Inv, Typed
<1>3. /\ t \in InHand => \E c : h = {<<"hand", c>>}
      /\ t \notin InHand => h = {}
  <2>1. {d \in Clients : call[d].op = "add" /\ call[d].timer = t /\ ~call[d].placed}
          = {d \in Hands : call[d].timer = t}
    BY DEF Hands, Holding
  <2>2. CASE t \in InHand
    <3>1. PICK c \in Hands : call[c].timer = t
      BY <2>2 DEF InHand
    <3>2. {d \in Hands : call[d].timer = t} = {c}
      BY <1>2, <3>1 DEF OneHand
    <3> QED BY <2>1, <2>2, <3>2
  <2>3. CASE t \notin InHand
    BY <2>1, <2>3 DEF InHand
  <2> QED BY <2>2, <2>3
<1>4. /\ t \in ToSet(timers) => \E i : l = {<<"list", i>>}
      /\ t \notin ToSet(timers) => l = {}
  <2>1. CASE t \in ToSet(timers)
    <3>1. PICK i \in 1..Len(timers) : timers[i] = t
      BY <1>2, <2>1 DEF IsList, ToSet
    <3>2. {j \in 1..Len(timers) : timers[j] = t} = {i}
      BY <1>2, <3>1 DEF IsList
    <3> QED BY <2>1, <3>2, ZenonT(60)
  <2>2. CASE t \notin ToSet(timers)
    <3>1. {j \in 1..Len(timers) : timers[j] = t} = {}
      BY <1>2, <2>2 DEF IsList, ToSet
    <3> QED BY <2>2, <3>1
  <2> QED BY <2>1, <2>2
<1>5. (t \in InSlot => s = {<<"slot", None>>}) /\ (t \notin InSlot => s = {})
  BY SetsAssumption DEF InSlot
<1>6. (t \in InThread => w = {<<"thread", None>>}) /\ (t \notin InThread => w = {})
  BY DEF InThread
<1> HIDE DEF h, l, s, w
<1>7. CASE t \notin pool
  <2>1. PlacesOf(t) = {}
    BY <1>1, <1>2, <1>3, <1>4, <1>5, <1>6, <1>7 DEF Where, Apart
  <2> QED BY <1>7, <2>1, FS_EmptySet
<1>8. CASE t \in pool
  <2>1. \E x : PlacesOf(t) = {x}
    <3>1. CASE t \in InHand
      BY <1>1, <1>2, <1>3, <1>4, <1>5, <1>6, <3>1 DEF Where, Apart
    <3>2. CASE t \in ToSet(timers)
      BY <1>1, <1>2, <1>3, <1>4, <1>5, <1>6, <3>2 DEF Where, Apart
    <3>3. CASE t \in InSlot
      BY <1>1, <1>2, <1>3, <1>4, <1>5, <1>6, <3>3 DEF Where, Apart
    <3>4. CASE t \in InThread
      BY <1>1, <1>2, <1>3, <1>4, <1>5, <1>6, <3>4 DEF Where, Apart
    <3> QED BY <1>2, <1>8, <3>1, <3>2, <3>3, <3>4 DEF Where, Apart
  <2> QED BY <1>8, <2>1, FS_Singleton
<1> QED BY <1>7, <1>8

\* As long as no record that is not there has been used, every timer whose record is
\* allocated is in one place, and a freed one in none: for any number of clients that
\* add, remove, reschedule and change timers, and whatever callbacks do.
THEOREM InOnePlaceAlways == Spec => [](NoFault => InOnePlace)
BY InvAlways, InvPlaces, PTL

(***************************************************************************)
(* Insertions while the timer thread is away                               *)
(***************************************************************************)
OneAdder == CountValues > 1 /\ \A a, b \in Adders : a = b

\* The steps of the away path, and those between the two updates of the count.
AwaySteps    == {"insert", "count", "counting", "recheck", "inserting", "uncount", "uncounting"}
CountedSteps == {"recheck", "inserting", "uncount", "uncounting"}

AwayInv ==
  /\ away_in_timer <=> tpc \in {"callback", "stopping"}
  /\ \A c \in Clients :
       /\ call[c].at \in AwaySteps => c \in Adders
       /\ call[c].at \in CountedSteps => insert_while_away_count = 1
       /\ call[c].at = "counting" => call[c].count = 0
       /\ call[c].at = "uncounting" => call[c].count = 1
  /\ (\A c \in Clients : call[c].at \notin CountedSteps) => insert_while_away_count = 0
  /\ AwayIsOver

\* A client's step that is not of the away path.
LEMMA BesidesAway ==
  ASSUME Typed, AwayInv, NEW c \in Clients, NEW r, call' = [call EXCEPT ![c] = r],
         call[c].at \notin AwaySteps \/ call[c].at = "insert",
         r.at \notin AwaySteps \/ (r.at = "insert" /\ c \in Adders),
         UNCHANGED <<away_in_timer, insert_while_away_count, tpc>>
  PROVE  AwayInv'
<1>1. call'[c] = r /\ \A d \in Clients \ {c} : call'[d] = call[d]
  BY DEF Typed
<1>2. \A d \in Clients : call'[d] = call[d] \/ d = c
  BY <1>1
<1>3. r.at \notin CountedSteps /\ call[c].at \notin CountedSteps
      /\ r.at \notin {"counting", "uncounting", "inserting"}
  BY DEF AwaySteps, CountedSteps
<1>4. (\A d \in Clients : call'[d].at \notin CountedSteps)
        => (\A d \in Clients : call[d].at \notin CountedSteps)
  BY <1>1, <1>3
<1>5. ASSUME NEW d \in Clients
      PROVE  /\ call'[d].at \in AwaySteps => d \in Adders
             /\ call'[d].at \in CountedSteps => insert_while_away_count' = 1
             /\ call'[d].at = "counting" => call'[d].count = 0
             /\ call'[d].at = "uncounting" => call'[d].count = 1
  BY <1>1, <1>2, <1>3 DEF AwayInv
<1>6. AwayIsOver'
  BY <1>1, <1>2, <1>3 DEF AwayInv, AwayIsOver
<1> QED BY <1>4, <1>5, <1>6 DEF AwayInv

LEMMA BesidesSteps ==
  ASSUME Typed, AwayInv, NEW c \in Clients,
         \/ AddCall(c) \/ RemoveCall(c) \/ ChangeCall(c) \/ RescheduleCall(c)
         \/ EnterChange(c) \/ Put(c) \/ Schedule(c) \/ Wake(c) \/ SpinForSlot(c)
         \/ FindCurrent(c) \/ Mark(c) \/ MarkRescheduled(c) \/ Walk(c)
  PROVE  AwayInv'
<1> DEFINE Beside(q) == q.at \notin AwaySteps \/ (q.at = "insert" /\ c \in Adders)
<1> DEFINE r == call[c]
<1>1. call \in [Clients -> GoodCalls] /\ r \in Calls
  BY DEF Typed, GoodCalls
<1>2. UNCHANGED <<away_in_timer, insert_while_away_count, tpc>>
  BY DEF AddCall, RemoveCall, ChangeCall, RescheduleCall, EnterChange, Put, Schedule, Wake,
         SpinForSlot, FindCurrent, Mark, MarkRescheduled, Walk, away, place
<1>3. r.at \notin AwaySteps
  BY DEF AddCall, RemoveCall, ChangeCall, RescheduleCall, EnterChange, Put, Schedule, Wake,
         SpinForSlot, FindCurrent, Mark, MarkRescheduled, Walk, AwaySteps
<1>4. ASSUME NEW q, call' = [call EXCEPT ![c] = q], Beside(q)
      PROVE  AwayInv'
  BY <1>2, <1>3, <1>4, BesidesAway
<1>5. Beside(NoCall)
  BY DEF NoCall, AwaySteps
<1>18. Beside(r)
  BY <1>3
<1>6. ASSUME NEW x \in Steps \ AwaySteps, call' = [call EXCEPT ![c] = [r EXCEPT !.at = x]]
      PROVE  AwayInv'
  <2>1. [r EXCEPT !.at = x].at = x
    BY <1>1, FieldOf
  <2>2. Beside([r EXCEPT !.at = x])
    BY <2>1
  <2> HIDE DEF Beside
  <2> QED BY <1>4, <1>6, <2>2
<1> HIDE DEF Beside
<1>7. CASE AddCall(c)
  <2>1. PICK t \in Timers : call' = [call EXCEPT ![c] = Fresh("insert", "add", t)]
    BY <1>7 DEF AddCall, Fresh
  <2>2. "insert" \in Steps /\ "add" \in {"add", "remove", "reschedule", "change"} /\ c \in Adders
    BY <1>7 DEF Steps, AddCall
  <2>3. Fresh("insert", "add", t).at = "insert"
    BY <2>2, GoodBegun
  <2>4. Beside(Fresh("insert", "add", t))
    BY <2>2, <2>3 DEF Beside
  <2> QED BY <1>4, <2>1, <2>4
<1>8. CASE RemoveCall(c)
  <2>1. PICK t \in Removable : call' = [call EXCEPT ![c] = Fresh("change", "remove", t)]
    BY <1>8 DEF RemoveCall, Fresh
  <2>2. /\ "change" \in Steps /\ "remove" \in {"add", "remove", "reschedule", "change"}
        /\ t \in Timers
    BY DEF Steps, Removable, Known, Typed
  <2>3. Fresh("change", "remove", t).at = "change"
    BY <2>2, GoodBegun
  <2>4. Beside(Fresh("change", "remove", t))
    BY <2>3 DEF Beside, AwaySteps
  <2> QED BY <1>4, <2>1, <2>4
<1>9. CASE ChangeCall(c)
  <2>1. PICK t \in Known, d \in Delays, f \in Frequencies :
          call' = [call EXCEPT ![c] = [NoCall EXCEPT !.at = "walk", !.op = "change", !.timer = t,
                                         !.delay = d, !.frequency = f, !.head = timers[1]]]
    BY <1>9 DEF ChangeCall
  <2> DEFINE q == [NoCall EXCEPT !.at = "walk", !.op = "change", !.timer = t,
                                 !.delay = d, !.frequency = f, !.head = timers[1]]
  <2>2. q.at = "walk"
    BY DEF NoCall
  <2> HIDE DEF q
  <2>3. Beside(q)
    BY <2>2 DEF Beside, AwaySteps
  <2>4. call' = [call EXCEPT ![c] = q]
    BY <2>1 DEF q
  <2> QED BY <1>4, <2>3, <2>4
<1>10. CASE RescheduleCall(c)
  <2>1. PICK t \in Known, d \in Delays :
          \/ UNCHANGED call
          \/ call' = [call EXCEPT ![c] = [NoCall EXCEPT !.at = "found", !.op = "reschedule",
                                                        !.timer = t, !.delay = d]]
    BY <1>10 DEF RescheduleCall
  <2> DEFINE q == [NoCall EXCEPT !.at = "found", !.op = "reschedule", !.timer = t, !.delay = d]
  <2>2. q.at = "found"
    BY DEF NoCall
  <2>3. call' = call \/ call' = [call EXCEPT ![c] = q]
    BY <2>1
  <2> HIDE DEF q
  <2>4. Beside(q)
    BY <2>2 DEF Beside, AwaySteps
  <2>5. CASE call' = call
    <3>1. call' = [call EXCEPT ![c] = r]
      BY <1>1, <2>5
    <3> HIDE DEF r
    <3> QED BY <1>4, <1>18, <3>1
  <2> QED BY <1>4, <2>3, <2>4, <2>5
<1>11. CASE EnterChange(c)
  BY <1>6, <1>11 DEF EnterChange, GoTo, Steps, AwaySteps
<1>12. CASE Put(c)
  <2> DEFINE p == [r EXCEPT !.at = "wake"]
             q == [r EXCEPT !.at = "wake", !.placed = TRUE]
  <2>1. call' = [call EXCEPT ![c] = q]
    BY <1>12 DEF Put
  <2>2. p \in Calls /\ p.at = "wake"
    BY <1>1, FieldOf DEF Steps
  <2>3. q = [p EXCEPT !.placed = TRUE]
    OBVIOUS
  <2> HIDE DEF p, q
  <2>4. q.at = "wake"
    BY <2>2, <2>3, FieldOf DEF Keeps
  <2>5. Beside(q)
    BY <2>4 DEF Beside, AwaySteps
  <2> QED BY <1>4, <2>1, <2>5
<1>13. CASE Schedule(c)
  BY <1>6, <1>13 DEF Schedule, GoTo, Steps, AwaySteps
<1>14. CASE Wake(c) \/ MarkRescheduled(c)
  <2>1. call' = [call EXCEPT ![c] = NoCall]
    BY <1>14 DEF Wake, MarkRescheduled, Return
  <2> QED BY <1>4, <1>5, <2>1
<1>15. CASE SpinForSlot(c)
  <2>1. call' = [call EXCEPT ![c] = r]
    BY <1>1, <1>15 DEF SpinForSlot
  <2> HIDE DEF r
  <2> QED BY <1>4, <1>18, <2>1
<1>16. CASE FindCurrent(c) \/ Walk(c)
  <2>1. \/ call' = [call EXCEPT ![c] = [r EXCEPT !.at = "mark"]]
        \/ call' = [call EXCEPT ![c] = NoCall]
    BY <1>16 DEF FindCurrent, Walk, GoTo, Return
  <2>2. "mark" \in Steps \ AwaySteps
    BY DEF Steps, AwaySteps
  <2>3. CASE call' = [call EXCEPT ![c] = NoCall]
    BY <1>4, <1>5, <2>3
  <2> QED BY <1>6, <2>1, <2>2, <2>3
<1>17. CASE Mark(c)
  <2> DEFINE p == [r EXCEPT !.at = "marking"]
             q == [r EXCEPT !.at = "marking", !.word = flags[r.timer]]
  <2>1. call' = [call EXCEPT ![c] = q] \/ call' = [call EXCEPT ![c] = NoCall]
    BY <1>17 DEF Mark, Return
  <2>2. p \in Calls /\ p.at = "marking"
    BY <1>1, FieldOf DEF Steps
  <2>3. q = [p EXCEPT !.word = flags[r.timer]]
    OBVIOUS
  <2> HIDE DEF p
  <2>4. q.at = "marking"
    BY <2>2, <2>3 DEF Calls
  <2> HIDE DEF q
  <2>5. Beside(q)
    BY <2>4 DEF Beside, AwaySteps
  <2> QED BY <1>4, <1>5, <2>1, <2>5
<1> QED BY <1>7, <1>8, <1>9, <1>10, <1>11, <1>12, <1>13, <1>14, <1>15, <1>16, <1>17

\* A step of the one adder on the away path: no other client is there.
LEMMA OnAway ==
  ASSUME Typed, AwayInv, OneAdder, NEW c \in Clients, NEW r, call' = [call EXCEPT ![c] = r],
         call[c].at \in AwaySteps, UNCHANGED <<away_in_timer, tpc>>,
         insert_while_away_count' = (IF r.at \in CountedSteps THEN 1 ELSE 0),
         r.at = "counting" => r.count = 0, r.at = "uncounting" => r.count = 1,
         r.at = "inserting" => call[c].at = "inserting" \/ away_in_timer
  PROVE  AwayInv'
<1>1. call'[c] = r /\ \A d \in Clients \ {c} : call'[d] = call[d]
  BY DEF Typed
<1>2. c \in Adders /\ \A d \in Clients \ {c} : call[d].at \notin AwaySteps
  BY DEF AwayInv, OneAdder
<1>3. CountedSteps \subseteq AwaySteps
      /\ {"counting", "uncounting", "inserting"} \subseteq AwaySteps
  BY DEF AwaySteps, CountedSteps
<1>4. ASSUME NEW d \in Clients
      PROVE  /\ call'[d].at \in AwaySteps => d \in Adders
             /\ call'[d].at \in CountedSteps => insert_while_away_count' = 1
             /\ call'[d].at = "counting" => call'[d].count = 0
             /\ call'[d].at = "uncounting" => call'[d].count = 1
  <2>1. CASE d = c
    BY <1>1, <1>2, <2>1
  <2>2. CASE d # c
    BY <1>1, <1>2, <1>3, <2>2
  <2> QED BY <2>1, <2>2
<1>5. (\A d \in Clients : call'[d].at \notin CountedSteps) => insert_while_away_count' = 0
  BY <1>1
<1>6. AwayIsOver'
  <2> SUFFICES ASSUME tpc \notin {"callback", "stopping", "back"}, NEW d \in Clients
               PROVE  call'[d].at # "inserting"
    BY DEF AwayIsOver
  <2>1. CASE d = c
    BY <1>1, <2>1 DEF AwayInv, AwayIsOver
  <2>2. CASE d # c
    BY <1>1, <1>2, <1>3, <2>2
  <2> QED BY <2>1, <2>2
<1> QED BY <1>4, <1>5, <1>6 DEF AwayInv

LEMMA AwayPathSteps ==
  ASSUME Typed, AwayInv, OneAdder, NEW c \in Clients,
         \/ CheckAway(c) \/ ReadCount(c) \/ CountUp(c) \/ CountDown(c) \/ Recheck(c)
         \/ InsertAway(c)
  PROVE  AwayInv'
<1> DEFINE r == call[c]
           n == insert_while_away_count
<1>1. r \in Calls /\ UNCHANGED <<away_in_timer, tpc>> /\ CountValues \in Nat /\ CountValues > 1
  BY NumbersAssumption
     DEF Typed, GoodCalls, CheckAway, ReadCount, CountUp, CountDown, Recheck, InsertAway, away,
         place, OneAdder
<1>2. r.at \in AwaySteps
  BY DEF CheckAway, ReadCount, CountUp, CountDown, Recheck, InsertAway, AwaySteps
<1>3. n = (IF r.at \in CountedSteps THEN 1 ELSE 0)
  <2>1. \A d \in Clients \ {c} : call[d].at \notin AwaySteps
    BY <1>2 DEF AwayInv, OneAdder
  <2> QED BY <2>1 DEF AwayInv, AwaySteps, CountedSteps
<1>4. CASE CheckAway(c)
  <2> DEFINE x == IF away_in_timer THEN "count" ELSE "change"
  <2>1. call' = [call EXCEPT ![c] = [r EXCEPT !.at = x]] /\ n' = n /\ r.at = "insert"
    BY <1>4 DEF CheckAway, GoTo, away
  <2>2. x \in Steps /\ x \notin CountedSteps /\ x \notin {"counting", "uncounting", "inserting"}
    BY DEF Steps, CountedSteps
  <2> HIDE DEF x
  <2>3. [r EXCEPT !.at = x].at = x
    BY <1>1, <2>2, FieldOf
  <2>4. n' = (IF x \in CountedSteps THEN 1 ELSE 0)
    BY <1>3, <2>1, <2>2 DEF CountedSteps
  <2> QED BY <1>1, <1>2, <2>1, <2>2, <2>3, <2>4, OnAway
<1>5. CASE ReadCount(c)
  <2> DEFINE x == IF r.at = "count" THEN "counting" ELSE "uncounting"
             p == [r EXCEPT !.count = n]
             q == [r EXCEPT !.count = n, !.at = x]
  <2>1. call' = [call EXCEPT ![c] = q] /\ n' = n /\ r.at \in {"count", "uncount"}
    BY <1>5 DEF ReadCount, away
  <2>2. q = [p EXCEPT !.at = x]
    OBVIOUS
  <2>3. p \in Calls /\ p.count = n
    <3>1. n \in 0..(CountValues - 1)
      BY DEF Typed
    <3> QED BY <1>1, <3>1 DEF Calls
  <2> HIDE DEF p
  <2>4. q.at = x /\ q.count = n
    <3>1. x \in Steps
      BY DEF Steps
    <3> HIDE DEF x
    <3> QED BY <2>2, <2>3, <3>1 DEF Calls
  <2> HIDE DEF q
  <2>5. n' = (IF q.at \in CountedSteps THEN 1 ELSE 0)
    BY <1>3, <2>1, <2>4 DEF CountedSteps
  <2>6. (q.at = "counting" => q.count = 0) /\ (q.at = "uncounting" => q.count = 1)
        /\ q.at # "inserting"
    BY <1>3, <2>1, <2>4 DEF CountedSteps
  <2> QED BY <1>1, <1>2, <2>1, <2>5, <2>6, OnAway
<1>6. CASE CountUp(c)
  <2> DEFINE p == [r EXCEPT !.at = "recheck"]
             q == [r EXCEPT !.at = "recheck", !.count = 0]
  <2>1. /\ call' = [call EXCEPT ![c] = q] /\ r.at = "counting"
        /\ n' = (r.count + 1) % CountValues
    BY <1>6 DEF CountUp
  <2>2. q = [p EXCEPT !.count = 0]
    OBVIOUS
  <2>3. p \in Calls /\ p.at = "recheck"
    BY <1>1, FieldOf DEF Steps
  <2> HIDE DEF p
  <2>4. q.at = "recheck"
    BY <2>2, <2>3 DEF Calls
  <2> HIDE DEF q
  <2>5. n' = 1
    <3>1. r.count = 0
      BY <2>1 DEF AwayInv
    <3>2. 1 % CountValues = 1
      BY <1>1
    <3> QED BY <2>1, <3>1, <3>2
  <2> QED BY <1>1, <1>2, <2>1, <2>4, <2>5, OnAway DEF CountedSteps
<1>7. CASE CountDown(c)
  <2>1. r.at = "uncounting" /\ n' = 0
    <3>1. r.at = "uncounting" /\ n' = (r.count + CountValues - 1) % CountValues
      BY <1>7 DEF CountDown
    <3>2. r.count = 1
      BY <3>1 DEF AwayInv
    <3>3. CountValues % CountValues = 0 /\ 1 + CountValues - 1 = CountValues
      BY <1>1
    <3> QED BY <3>1, <3>2, <3>3
  <2>2. PICK q : call' = [call EXCEPT ![c] = q] /\ q.at \in {"idle", "change"}
    <3>1. CASE r.placed
      <4>1. call' = [call EXCEPT ![c] = NoCall] /\ NoCall.at = "idle"
        BY <1>7, <3>1 DEF CountDown, Return, NoCall
      <4> QED BY <4>1
    <3>2. CASE ~r.placed
      <4> DEFINE p == [r EXCEPT !.at = "change"]
                 q == [r EXCEPT !.at = "change", !.count = 0]
      <4>1. call' = [call EXCEPT ![c] = q]
        BY <1>7, <3>2 DEF CountDown
      <4>2. q = [p EXCEPT !.count = 0]
        OBVIOUS
      <4>3. p \in Calls /\ p.at = "change"
        BY <1>1, FieldOf DEF Steps
      <4> HIDE DEF p
      <4>4. q.at = "change"
        BY <4>2, <4>3 DEF Calls
      <4> HIDE DEF q
      <4> QED BY <4>1, <4>4
    <3> QED BY <3>1, <3>2
  <2> QED BY <1>1, <1>2, <2>1, <2>2, OnAway DEF CountedSteps
<1>8. CASE Recheck(c)
  <2> DEFINE x == IF away_in_timer THEN "inserting" ELSE "uncount"
  <2>1. call' = [call EXCEPT ![c] = [r EXCEPT !.at = x]] /\ n' = n /\ r.at = "recheck"
    BY <1>8 DEF Recheck, GoTo, away
  <2>2. /\ x \in Steps /\ x \in CountedSteps /\ x \notin {"counting", "uncounting"}
        /\ x = "inserting" => away_in_timer
    BY DEF Steps, CountedSteps
  <2> HIDE DEF x
  <2>3. [r EXCEPT !.at = x].at = x
    BY <1>1, <2>2, FieldOf
  <2>4. n' = (IF x \in CountedSteps THEN 1 ELSE 0)
    BY <1>3, <2>1, <2>2 DEF CountedSteps
  <2> QED BY <1>1, <1>2, <2>1, <2>2, <2>3, <2>4, OnAway
<1>9. CASE InsertAway(c)
  <2> DEFINE p == [r EXCEPT !.at = "uncount"]
             q == [r EXCEPT !.at = "uncount", !.placed = TRUE]
  <2>1. call' = [call EXCEPT ![c] = q] /\ r.at = "inserting" /\ n' = n
    BY <1>9 DEF InsertAway, away
  <2>2. q = [p EXCEPT !.placed = TRUE]
    OBVIOUS
  <2>3. p \in Calls /\ p.at = "uncount"
    BY <1>1, FieldOf DEF Steps
  <2> HIDE DEF p
  <2>4. q.at = "uncount"
    BY <2>2, <2>3, FieldOf DEF Keeps
  <2> HIDE DEF q
  <2>5. n' = 1
    BY <1>3, <2>1 DEF CountedSteps
  <2> QED BY <1>1, <1>2, <2>1, <2>4, <2>5, OnAway DEF CountedSteps
<1> QED BY <1>4, <1>5, <1>6, <1>7, <1>8, <1>9

\* A step of the timer thread: nobody is counted when it goes on after a callback.
LEMMA AwayThread ==
  ASSUME AwayInv, Process \/ Callback \/ Tick
  PROVE  AwayInv'
<1>1. UNCHANGED <<call, insert_while_away_count>>
  BY DEF Process, Top, WakeForever, TakeAdd, InsertAdded, TakeDel, RemoveScheduled, ReadTick,
         GrabDue, NoneDue, AdvanceTick, SetCurrent, Depart, MarkRemoved, CallbackReturn, Drain,
         Again, Free, PutBack, Pause, WakeUp, Callback, CallbackAdd, CallbackRemove, CallbackStop,
         CallbackReschedule, Tick, away
<1>2. (away_in_timer <=> tpc \in {"callback", "stopping"})'
  <2>1. CASE Callback \/ Depart \/ MarkRemoved \/ CallbackReturn \/ Tick
    BY <2>1 DEF AwayInv, Depart, MarkRemoved, CallbackReturn, Callback, CallbackAdd,
                CallbackRemove, CallbackStop, CallbackReschedule, Tick, away, place
  <2>2. CASE \/ Top \/ WakeForever \/ TakeAdd \/ InsertAdded \/ TakeDel \/ RemoveScheduled
             \/ ReadTick \/ GrabDue \/ NoneDue \/ AdvanceTick \/ SetCurrent
    <3>1. away_in_timer' = away_in_timer /\ tpc \notin {"callback", "stopping"}
          /\ tpc' \notin {"callback", "stopping"}
      BY <2>2 DEF Top, WakeForever, TakeAdd, InsertAdded, TakeDel, RemoveScheduled,
                  ReadTick, GrabDue, NoneDue, AdvanceTick, SetCurrent, away
    <3> QED BY <3>1 DEF AwayInv
  <2>3. CASE Drain \/ Again \/ Free \/ PutBack \/ Pause \/ WakeUp
    BY <2>3 DEF AwayInv, Drain, Again, Free, PutBack, Pause, WakeUp, away
  <2> QED BY <2>1, <2>2, <2>3 DEF Process
<1>3. AwayIsOver'
  <2>1. CASE Drain
    BY <1>1, <2>1 DEF AwayInv, AwayIsOver, Drain, CountedSteps
  <2>2. CASE tpc \in {"callback", "stopping"} /\ ~Drain
    <3>1. tpc' \in {"callback", "stopping", "back"}
      BY <2>2 DEF Process, Top, WakeForever, TakeAdd, InsertAdded, TakeDel, RemoveScheduled,
         ReadTick, GrabDue, NoneDue, AdvanceTick, SetCurrent, Depart, MarkRemoved, CallbackReturn,
         Again, Free, PutBack, Pause, WakeUp, Callback, CallbackAdd, CallbackRemove,
         CallbackStop, CallbackReschedule, Tick, place
    <3> QED BY <3>1 DEF AwayIsOver
  <2>3. CASE tpc = "back" /\ ~Drain
    <3>1. tpc' = "back"
      BY <2>3 DEF Process, Top, WakeForever, TakeAdd, InsertAdded, TakeDel, RemoveScheduled,
         ReadTick, GrabDue, NoneDue, AdvanceTick, SetCurrent, Depart, MarkRemoved, CallbackReturn,
         Again, Free, PutBack, Pause, WakeUp, Callback, CallbackAdd, CallbackRemove,
         CallbackStop, CallbackReschedule, Tick, place
    <3> QED BY <3>1 DEF AwayIsOver
  <2>4. CASE tpc \notin {"callback", "stopping", "back"}
    BY <1>1, <2>4 DEF AwayInv, AwayIsOver
  <2> QED BY <2>1, <2>2, <2>3, <2>4
<1> QED BY <1>1, <1>2, <1>3 DEF AwayInv

LEMMA InitAway == Init => AwayInv
<1> SUFFICES ASSUME Init PROVE AwayInv
  OBVIOUS
<1>1. \A c \in Clients : call[c].at = "idle"
  BY DEF Init, NoCall
<1>2. ~away_in_timer /\ tpc = "top" /\ insert_while_away_count = 0
  BY DEF Init
<1> QED BY <1>1, <1>2 DEF AwayInv, AwayIsOver, AwaySteps, CountedSteps

LEMMA NextAway == OneAdder /\ Inv /\ AwayInv /\ [Next]_vars => AwayInv'
<1> SUFFICES ASSUME OneAdder, Inv, AwayInv, [Next]_vars PROVE AwayInv'
  OBVIOUS
<1>1. CASE UNCHANGED vars
  BY <1>1 DEF AwayInv, AwayIsOver, vars, clock, list, records, slots, away, current, place, seen
<1>2. CASE Next
  <2>1. Typed
    BY <1>2 DEF Inv, NoFault, Next
  <2>2. CASE Process \/ Callback \/ Tick
    BY <2>2, AwayThread
  <2>3. ASSUME NEW c \in Clients, Begin(c) \/ EnterChange(c) \/ Proceed(c)
        PROVE  AwayInv'
    BY <2>1, <2>3, BesidesSteps, AwayPathSteps DEF Begin, Proceed
  <2> QED BY <1>2, <2>2, <2>3 DEF Next
<1> QED BY <1>1, <1>2

LEMMA AwayAlways == Spec => [](OneAdder => AwayInv)
<1>1. Init => (OneAdder => AwayInv)
  BY InitAway
<1>2. Inv /\ (OneAdder => AwayInv) /\ [Next]_vars => (OneAdder => AwayInv)'
  BY NextAway DEF OneAdder
<1> QED BY <1>1, <1>2, InvAlways, PTL DEF Spec

\* With one thread that adds timers, nobody inserts by the away path once the timer
\* thread goes on after a callback, however its steps and the thread's interleave.
THEOREM AwayIsOverAlways == Spec => [](OneAdder => AwayIsOver)
<1>1. (OneAdder => AwayInv) => (OneAdder => AwayIsOver)
  BY DEF AwayInv
<1> QED BY <1>1, AwayAlways, PTL

(***************************************************************************)
(* The sums of deltas                                                      *)
(***************************************************************************)
\* What holds of 0 and goes from each number below N to the next holds up to N: the
\* least number of a set of exceptions is not one.
LEMMA UpTo ==
  ASSUME NEW N \in Nat, NEW Q \in SUBSET Nat,
         0 \in Q, \A j \in 0..(N - 1) : j \in Q => j + 1 \in Q
  PROVE  0..N \subseteq Q
<1> SUFFICES ASSUME (0..N) \ Q # {} PROVE FALSE
  OBVIOUS
<1> DEFINE S == (0..N) \ Q
           m == Min(S)
<1>1. m \in S /\ \A y \in S : m <= y
  <2>1. S \in SUBSET Nat /\ S # {}
    OBVIOUS
  <2> HIDE DEF S
  <2> QED BY <2>1, MinOf
<1> HIDE DEF m
<1>2. m \in 1..N /\ m \notin Q
  BY <1>1
<1>3. m - 1 \in 0..(N - 1) /\ (m - 1) + 1 = m
  BY <1>2
<1>4. m - 1 \in Q
  BY <1>1, <1>3
<1> QED BY <1>2, <1>3, <1>4

\* Running sums exist and there is one for each sequence of amounts.
Sums(g, a, N) == /\ g \in [0..N -> Int] /\ g[0] = 0
                 /\ \A j \in 1..N : g[j] = g[j - 1] + a[j]

LEMMA SumsExist ==
  ASSUME NEW N \in Nat, NEW a \in [1..N -> Int]
  PROVE  \E g : Sums(g, a, N)
<1> DEFINE Q == {n \in Nat : n <= N => \E g : Sums(g, a, n)}
<1>1. 0 \in Q
  <2>1. [j \in 0..0 |-> 0] \in [0..0 -> Int] /\ 1..0 = {}
    OBVIOUS
  <2>2. Sums([j \in 0..0 |-> 0], a, 0)
    BY <2>1 DEF Sums
  <2> QED BY <2>2
<1>2. ASSUME NEW n \in 0..(N - 1), n \in Q PROVE n + 1 \in Q
  <2>1. PICK g : Sums(g, a, n)
    BY <1>2
  <2> DEFINE h == [j \in 0..(n + 1) |-> IF j = n + 1 THEN g[n] + a[n + 1] ELSE g[j]]
  <2>2. g \in [0..n -> Int] /\ g[0] = 0 /\ \A j \in 1..n : g[j] = g[j - 1] + a[j]
    BY <2>1 DEF Sums
  <2>3. g[n] \in Int /\ a[n + 1] \in Int /\ n \in Nat
    BY <2>2
  <2>4. h \in [0..(n + 1) -> Int]
    BY <2>2, <2>3
  <2>5. h[0] = 0
    BY <2>2, <2>3
  <2>6. ASSUME NEW j \in 1..(n + 1) PROVE h[j] = h[j - 1] + a[j]
    <3>1. CASE j = n + 1
      <4>1. h[j] = g[n] + a[n + 1] /\ j - 1 = n /\ n \in 0..(n + 1) /\ n # n + 1
        BY <2>3, <3>1
      <4>2. h[n] = g[n]
        BY <4>1
      <4> HIDE DEF h
      <4> QED BY <3>1, <4>1, <4>2
    <3>2. CASE j # n + 1
      <4>1. j \in 1..n /\ j - 1 \in 0..n /\ j - 1 # n + 1 /\ j - 1 \in 0..(n + 1)
            /\ j \in 0..(n + 1)
        BY <2>3, <3>2
      <4>2. h[j] = g[j] /\ h[j - 1] = g[j - 1]
        BY <3>2, <4>1
      <4> HIDE DEF h
      <4> QED BY <2>2, <4>1, <4>2
    <3> QED BY <3>1, <3>2
  <2> HIDE DEF h
  <2>7. Sums(h, a, n + 1)
    BY <2>4, <2>5, <2>6 DEF Sums
  <2> QED BY <2>3, <2>7
<1>3. Q \in SUBSET Nat
  OBVIOUS
<1> HIDE DEF Q
<1>4. 0..N \subseteq Q
  BY <1>1, <1>2, <1>3, UpTo
<1>5. N \in Q
  BY <1>4
<1> QED BY <1>5 DEF Q

LEMMA SumsAgree ==
  ASSUME NEW N \in Nat, NEW a, NEW g, NEW h, Sums(g, a, N), Sums(h, a, N)
  PROVE  \A j \in 0..N : g[j] = h[j]
<1> DEFINE Q == {n \in Nat : n <= N => g[n] = h[n]}
<1>1. 0 \in Q
  BY DEF Sums
<1>2. ASSUME NEW n \in 0..(N - 1), n \in Q PROVE n + 1 \in Q
  <2>1. n + 1 \in 1..N /\ (n + 1) - 1 = n /\ g[n] = h[n] /\ n + 1 \in Nat
    BY <1>2
  <2>2. g[n + 1] = g[n] + a[n + 1] /\ h[n + 1] = h[n] + a[n + 1]
    BY <2>1 DEF Sums
  <2> QED BY <2>1, <2>2
<1>3. Q \in SUBSET Nat
  OBVIOUS
<1> HIDE DEF Q
<1>4. 0..N \subseteq Q
  BY <1>1, <1>2, <1>3, UpTo
<1> QED BY <1>4 DEF Q

\* The deltas of a list, by position.
Amounts(s, d) == [j \in 1..Len(s) |-> d[s[j]]]

Deltas == [Timers -> Int]

LEMMA OffsetIs ==
  ASSUME NEW s \in Seq(Timers), NEW d \in Deltas
  PROVE  Sums([k \in 0..Len(s) |-> Offset(s, d, k)], Amounts(s, d), Len(s))
<1> DEFINE N == Len(s)
           a == Amounts(s, d)
           F(g) == [j \in 0..N |-> IF j = 0 THEN 0 ELSE g[j - 1] + d[s[j]]]
           u == CHOOSE g : g = F(g)
<1>1. N \in Nat /\ \A j \in 1..N : s[j] \in Timers /\ d[s[j]] \in Int
  BY DEF Deltas
<1>2. a \in [1..N -> Int] /\ \A j \in 1..N : a[j] = d[s[j]]
  BY <1>1 DEF Amounts
<1> HIDE DEF a
<1>3. \A k : Offset(s, d, k) = u[k]
  BY DEF Offset
<1> HIDE DEF N
<1>4. PICK g : Sums(g, a, N)
  BY <1>1, <1>2, SumsExist
<1>5. g = F(g)
  <2>1. g \in [0..N -> Int] /\ g[0] = 0 /\ \A j \in 1..N : g[j] = g[j - 1] + d[s[j]]
    BY <1>2, <1>4 DEF Sums
  <2>2. \A j \in 0..N : g[j] = F(g)[j]
    <3> TAKE j \in 0..N
    <3>1. CASE j = 0
      BY <2>1, <3>1
    <3>2. CASE j # 0
      <4>1. j \in 1..N
        BY <1>1, <3>2
      <4> QED BY <2>1, <3>2, <4>1
    <3> QED BY <3>1, <3>2
  <2> QED BY <2>1, <2>2
<1>6. u = F(u)
  BY <1>5
<1> HIDE DEF u
<1>7. u = [j \in 0..N |-> u[j]] /\ u[0] = 0 /\ \A j \in 1..N : u[j] = u[j - 1] + d[s[j]]
  <2>1. \A j \in 0..N : u[j] = IF j = 0 THEN 0 ELSE u[j - 1] + d[s[j]]
    BY <1>6
  <2>2. u[0] = 0
    BY <1>1, <2>1
  <2>3. \A j \in 1..N : u[j] = u[j - 1] + d[s[j]]
    BY <1>1, <2>1
  <2>4. u = [j \in 0..N |-> u[j]]
    BY <1>6
  <2> QED BY <2>2, <2>3, <2>4
<1>8. \A j \in 0..N : u[j] \in Int
  <2> DEFINE Q == {n \in Nat : n <= N => u[n] \in Int}
  <2>1. 0 \in Q
    BY <1>7
  <2>2. ASSUME NEW n \in 0..(N - 1), n \in Q PROVE n + 1 \in Q
    <3>1. n + 1 \in 1..N /\ (n + 1) - 1 = n /\ u[n] \in Int /\ n + 1 \in Nat
      BY <1>1, <2>2
    <3>2. u[n + 1] = u[n] + d[s[n + 1]] /\ d[s[n + 1]] \in Int
      BY <1>1, <1>7, <3>1
    <3> QED BY <3>1, <3>2
  <2>3. Q \in SUBSET Nat
    OBVIOUS
  <2> HIDE DEF Q
  <2>4. 0..N \subseteq Q
    BY <1>1, <2>1, <2>2, <2>3, UpTo
  <2> QED BY <2>4, <1>1 DEF Q
<1>9. u \in [0..N -> Int]
  BY <1>7, <1>8
<1>10. [k \in 0..N |-> Offset(s, d, k)] = u
  BY <1>3, <1>7
<1>11. Sums(u, a, N)
  BY <1>2, <1>7, <1>9 DEF Sums
<1> QED BY <1>10, <1>11 DEF N, a

\* What a caller needs to know of the sums.
LEMMA Offsets ==
  ASSUME NEW s \in Seq(Timers), NEW d \in Deltas
  PROVE  /\ Offset(s, d, 0) = 0
         /\ \A k \in 0..Len(s) : Offset(s, d, k) \in Int
         /\ \A k \in 1..Len(s) : Offset(s, d, k) = Offset(s, d, k - 1) + d[s[k]]
<1> DEFINE N == Len(s)
           o == [k \in 0..N |-> Offset(s, d, k)]
<1>1. Sums(o, Amounts(s, d), N)
  BY OffsetIs
<1>2. N \in Nat /\ \A j \in 1..N : j - 1 \in 0..N /\ j \in 0..N /\ Amounts(s, d)[j] = d[s[j]]
  BY DEF Amounts
<1>3. \A k \in 0..N : o[k] = Offset(s, d, k)
  OBVIOUS
<1> HIDE DEF o, N
<1>4. 0 \in 0..N
  BY <1>2
<1>5. o[0] = 0 /\ (\A k \in 0..N : o[k] \in Int) /\ \A k \in 1..N : o[k] = o[k - 1] + d[s[k]]
  BY <1>1, <1>2 DEF Sums
<1> QED BY <1>2, <1>3, <1>4, <1>5 DEF N

LEMMA OffsetsAre ==
  ASSUME NEW s \in Seq(Timers), NEW d \in Deltas, NEW g \in [0..Len(s) -> Int], g[0] = 0,
         \A k \in 1..Len(s) : g[k] = g[k - 1] + d[s[k]]
  PROVE  \A k \in 0..Len(s) : Offset(s, d, k) = g[k]
<1> DEFINE N == Len(s)
           o == [k \in 0..N |-> Offset(s, d, k)]
<1>1. Sums(o, Amounts(s, d), N) /\ N \in Nat
  BY OffsetIs
<1>2. Sums(g, Amounts(s, d), N)
  BY DEF Sums, Amounts
<1>3. \A k \in 0..N : o[k] = Offset(s, d, k)
  OBVIOUS
<1> HIDE DEF o, N
<1>4. \A k \in 0..N : o[k] = g[k]
  BY <1>1, <1>2, SumsAgree
<1> QED BY <1>3, <1>4 DEF N

\* The list with t linked in at p: the sums before p are as they were, t's is the amount,
\* and those behind it are as they were, one place further on.
LinkedSum(s, d, p, amount, i) ==
  IF i < p THEN Offset(s, d, i) ELSE IF i = p THEN amount ELSE Offset(s, d, i - 1)

LEMMA LinkedDue ==
  ASSUME NEW s, IsList(s), NEW d \in Deltas, NEW t \in Timers, t \notin ToSet(s),
         NEW amount \in Int
  PROVE  LET p == Place(s, d, amount)
             l == Linked(s, d, t, amount)
         IN /\ p \in 1..(Len(s) + 1)
            /\ l.order \in Seq(Timers) /\ Len(l.order) = Len(s) + 1
            /\ \A i \in 1..(Len(s) + 1) :
                 l.order[i] = IF i < p THEN s[i] ELSE IF i = p THEN t ELSE s[i - 1]
            /\ l.delta \in Deltas
            /\ \A u \in Timers \ ToSet(s) : u # t => l.delta[u] = d[u]
            /\ \A i \in 1..(Len(s) + 1) :
                 Offset(l.order, l.delta, i) = LinkedSum(s, d, p, amount, i)
<1> DEFINE n == Len(s)
           p == Place(s, d, amount)
           l == Linked(s, d, t, amount)
           own == amount - Offset(s, d, p - 1)
           o == l.order
           e == l.delta
           S == {i \in 1..n : amount < Offset(s, d, i)} \cup {n + 1}
<1>1. n \in Nat /\ s \in Seq(Timers) /\ (\A j \in 1..n : s[j] \in Timers)
      /\ \A k, j \in 1..n : s[k] = s[j] => k = j
  BY DEF IsList
<1>2. p \in 1..(n + 1)
  <2>1. S \in SUBSET (1..(n + 1)) /\ S \in SUBSET Nat /\ S # {}
    BY <1>1
  <2>2. p = Min(S)
    BY DEF Place
  <2> HIDE DEF S, p
  <2> QED BY <2>1, <2>2, MinOf
<1>3. o = InsertAt(s, p, t)
  BY DEF Linked
<1>4. e = [u \in Timers |-> IF u = t THEN own
                            ELSE IF p <= n /\ u = s[p] THEN d[u] - own ELSE d[u]]
  BY DEF Linked, Deltas
<1>5. \A j \in 1..n : s[j] # t /\ s[j] \in ToSet(s)
  BY <1>1 DEF ToSet
<1>6. /\ Offset(s, d, 0) = 0
      /\ \A k \in 0..n : Offset(s, d, k) \in Int
      /\ \A k \in 1..n : Offset(s, d, k) = Offset(s, d, k - 1) + d[s[k]]
  BY <1>1, Offsets
<1> HIDE DEF n, p, l, o, e
<1>7. /\ o \in Seq(Timers) /\ Len(o) = n + 1
      /\ \A i \in 1..(n + 1) : o[i] = IF i < p THEN s[i] ELSE IF i = p THEN t ELSE s[i - 1]
  BY <1>1, <1>2, <1>3, InsertAtIs DEF n
<1>8. own \in Int
  <2>1. p - 1 \in 0..n
    BY <1>1, <1>2
  <2> QED BY <1>6, <2>1
<1> HIDE DEF own
<1>9. e \in Deltas
  <2>1. \A u \in Timers : d[u] \in Int
    BY DEF Deltas
  <2> QED BY <1>4, <1>8, <2>1 DEF Deltas
<1>10. \A u \in Timers \ ToSet(s) : u # t => e[u] = d[u]
  <2>1. p <= n => s[p] \in ToSet(s)
    BY <1>1, <1>2, <1>5
  <2> QED BY <1>4, <2>1
<1> DEFINE g == [i \in 0..(n + 1) |-> LinkedSum(s, d, p, amount, i)]
<1>11. g \in [0..(n + 1) -> Int] /\ g[0] = 0
  <2>1. ASSUME NEW i \in 0..(n + 1) PROVE LinkedSum(s, d, p, amount, i) \in Int
    <3>1. (i < p => i \in 0..n) /\ (i > p => i - 1 \in 0..n)
      BY <1>1, <1>2
    <3> QED BY <1>1, <1>2, <1>6, <3>1 DEF LinkedSum
  <2>2. LinkedSum(s, d, p, amount, 0) = 0
    BY <1>1, <1>2, <1>6 DEF LinkedSum
  <2>3. 0 \in 0..(n + 1)
    BY <1>1
  <2> QED BY <2>1, <2>2, <2>3
<1>12. ASSUME NEW i \in 1..(n + 1) PROVE g[i] = g[i - 1] + e[o[i]]
  <2>0. i \in 0..(n + 1) /\ i - 1 \in 0..(n + 1)
    BY <1>1
  <2>1. g[i] = LinkedSum(s, d, p, amount, i) /\ g[i - 1] = LinkedSum(s, d, p, amount, i - 1)
    BY <2>0
  <2> HIDE DEF g
  <2>2. CASE i < p
    <3>1. i \in 1..n /\ i - 1 < p /\ o[i] = s[i]
      BY <1>1, <1>2, <1>7, <2>2
    <3>2. p <= n => s[i] # s[p]
      BY <1>1, <1>2, <2>2, <3>1
    <3>3. e[s[i]] = d[s[i]]
      BY <1>1, <1>4, <1>5, <3>1, <3>2
    <3>4. g[i] = Offset(s, d, i) /\ g[i - 1] = Offset(s, d, i - 1)
      BY <2>1, <2>2, <3>1 DEF LinkedSum
    <3> QED BY <1>6, <3>1, <3>3, <3>4
  <2>3. CASE i = p
    <3>1. o[i] = t /\ i - 1 < p /\ p - 1 \in 0..n
      BY <1>1, <1>2, <1>7, <2>3
    <3>2. e[t] = own
      BY <1>4
    <3>3. g[i] = amount /\ g[i - 1] = Offset(s, d, p - 1)
      BY <1>2, <2>1, <2>3, <3>1 DEF LinkedSum
    <3>4. Offset(s, d, p - 1) \in Int
      BY <1>6, <3>1
    <3> QED BY <3>1, <3>2, <3>3, <3>4 DEF own
  <2>4. CASE i = p + 1
    <3>1. p \in 1..n /\ i - 1 = p /\ ~(i < p) /\ i # p /\ o[i] = s[p] /\ p - 1 \in 0..n /\ p \in 0..n
      BY <1>1, <1>2, <1>7, <2>4
    <3>2. s[p] \in Timers /\ s[p] # t
      BY <1>1, <1>5, <3>1
    <3>3. e[s[p]] = d[s[p]] - own
      BY <1>1, <1>2, <1>4, <3>1, <3>2
    <3>4. g[i] = Offset(s, d, p) /\ g[i - 1] = amount
      BY <2>1, <3>1 DEF LinkedSum
    <3>5. Offset(s, d, p) = Offset(s, d, p - 1) + d[s[p]] /\ Offset(s, d, p - 1) \in Int
          /\ d[s[p]] \in Int
      BY <1>6, <3>1, <3>2 DEF Deltas
    <3> QED BY <3>1, <3>3, <3>4, <3>5 DEF own
  <2>5. CASE i > p + 1
    <3>1. /\ i - 1 \in 1..n /\ i - 1 > p /\ ~(i < p) /\ i # p /\ p \in 1..n
          /\ o[i] = s[i - 1] /\ ~(i - 1 < p) /\ i - 1 # p
      BY <1>1, <1>2, <1>7, <2>5
    <3>2. s[i - 1] # s[p] /\ s[i - 1] # t /\ s[i - 1] \in Timers
      BY <1>1, <1>5, <3>1
    <3>3. e[s[i - 1]] = d[s[i - 1]]
      BY <1>4, <3>2
    <3>4. g[i] = Offset(s, d, i - 1) /\ g[i - 1] = Offset(s, d, (i - 1) - 1)
      BY <2>1, <3>1 DEF LinkedSum
    <3> QED BY <1>6, <3>1, <3>3, <3>4
  <2> QED BY <1>1, <1>2, <2>2, <2>3, <2>4, <2>5
<1>13. \A i \in 0..(n + 1) : Offset(o, e, i) = g[i]
  <2> HIDE DEF g
  <2>1. g \in [0..Len(o) -> Int] /\ g[0] = 0 /\ \A k \in 1..Len(o) : g[k] = g[k - 1] + e[o[k]]
    BY <1>7, <1>11, <1>12
  <2>2. \A k \in 0..Len(o) : Offset(o, e, k) = g[k]
    BY <1>7, <1>9, <2>1, OffsetsAre
  <2> QED BY <1>7, <2>2
<1>14. \A i \in 1..(n + 1) : Offset(o, e, i) = LinkedSum(s, d, p, amount, i)
  <2>1. \A i \in 1..(n + 1) : i \in 0..(n + 1)
    BY <1>1
  <2> QED BY <1>13, <2>1
<1> QED BY <1>2, <1>7, <1>9, <1>10, <1>14 DEF n, p, l, o, e

\* The list with its p-th timer taken out: the sums before p are as they were, and those
\* behind it too, one place nearer; or, if it is taken to be processed, they are less by
\* its delta.
TakenOut(s, d, p, b) ==
  LET l == Unlinked(s, d, s[p], b)
  IN /\ l.order \in Seq(Timers) /\ Len(l.order) = Len(s) - 1
     /\ \A i \in 1..(Len(s) - 1) : l.order[i] = IF i < p THEN s[i] ELSE s[i + 1]
     /\ l.delta \in Deltas
     /\ \A u \in Timers \ ToSet(s) : l.delta[u] = d[u]
     /\ l.delta[s[p]] = d[s[p]]
     /\ \A i \in 1..(Len(s) - 1) :
          Offset(l.order, l.delta, i) =
            IF i < p THEN Offset(s, d, i)
            ELSE Offset(s, d, i + 1) - (IF b THEN d[s[p]] ELSE 0)

LEMMA UnlinkedDue ==
  ASSUME NEW s, IsList(s), NEW d \in Deltas, NEW p \in 1..Len(s), NEW b \in BOOLEAN,
         b => p = 1
  PROVE  TakenOut(s, d, p, b)
<1> DEFINE n == Len(s)
           t == s[p]
           l == Unlinked(s, d, t, b)
           q == SelectInSeq(s, LAMBDA u : u = t)
           o == l.order
           e == l.delta
           S == {i \in 1..n : s[i] = t}
<1>1. n \in Nat /\ s \in Seq(Timers) /\ (\A j \in 1..n : s[j] \in Timers)
      /\ \A k, j \in 1..n : s[k] = s[j] => k = j
  BY DEF IsList
<1>0. p \in 1..n
  OBVIOUS
<1>2. q = p
  <2>1. S \in SUBSET Nat /\ S = {p}
    BY <1>1
  <2>2. q = Min(S)
    BY <2>1 DEF SelectInSeq
  <2> HIDE DEF S, q
  <2> QED BY <2>1, <2>2, MinOf
<1>3. o = RemoveAt(s, p)
  BY <1>2 DEF Unlinked
<1>4. e = [u \in Timers |-> IF ~b /\ p < n /\ u = s[p + 1] THEN d[u] + d[t] ELSE d[u]]
  BY <1>2 DEF Unlinked, Deltas
<1>5. \A j \in 1..n : s[j] \in ToSet(s)
  BY <1>1 DEF ToSet
<1>6. /\ Offset(s, d, 0) = 0
      /\ \A k \in 0..n : Offset(s, d, k) \in Int
      /\ \A k \in 1..n : Offset(s, d, k) = Offset(s, d, k - 1) + d[s[k]]
  BY <1>1, Offsets
<1>7. \A u \in Timers : d[u] \in Int
  BY DEF Deltas
<1> HIDE DEF l, o, e, q, n
<1>8. /\ o \in Seq(Timers) /\ Len(o) = n - 1
      /\ \A i \in 1..(n - 1) : o[i] = IF i < p THEN s[i] ELSE s[i + 1]
  BY <1>1, <1>3, RemoveAtIs DEF n
<1>9. t \in Timers /\ d[t] \in Int
  BY <1>0, <1>1, <1>7
<1> HIDE DEF t
<1>10. e \in Deltas
  BY <1>4, <1>7, <1>9 DEF Deltas
<1>11. \A u \in Timers \ ToSet(s) : e[u] = d[u]
  <2>1. p < n => s[p + 1] \in ToSet(s)
    BY <1>0, <1>1, <1>5
  <2> QED BY <1>4, <2>1
<1>12. e[t] = d[t]
  <2>1. p < n => s[p + 1] # s[p]
    BY <1>0, <1>1
  <2> QED BY <1>4, <1>9, <2>1 DEF t
<1> DEFINE less == IF b THEN d[t] ELSE 0
           h(i) == IF i < p THEN Offset(s, d, i) ELSE Offset(s, d, i + 1) - less
           g == [i \in 0..(n - 1) |-> h(i)]
<1>13. less \in Int /\ (~b => less = 0) /\ (b => less = d[t] /\ p = 1)
  BY <1>9
<1>14. n - 1 \in Nat
  BY <1>0, <1>1
<1>15. Offset(s, d, p) = Offset(s, d, p - 1) + d[t] /\ Offset(s, d, p - 1) \in Int
  <2>1. p - 1 \in 0..n /\ d[s[p]] = d[t]
    BY <1>0, <1>1 DEF t
  <2> QED BY <1>0, <1>6, <2>1
<1> HIDE DEF less
<1>16. g \in [0..(n - 1) -> Int] /\ g[0] = 0
  <2>1. ASSUME NEW i \in 0..(n - 1) PROVE h(i) \in Int
    <3>1. i \in 0..n /\ i + 1 \in 0..n
      BY <1>1
    <3> QED BY <1>6, <1>13, <3>1
  <2>2. h(0) = 0
    BY <1>0, <1>1, <1>6
  <2>3. 0 \in 0..(n - 1)
    BY <1>14
  <2> HIDE DEF h
  <2> QED BY <2>1, <2>2, <2>3
<1>17. ASSUME NEW i \in 1..(n - 1) PROVE g[i] = g[i - 1] + e[o[i]]
  <2>0. i \in 0..(n - 1) /\ i - 1 \in 0..(n - 1)
    BY <1>14
  <2>1. g[i] = h(i) /\ g[i - 1] = h(i - 1)
    BY <2>0
  <2> HIDE DEF g
  <2>2. CASE i < p
    <3>1. i \in 1..n /\ i - 1 < p /\ o[i] = s[i] /\ s[i] \in Timers
      BY <1>0, <1>1, <1>8, <2>2
    <3>2. p < n => s[i] # s[p + 1]
      BY <1>0, <1>1, <2>2, <3>1
    <3>3. e[s[i]] = d[s[i]]
      BY <1>4, <3>1, <3>2
    <3> QED BY <1>6, <2>1, <2>2, <3>1, <3>3
  <2>3. CASE i = p
    <3>1. /\ p < n /\ o[i] = s[p + 1] /\ s[p + 1] \in Timers /\ p + 1 \in 1..n /\ (p + 1) - 1 = p
          /\ i - 1 < p /\ ~(i < p) /\ p - 1 \in 0..n
      BY <1>0, <1>1, <1>8, <2>3
    <3>2. e[s[p + 1]] = IF ~b THEN d[s[p + 1]] + d[t] ELSE d[s[p + 1]]
      BY <1>4, <3>1
    <3>3. Offset(s, d, p + 1) = Offset(s, d, p) + d[s[p + 1]] /\ d[s[p + 1]] \in Int
      BY <1>6, <1>7, <3>1
    <3>4. g[i] = Offset(s, d, p + 1) - less /\ g[i - 1] = Offset(s, d, p - 1)
      BY <2>1, <2>3, <3>1
    <3> QED BY <1>9, <1>13, <1>15, <3>1, <3>2, <3>3, <3>4
  <2>4. CASE i > p
    <3>1. /\ i + 1 \in 1..n /\ o[i] = s[i + 1] /\ s[i + 1] \in Timers /\ ~(i < p) /\ ~(i - 1 < p)
          /\ (i + 1) - 1 = i /\ (i - 1) + 1 = i /\ i \in 0..n
      BY <1>0, <1>1, <1>8, <2>4
    <3>2. p < n => s[i + 1] # s[p + 1]
      BY <1>0, <1>1, <2>4, <3>1
    <3>3. e[s[i + 1]] = d[s[i + 1]] /\ d[s[i + 1]] \in Int
      BY <1>4, <1>7, <3>1, <3>2
    <3>4. Offset(s, d, i + 1) = Offset(s, d, i) + d[s[i + 1]] /\ Offset(s, d, i) \in Int
      BY <1>6, <3>1
    <3>5. g[i] = Offset(s, d, i + 1) - less /\ g[i - 1] = Offset(s, d, i) - less
      BY <2>1, <3>1
    <3> QED BY <1>13, <3>1, <3>3, <3>4, <3>5
  <2> QED BY <1>0, <1>1, <2>2, <2>3, <2>4
<1>18. \A i \in 0..(n - 1) : Offset(o, e, i) = g[i]
  <2> HIDE DEF g
  <2>1. g \in [0..Len(o) -> Int] /\ g[0] = 0 /\ \A k \in 1..Len(o) : g[k] = g[k - 1] + e[o[k]]
    BY <1>8, <1>16, <1>17
  <2>2. \A k \in 0..Len(o) : Offset(o, e, k) = g[k]
    BY <1>8, <1>10, <2>1, OffsetsAre
  <2> QED BY <1>8, <2>2
<1>19. \A i \in 1..(n - 1) : Offset(o, e, i) = h(i)
  <2>1. \A i \in 1..(n - 1) : i \in 0..(n - 1)
    BY <1>14
  <2> QED BY <1>18, <2>1
<1> QED BY <1>8, <1>10, <1>11, <1>12, <1>19 DEF n, t, l, o, e, less, TakenOut

(***************************************************************************)
(* The kinds of values                                                     *)
(***************************************************************************)
\* What TypeOK says beside Typed, and that the timer thread pauses for a timer.
Kinds ==
  /\ now \in 0..MaxNow /\ newtick \in 0..now /\ last_tick \in Int /\ wakeAt \in Nat
  /\ behind \in Nat
  /\ delta \in Deltas /\ due \in [Timers -> Nat]
  /\ frequency \in [Timers -> Frequencies \cup {0}]
  /\ {add_timer, del_timer, current_timer, CurrentTimerID, timer} \subseteq Timers \cup {None}
  /\ {change, csGrab} \subseteq Clients \cup {None}
  /\ away_in_timer \in BOOLEAN /\ event \in BOOLEAN /\ fault \in BOOLEAN
  /\ tpc \in Places
  /\ stopped \subseteq made
  /\ tpc = "pausing" => timer \in Timers

\* The timers that are to be inserted, in a hand or in the slot.
Waiting == pool \ (ToSet(timers) \cup InThread)

\* The delta of a timer that waits to be inserted is a delay, not what is left of its
\* place in a list: it is that of a timer in a hand or in the slot, of one that the timer
\* thread inserts, and of one whose callback has been told to run again.
Ready ==
  /\ \A t \in Waiting : delta[t] >= 0
  /\ tpc \in {"inserting", "putting"} => delta[timer] >= 0
  /\ tpc \in {"leaving", "callback", "stopping", "back", "again"} /\ flags[timer].rescheduled
       => delta[timer] >= 0
  /\ tpc = "stopping" /\ word.rescheduled => delta[timer] >= 0

\* A step of another than the timer thread gives no timer a delta below zero but those
\* of the list.
LEMMA ReadyStep ==
  ASSUME Typed, Where, Kinds, Ready, UNCHANGED <<tpc, timer, word>>,
         \A t \in Waiting' : t \in Waiting \/ delta'[t] >= 0,
         \A u \in Timers \ ToSet(timers) : delta'[u] = delta[u] \/ delta'[u] >= 0,
         \A u \in Timers : flags'[u].rescheduled => flags[u].rescheduled \/ delta'[u] >= 0
  PROVE  Ready'
<1>1. tpc \in Handling => timer \in Timers \ ToSet(timers)
  BY Handled
<1>2. ASSUME NEW t \in Waiting'
      PROVE  delta'[t] >= 0
  <2>1. t \in Waiting => t \in Timers \ ToSet(timers)
    BY DEF Typed, Waiting
  <2> QED BY <2>1 DEF Ready
<1>3. tpc \in Handling => (delta[timer] >= 0 => delta'[timer] >= 0)
  BY <1>1
<1>4. {"inserting", "putting", "leaving", "callback", "stopping", "back", "again"}
        \subseteq Handling
  BY DEF Handling
<1>5. /\ tpc \in {"inserting", "putting"} => delta'[timer] >= 0
      /\ tpc \in {"leaving", "callback", "stopping", "back", "again"} /\ flags'[timer].rescheduled
           => delta'[timer] >= 0
      /\ tpc = "stopping" /\ word.rescheduled => delta'[timer] >= 0
  BY <1>1, <1>3, <1>4 DEF Ready
<1> QED BY <1>2, <1>5 DEF Ready

LEMMA ReadyKept ==
  ASSUME Typed, Where, Kinds, Ready, UNCHANGED <<tpc, timer, word, flags>>,
         pool' \ ToSet(timers') \subseteq pool \ ToSet(timers),
         \A u \in Timers \ ToSet(timers) : delta'[u] = delta[u] \/ delta'[u] >= 0
  PROVE  Ready' /\ Waiting' \subseteq Waiting
<1>1. InThread' = InThread
  BY DEF InThread
<1>2. Waiting' \subseteq Waiting
  BY <1>1 DEF Waiting
<1> QED BY <1>2, ReadyStep

\* What Regrab makes of the deltas and the times.
LEMMA RegrabKinds ==
  ASSUME Typed, Kinds, NEW t \in ToSet(timers), NEW d \in Nat, Regrab(t, d)
  PROVE  /\ delta' \in Deltas /\ due' \in [Timers -> Nat] /\ event' \in BOOLEAN
         /\ ToSet(timers') = ToSet(timers)
         /\ \A u \in Timers \ ToSet(timers) : delta'[u] = delta[u]
<1> DEFINE out == Unlinked(timers, delta, t, FALSE)
           a   == d + (now - last_tick)
           in  == Linked(out.order, out.delta, t, a)
<1>0. IsList(timers) /\ delta \in Deltas /\ a \in Int /\ now \in Nat
  BY DEF Typed, Kinds
<1>1. PICK p \in 1..Len(timers) : timers[p] = t
  BY <1>0 DEF IsList, ToSet
<1>2. t \in Timers
  BY <1>0, <1>1 DEF IsList
<1>3. out.delta \in Deltas /\ \A u \in Timers \ ToSet(timers) : out.delta[u] = delta[u]
  <2>1. FALSE \in BOOLEAN /\ (FALSE => p = 1)
    OBVIOUS
  <2>2. TakenOut(timers, delta, p, FALSE)
    BY <1>0, <2>1, UnlinkedDue, Zenon
  <2> QED BY <1>1, <2>2 DEF TakenOut
<1>4. IsList(out.order) /\ ToSet(out.order) = ToSet(timers) \ {t}
  BY <1>0, UnlinkedOf, ZenonT(60)
<1>5. delta' = in.delta /\ timers' = in.order /\ due' = [due EXCEPT ![t] = now + d]
      /\ event' = (event \/ in.order[1] = t)
  BY DEF Regrab
<1> HIDE DEF out, a
<1>6. in.delta \in Deltas
      /\ \A u \in Timers \ ToSet(out.order) : u # t => in.delta[u] = out.delta[u]
  BY <1>0, <1>2, <1>3, <1>4, LinkedDue
<1>7. ToSet(in.order) = ToSet(out.order) \cup {t}
  BY <1>2, <1>4, LinkedOf
<1> HIDE DEF in
<1>8. \A u \in Timers \ ToSet(timers) : delta'[u] = delta[u]
  BY <1>3, <1>4, <1>5, <1>6
<1>9. due' \in [Timers -> Nat]
  BY <1>0, <1>2, <1>5 DEF Kinds
<1>10. event' \in BOOLEAN
  BY <1>5 DEF Kinds
<1> QED BY <1>4, <1>5, <1>6, <1>7, <1>8, <1>9, <1>10

\* The same of DoInsertTimer.
LEMMA InsertKinds ==
  ASSUME Typed, Kinds, NEW t \in Timers, t \notin ToSet(timers), DoInsertTimer(t), delta[t] >= 0
  PROVE  /\ delta' \in Deltas /\ due' \in [Timers -> Nat]
         /\ ToSet(timers') = ToSet(timers) \cup {t}
         /\ \A u \in Timers \ ToSet(timers) : u # t => delta'[u] = delta[u]
<1> DEFINE a == delta[t] + (now - last_tick)
           l == Linked(timers, delta, t, a)
<1>0. IsList(timers) /\ delta \in Deltas /\ a \in Int /\ now \in Nat /\ delta[t] \in Nat
  BY DEF Typed, Kinds, Deltas
<1>1. delta' = l.delta /\ timers' = l.order /\ due' = [due EXCEPT ![t] = now + delta[t]]
  BY DEF DoInsertTimer
<1> HIDE DEF a
<1>2. l.delta \in Deltas /\ \A u \in Timers \ ToSet(timers) : u # t => l.delta[u] = delta[u]
  BY <1>0, LinkedDue
<1>3. ToSet(l.order) = ToSet(timers) \cup {t}
  BY <1>0, LinkedOf
<1> HIDE DEF l
<1>4. due' \in [Timers -> Nat]
  BY <1>0, <1>1 DEF Kinds
<1> QED BY <1>1, <1>2, <1>3, <1>4

\* And of DoRemoveTimer.
LEMMA RemoveKinds ==
  ASSUME Typed, Kinds, NEW t \in Timers, DoRemoveTimer(t)
  PROVE  /\ delta' \in Deltas /\ fault' \in BOOLEAN
         /\ pool' = pool \ {t} /\ ToSet(timers') = ToSet(timers) \ {t}
         /\ \A u \in Timers \ ToSet(timers) : delta'[u] = delta[u]
<1>0. IsList(timers) /\ delta \in Deltas
  BY DEF Typed, Kinds
<1>1. CASE Listed(timers, t)
  <2> DEFINE l == Unlinked(timers, delta, t, FALSE)
  <2>1. t \in ToSet(timers)
    BY <1>1, ListedIs
  <2>2. PICK p \in 1..Len(timers) : timers[p] = t
    BY <1>0, <2>1 DEF IsList, ToSet
  <2>3. l.delta \in Deltas /\ \A u \in Timers \ ToSet(timers) : l.delta[u] = delta[u]
    <3>1. FALSE \in BOOLEAN /\ (FALSE => p = 1)
      OBVIOUS
    <3>2. TakenOut(timers, delta, p, FALSE)
      BY <1>0, <3>1, UnlinkedDue, Zenon
    <3> QED BY <2>2, <3>2 DEF TakenOut
  <2>4. ToSet(l.order) = ToSet(timers) \ {t}
    BY <1>0, <2>1, UnlinkedOf, ZenonT(60)
  <2>5. delta' = l.delta /\ timers' = l.order /\ pool' = pool \ {t} /\ fault' \in BOOLEAN
    BY <1>1 DEF DoRemoveTimer
  <2> HIDE DEF l
  <2> QED BY <2>3, <2>4, <2>5
<1>2. CASE ~Listed(timers, t)
  <2>1. t \notin ToSet(timers)
    BY <1>2, ListedIs
  <2> QED BY <1>0, <1>2, <2>1 DEF DoRemoveTimer
<1> QED BY <1>1, <1>2

(***************************************************************************)
(* What is asked to be removed                                             *)
(***************************************************************************)
Marks == {"found", "mark", "marking", "walk"}

\* What a step of c leaves of its call: r before and q after.
SameCall(q, r) ==
  /\ q.op = "remove" => r.op = "remove" /\ q.timer = r.timer
  /\ q.at \in Marks => r.at \in Marks

\* The fields that SameCall reads are those of r when others are set.
LEMMA SameField ==
  ASSUME NEW r \in Calls
  PROVE  /\ \A n, x : LET q == [r EXCEPT !.count = n, !.at = x] IN
              q.at = x /\ q.op = r.op /\ q.timer = r.timer
         /\ \A n, x : LET q == [r EXCEPT !.at = x, !.count = n] IN
              q.at = x /\ q.op = r.op /\ q.timer = r.timer
         /\ \A n, x : LET q == [r EXCEPT !.at = x, !.placed = n] IN
              q.at = x /\ q.op = r.op /\ q.timer = r.timer
         /\ \A n, x : LET q == [r EXCEPT !.at = x, !.word = n] IN
              q.at = x /\ q.op = r.op /\ q.timer = r.timer
         /\ \A x : LET q == [r EXCEPT !.at = x] IN
              q.at = x /\ q.op = r.op /\ q.timer = r.timer
<1>1. r = [at |-> r.at, op |-> r.op, timer |-> r.timer, delay |-> r.delay,
           frequency |-> r.frequency, placed |-> r.placed, count |-> r.count,
           word |-> r.word, head |-> r.head]
  BY DEF Calls
<1> QED BY <1>1

\* A step of a client changes its own call; one that removes goes on with its timer.
LEMMA CallOps ==
  ASSUME Typed, NEW c \in Clients, EnterChange(c) \/ Proceed(c)
  PROVE  \E q : call' = [call EXCEPT ![c] = q] /\ SameCall(q, call[c])
<1> DEFINE r == call[c]
           at(x) == [r EXCEPT !.at = x]
<1>1. r \in Calls /\ call = [call EXCEPT ![c] = r]
  BY DEF Typed, GoodCalls
<1>2. ASSUME NEW x, x \notin Marks \/ r.at \in Marks, call' = [call EXCEPT ![c] = at(x)]
      PROVE  \E q : call' = [call EXCEPT ![c] = q] /\ SameCall(q, r)
  <2>1. SameCall(at(x), r)
    BY <1>1, <1>2, SameField DEF SameCall
  <2> QED BY <1>2, <2>1
<1>3. call' = [call EXCEPT ![c] = NoCall] =>
        \E q : call' = [call EXCEPT ![c] = q] /\ SameCall(q, r)
  <2>1. SameCall(NoCall, r)
    BY DEF SameCall, NoCall, Marks
  <2> QED BY <2>1
<1>4. call' = call => \E q : call' = [call EXCEPT ![c] = q] /\ SameCall(q, r)
  <2>1. SameCall(r, r)
    BY DEF SameCall
  <2> QED BY <1>1, <2>1
<1>5. CASE CheckAway(c) \/ Recheck(c) \/ EnterChange(c) \/ Schedule(c)
  <2>1. \E x : x \notin Marks /\ call' = [call EXCEPT ![c] = at(x)]
    <3>1. CASE CheckAway(c)
      BY <3>1 DEF CheckAway, GoTo, Marks
    <3>2. CASE Recheck(c)
      BY <3>2 DEF Recheck, GoTo, Marks
    <3>3. CASE EnterChange(c) \/ Schedule(c)
      BY <3>3 DEF EnterChange, Schedule, GoTo, Marks
    <3> QED BY <1>5, <3>1, <3>2, <3>3
  <2> HIDE DEF at
  <2> QED BY <1>2, <2>1
<1>6. CASE SpinForSlot(c) \/ Wake(c) \/ MarkRescheduled(c)
  <2>1. call' = call \/ call' = [call EXCEPT ![c] = NoCall]
    BY <1>6 DEF SpinForSlot, Wake, MarkRescheduled, Return
  <2> QED BY <1>3, <1>4, <2>1
<1>7. CASE ReadCount(c) \/ CountUp(c) \/ CountDown(c) \/ InsertAway(c) \/ Put(c)
  <2>1. \/ call' = [call EXCEPT ![c] = NoCall]
        \/ \E n, x : x \notin Marks /\ call' = [call EXCEPT ![c] = [r EXCEPT !.count = n, !.at = x]]
        \/ \E n, x : x \notin Marks /\ call' = [call EXCEPT ![c] = [r EXCEPT !.at = x, !.count = n]]
        \/ \E n, x :
             x \notin Marks /\ call' = [call EXCEPT ![c] = [r EXCEPT !.at = x, !.placed = n]]
    <3>1. CASE ReadCount(c)
      <4> DEFINE x == IF r.at = "count" THEN "counting" ELSE "uncounting"
      <4>1. call' = [call EXCEPT ![c] = [r EXCEPT !.count = insert_while_away_count, !.at = x]]
        BY <3>1 DEF ReadCount
      <4>2. x \notin Marks
        BY DEF Marks
      <4> HIDE DEF x
      <4> QED BY <4>1, <4>2
    <3>2. CASE CountUp(c)
      <4>1. call' = [call EXCEPT ![c] = [r EXCEPT !.at = "recheck", !.count = 0]]
        BY <3>2 DEF CountUp
      <4>2. "recheck" \notin Marks
        BY DEF Marks
      <4> QED BY <4>1, <4>2
    <3>3. CASE CountDown(c)
      <4>1. \/ call' = [call EXCEPT ![c] = NoCall]
            \/ call' = [call EXCEPT ![c] = [r EXCEPT !.at = "change", !.count = 0]]
        BY <3>3 DEF CountDown, Return
      <4>2. "change" \notin Marks
        BY DEF Marks
      <4> QED BY <4>1, <4>2
    <3>4. CASE InsertAway(c)
      <4>1. call' = [call EXCEPT ![c] = [r EXCEPT !.at = "uncount", !.placed = TRUE]]
        BY <3>4 DEF InsertAway
      <4>2. "uncount" \notin Marks
        BY DEF Marks
      <4> QED BY <4>1, <4>2
    <3>5. CASE Put(c)
      <4>1. call' = [call EXCEPT ![c] = [r EXCEPT !.at = "wake", !.placed = TRUE]]
        BY <3>5 DEF Put
      <4>2. "wake" \notin Marks
        BY DEF Marks
      <4> QED BY <4>1, <4>2
    <3> QED BY <1>7, <3>1, <3>2, <3>3, <3>4, <3>5
  <2>2. ASSUME NEW n, NEW x, x \notin Marks
        PROVE  /\ SameCall([r EXCEPT !.count = n, !.at = x], r)
               /\ SameCall([r EXCEPT !.at = x, !.count = n], r)
               /\ SameCall([r EXCEPT !.at = x, !.placed = n], r)
    BY <1>1, <2>2, SameField DEF SameCall
  <2> QED BY <1>3, <2>1, <2>2
<1>8. CASE FindCurrent(c) \/ Walk(c)
  <2>1. r.at \in Marks
    BY <1>8 DEF FindCurrent, Walk, Marks
  <2>2. call' = [call EXCEPT ![c] = NoCall] \/ call' = [call EXCEPT ![c] = at("mark")]
    BY <1>8 DEF FindCurrent, Walk, GoTo, Return
  <2> QED BY <1>2, <1>3, <2>1, <2>2
<1>9. CASE Mark(c)
  <2>1. r.at \in Marks
    BY <1>9 DEF Mark, Marks
  <2>2. \/ call' = [call EXCEPT ![c] = NoCall]
        \/ \E n, x : call' = [call EXCEPT ![c] = [r EXCEPT !.at = x, !.word = n]]
    BY <1>9 DEF Mark, Return
  <2>3. \A n, x : SameCall([r EXCEPT !.at = x, !.word = n], r)
    BY <1>1, <2>1, SameField DEF SameCall
  <2> QED BY <1>3, <2>2, <2>3
<1> QED BY <1>5, <1>6, <1>7, <1>8, <1>9 DEF Proceed

\* What holds of every call that removes, and of every call that does not mark, goes on.
LEMMA CallsGoOn ==
  ASSUME Typed, NEW c \in Clients, NEW q, call' = [call EXCEPT ![c] = q], SameCall(q, call[c]),
         NEW d \in Clients
  PROVE  SameCall(call'[d], call[d])
<1>1. CASE d = c
  BY <1>1 DEF Typed
<1>2. CASE d # c
  BY <1>2 DEF Typed, SameCall
<1> QED BY <1>1, <1>2

\* The timers that are to be removed, in a call, in the slot or by the timer thread.
Asked ==
  {call[c].timer : c \in {d \in Clients : call[d].op = "remove"}}
  \cup ({del_timer} \ {None})
  \cup (IF tpc = "removing" THEN {timer} ELSE {})

\* They have been made and, unless it may happen, do not wait to be inserted.
Settled(t) == t \in made /\ (~PendingRemoval => t \notin Waiting)
Settling == \A t \in Asked : Settled(t)

\* A timer that may be removed.
LEMMA RemovableSettled ==
  ASSUME Typed, Where, NEW t \in Removable
  PROVE  Settled(t)
<1>1. t \in made /\ (PendingRemoval \/ t # add_timer)
      /\ \A c \in Clients : call[c].op = "add" => call[c].timer # t
  BY DEF Removable, Known
<1>2. t \notin InHand
  BY <1>1 DEF InHand, Hands, Holding
<1>3. ~PendingRemoval => t \notin InSlot
  BY <1>1 DEF InSlot
<1> QED BY <1>1, <1>2, <1>3 DEF Settled, Where, Apart, Waiting

LEMMA SettlingGoesOn ==
  ASSUME Settling, made \subseteq made', Waiting' \subseteq Waiting \cup (made' \ made),
         \A t \in Asked' : t \in Asked \/ Settled(t)
  PROVE  Settling'
BY DEF Settling, Settled

(***************************************************************************)
(* Steps of the clients                                                    *)
(***************************************************************************)
\* The steps that leave the list, the pool and the deltas alone.
LEMMA QuietCalls ==
  ASSUME NEW c \in Clients,
         \/ CheckAway(c) \/ ReadCount(c) \/ CountUp(c) \/ CountDown(c) \/ Recheck(c)
         \/ EnterChange(c) \/ SpinForSlot(c) \/ Put(c) \/ Schedule(c) \/ Wake(c)
         \/ RemoveCall(c) \/ ChangeCall(c) \/ FindCurrent(c)
  PROVE  UNCHANGED <<clock, list, records, away_in_timer, current, place>>
<1>1. CASE CheckAway(c) \/ ReadCount(c) \/ CountUp(c) \/ CountDown(c) \/ Recheck(c)
  BY <1>1 DEF CheckAway, ReadCount, CountUp, CountDown, Recheck, away
<1>2. CASE EnterChange(c) \/ SpinForSlot(c) \/ Put(c) \/ Schedule(c) \/ Wake(c)
  BY <1>2 DEF EnterChange, SpinForSlot, Put, Schedule, Wake, away
<1>3. CASE RemoveCall(c) \/ ChangeCall(c) \/ FindCurrent(c)
  BY <1>3 DEF RemoveCall, ChangeCall, FindCurrent, away
<1> QED BY <1>1, <1>2, <1>3

LEMMA QuietKinds ==
  ASSUME Typed, Where, Kinds, Ready, Settling, NEW c \in Clients,
         \/ CheckAway(c) \/ ReadCount(c) \/ CountUp(c) \/ CountDown(c) \/ Recheck(c)
         \/ EnterChange(c) \/ SpinForSlot(c) \/ Put(c) \/ Schedule(c) \/ Wake(c)
         \/ RemoveCall(c) \/ ChangeCall(c) \/ FindCurrent(c)
  PROVE  Kinds' /\ Ready' /\ made' = made /\ Waiting' \subseteq Waiting
<1>1. UNCHANGED <<clock, list, records, away_in_timer, current, place>>
  BY QuietCalls
<1>2. call[c] \in GoodCalls
  BY DEF Typed
<1>3. {add_timer', del_timer'} \subseteq Timers \cup {None}
  <2>1. CASE Put(c)
    <3>1. call[c].timer \in Timers
      BY <1>2, <2>1 DEF Put, GoodCalls
    <3> QED BY <2>1, <3>1 DEF Put, Kinds
  <2>2. CASE Schedule(c)
    <3>1. call[c].timer \in Timers
      BY <1>2, <2>2 DEF Schedule, GoodCalls
    <3> QED BY <2>2, <3>1 DEF Schedule, Kinds
  <2>3. CASE CheckAway(c) \/ ReadCount(c) \/ CountUp(c) \/ CountDown(c) \/ Recheck(c)
    <3>1. add_timer' = add_timer /\ del_timer' = del_timer
      BY <2>3 DEF CheckAway, ReadCount, CountUp, CountDown, Recheck, slots
    <3> QED BY <3>1 DEF Kinds
  <2>4. CASE \/ EnterChange(c) \/ SpinForSlot(c) \/ Wake(c)
             \/ RemoveCall(c) \/ ChangeCall(c) \/ FindCurrent(c)
    <3>1. add_timer' = add_timer /\ del_timer' = del_timer
      BY <2>4 DEF EnterChange, SpinForSlot, Wake, RemoveCall, ChangeCall, FindCurrent, slots
    <3> QED BY <3>1 DEF Kinds
  <2> QED BY <2>1, <2>2, <2>3, <2>4
<1>4. {change', csGrab'} \subseteq Clients \cup {None}
  <2>1. CASE CheckAway(c) \/ ReadCount(c) \/ CountUp(c) \/ CountDown(c) \/ Recheck(c)
    BY <2>1 DEF Kinds, CheckAway, ReadCount, CountUp, CountDown, Recheck, slots
  <2>2. CASE EnterChange(c) \/ SpinForSlot(c) \/ Put(c) \/ Schedule(c) \/ Wake(c)
    BY <2>2 DEF Kinds, EnterChange, SpinForSlot, Put, Schedule, Wake, slots
  <2>3. CASE RemoveCall(c) \/ ChangeCall(c)
    BY <2>3 DEF Kinds, RemoveCall, ChangeCall, slots
  <2>4. CASE FindCurrent(c)
    BY <2>4, SMTT(30) DEF Kinds, FindCurrent, slots
  <2> QED BY <2>1, <2>2, <2>3, <2>4
<1>5. event' \in BOOLEAN /\ fault' \in BOOLEAN
  <2>1. event \in BOOLEAN /\ fault \in BOOLEAN
    BY DEF Kinds
  <2>2. CASE CheckAway(c) \/ ReadCount(c) \/ CountUp(c) \/ CountDown(c) \/ Recheck(c)
    BY <2>1, <2>2 DEF CheckAway, ReadCount, CountUp, CountDown, Recheck, seen
  <2>3. CASE EnterChange(c) \/ SpinForSlot(c) \/ Put(c) \/ Schedule(c) \/ Wake(c)
    BY <2>1, <2>3 DEF EnterChange, SpinForSlot, Put, Schedule, Wake, seen
  <2>4. CASE RemoveCall(c) \/ ChangeCall(c) \/ FindCurrent(c)
    BY <2>1, <2>4 DEF RemoveCall, ChangeCall, FindCurrent, seen
  <2> QED BY <2>2, <2>3, <2>4
<1>6. stopped' \subseteq made
  <2>1. CASE Wake(c)
    <3>1. call[c].op = "remove" => call[c].timer \in Asked
      BY DEF Asked
    <3>2. call[c].op = "remove" => call[c].timer \in made
      BY <3>1 DEF Settling, Settled
    <3> QED BY <2>1, <3>2 DEF Wake, Kinds
  <2>2. CASE CheckAway(c) \/ ReadCount(c) \/ CountUp(c) \/ CountDown(c) \/ Recheck(c)
    BY <2>2 DEF Kinds, CheckAway, ReadCount, CountUp, CountDown, Recheck, seen
  <2>3. CASE EnterChange(c) \/ SpinForSlot(c) \/ Put(c) \/ Schedule(c)
    BY <2>3 DEF Kinds, EnterChange, SpinForSlot, Put, Schedule, seen
  <2>4. CASE RemoveCall(c) \/ ChangeCall(c) \/ FindCurrent(c)
    BY <2>4 DEF Kinds, RemoveCall, ChangeCall, FindCurrent, seen
  <2> QED BY <2>1, <2>2, <2>3, <2>4
<1>7. Kinds'
  BY <1>1, <1>3, <1>4, <1>5, <1>6 DEF Kinds, clock, list, records, current, place
<1>8. Ready' /\ Waiting' \subseteq Waiting
  <2>1. UNCHANGED <<timers, delta, pool, flags, tpc, timer, word>>
    BY <1>1 DEF list, records, place
  <2> QED BY <2>1, ReadyKept
<1> QED BY <1>1, <1>7, <1>8 DEF records

\* The rest of Kinds, for a step of a client that changes the list, the deltas, the pool
\* or the flags.
LEMMA ListKinds ==
  ASSUME Kinds, UNCHANGED <<clock, last_tick, slots, away_in_timer, current, tpc, timer>>,
         delta' \in Deltas, due' \in [Timers -> Nat],
         frequency' \in [Timers -> Frequencies \cup {0}],
         csGrab' \in Clients \cup {None}, event' \in BOOLEAN, fault' \in BOOLEAN,
         stopped' \subseteq made'
  PROVE  Kinds'
BY DEF Kinds, clock, slots, current

\* The steps that change them.
LEMMA AddKinds ==
  ASSUME Typed, Where, Kinds, Ready, NEW c \in Clients, AddCall(c)
  PROVE  /\ Kinds' /\ Ready' /\ made \subseteq made'
         /\ Waiting' \subseteq Waiting \cup (made' \ made)
<1>1. PICK t \in Timers, d \in Delays, f \in Frequencies :
        Make(t, d, f) /\ delta' = [delta EXCEPT ![t] = d]
  BY DEF AddCall
<1>2. UNCHANGED <<clock, timers, last_tick, due, slots, csGrab, away, current, event, place, seen>>
  BY DEF AddCall
<1>3. t \notin made /\ made' = made \cup {t} /\ pool' = pool \cup {t}
      /\ frequency' = [frequency EXCEPT ![t] = f] /\ flags' = [flags EXCEPT ![t] = NoFlags]
  BY <1>1 DEF Make
<1>4. d \in Nat /\ f \in Nat
  BY NumbersAssumption
<1>5. delta' \in Deltas /\ delta'[t] >= 0 /\ \A u \in Timers : u # t => delta'[u] = delta[u]
  BY <1>1, <1>4 DEF Kinds, Deltas
<1>6. Kinds'
  <2>1. frequency' \in [Timers -> Frequencies \cup {0}]
    BY <1>3 DEF Kinds
  <2>2. due' \in [Timers -> Nat] /\ event' \in BOOLEAN /\ fault' \in BOOLEAN
        /\ csGrab' \in Clients \cup {None} /\ stopped' \subseteq made'
    BY <1>2, <1>3 DEF Kinds, seen
  <2>3. UNCHANGED <<clock, last_tick, slots, away_in_timer, current, tpc, timer>>
    BY <1>2 DEF away, place
  <2> QED BY <1>5, <2>1, <2>2, <2>3, ListKinds
<1>7. InThread' = InThread
  BY <1>2 DEF InThread, place
<1>8. Waiting' \subseteq Waiting \cup {t}
  BY <1>2, <1>3, <1>7 DEF Waiting
<1>9. \A u \in Timers : flags'[u].rescheduled => flags[u].rescheduled
  BY <1>3 DEF Typed, NoFlags
<1>10. Ready'
  BY <1>2, <1>5, <1>8, <1>9, ReadyStep DEF place
<1> QED BY <1>3, <1>6, <1>8, <1>10

LEMMA InsertAwayKinds ==
  ASSUME Typed, Where, Kinds, Ready, NEW c \in Clients, InsertAway(c)
  PROVE  Kinds' /\ Ready' /\ made' = made /\ Waiting' \subseteq Waiting
<1> DEFINE t == call[c].timer
<1>1. /\ UNCHANGED <<clock, last_tick, records, slots, csGrab, away, current, event, place, seen>>
      /\ DoInsertTimer(t)
  BY DEF InsertAway
<1>2. t \in Timers /\ t \in InHand
  <2>1. call[c] \in GoodCalls /\ call[c].at = "inserting"
    BY DEF InsertAway, Typed
  <2>2. call[c].op = "add" /\ ~call[c].placed
    BY <2>1 DEF GoodCalls
  <2> QED BY <2>1, <2>2 DEF GoodCalls, InHand, Hands, Holding
<1>3. t \notin ToSet(timers) /\ t \in Waiting
  BY <1>2 DEF Where, Apart, Waiting
<1>4. delta[t] >= 0
  BY <1>3 DEF Ready
<1>5. /\ delta' \in Deltas /\ due' \in [Timers -> Nat] /\ ToSet(timers') = ToSet(timers) \cup {t}
      /\ \A u \in Timers \ ToSet(timers) : u # t => delta'[u] = delta[u]
  BY <1>1, <1>2, <1>3, <1>4, InsertKinds
<1>6. Kinds'
  BY <1>1, <1>5, ListKinds DEF Kinds, records, away, place, seen
<1>7. InThread' = InThread
  BY <1>1 DEF InThread, place
<1>8. Waiting' \subseteq Waiting \ {t}
  BY <1>1, <1>5, <1>7 DEF Waiting, records
<1>9. Ready'
  <2>1. ASSUME NEW u \in Waiting' PROVE delta'[u] >= 0
    <3>1. u \in Timers \ ToSet(timers) /\ u # t /\ u \in Waiting
      BY <1>8 DEF Waiting, Typed
    <3> QED BY <1>5, <3>1 DEF Ready
  <2>2. tpc \in Handling => timer \in Timers \ ToSet(timers) /\ timer # t
    BY <1>2, Handled
  <2>3. tpc \in Handling => delta'[timer] = delta[timer]
    BY <1>5, <2>2
  <2>4. {"inserting", "putting", "leaving", "callback", "stopping", "back", "again"}
          \subseteq Handling
    BY DEF Handling
  <2>5. UNCHANGED <<tpc, timer, word, flags>>
    BY <1>1 DEF place, records
  <2> HIDE DEF t
  <2>6. /\ tpc \in {"inserting", "putting"} => delta'[timer] >= 0
        /\ tpc \in {"leaving", "callback", "stopping", "back", "again"} /\ flags[timer].rescheduled
             => delta'[timer] >= 0
        /\ tpc = "stopping" /\ word.rescheduled => delta'[timer] >= 0
    BY <2>3, <2>4 DEF Ready
  <2> QED BY <2>1, <2>5, <2>6 DEF Ready
<1> QED BY <1>1, <1>6, <1>8, <1>9 DEF records

\* A delay that a call asks for.
LEMMA DelayIs ==
  ASSUME Typed, NEW c \in Clients
  PROVE  call[c].delay \in Nat /\ call[c].frequency \in Frequencies \cup {0}
<1>1. call[c].delay \in Delays \cup {0} /\ call[c].frequency \in Frequencies \cup {0}
  BY DEF Typed, GoodCalls, Calls
<1>2. Delays \cup {0} \subseteq Nat
  BY NumbersAssumption
<1> QED BY <1>1, <1>2

LEMMA RescheduleKinds ==
  ASSUME Typed, Where, Kinds, Ready, NEW c \in Clients, RescheduleCall(c)
  PROVE  Kinds' /\ Ready' /\ made' = made /\ Waiting' \subseteq Waiting
<1>1. UNCHANGED <<clock, last_tick, records, slots, away, current, place, seen>>
  BY DEF RescheduleCall
<1>2. /\ delta' \in Deltas /\ due' \in [Timers -> Nat] /\ event' \in BOOLEAN
      /\ csGrab' \in Clients \cup {None} /\ ToSet(timers') = ToSet(timers)
      /\ \A u \in Timers \ ToSet(timers) : delta'[u] = delta[u]
  <2>1. PICK t \in Known, d \in Delays :
          \/ Listed(timers, t) /\ Regrab(t, d) /\ csGrab' = csGrab
          \/ csGrab' = c /\ UNCHANGED <<timers, delta, due, event>>
    BY DEF RescheduleCall
  <2>2. d \in Nat
    BY NumbersAssumption
  <2>3. Listed(timers, t) <=> t \in ToSet(timers)
    BY ListedIs
  <2>4. CASE t \in ToSet(timers) /\ Regrab(t, d) /\ csGrab' = csGrab
    BY <2>2, <2>4, RegrabKinds DEF Kinds
  <2>5. CASE csGrab' = c /\ UNCHANGED <<timers, delta, due, event>>
    BY <2>5 DEF Kinds
  <2> QED BY <2>1, <2>3, <2>4, <2>5
<1>3. Kinds'
  BY <1>1, <1>2, ListKinds DEF Kinds, records, away, place, seen
<1>4. Ready' /\ Waiting' \subseteq Waiting
  BY <1>1, <1>2, ReadyKept DEF records, place
<1> QED BY <1>1, <1>3, <1>4 DEF records

LEMMA MarkKinds ==
  ASSUME Typed, Where, Kinds, Ready, NEW c \in Clients, Mark(c) \/ MarkRescheduled(c)
  PROVE  Kinds' /\ Ready' /\ made' = made /\ Waiting' \subseteq Waiting
<1> DEFINE t == call[c].timer
           x == call[c].delay
<1>1. /\ UNCHANGED <<clock, timers, last_tick, due, pool, made, slots, away, current, event, place>>
      /\ UNCHANGED <<frequency, stopped>>
      /\ delta' \in {delta, [delta EXCEPT ![t] = x]} /\ fault' = (t \notin pool)
      /\ csGrab' \in {csGrab, None}
      /\ flags' = flags \/ (flags' = [flags EXCEPT ![t] = [call[c].word EXCEPT !.rescheduled = TRUE]]
                            /\ delta' = [delta EXCEPT ![t] = x])
  <2>1. CASE Mark(c)
    BY <2>1 DEF Mark, records
  <2>2. CASE MarkRescheduled(c)
    BY <2>2 DEF MarkRescheduled
  <2> QED BY <2>1, <2>2
<1>2. x \in Nat
  BY DelayIs
<1>3. delta' \in Deltas /\ \A u \in Timers : delta'[u] = delta[u] \/ delta'[u] >= 0
  BY <1>1, <1>2 DEF Kinds, Deltas
<1>4. Kinds'
  <2>1. /\ due' \in [Timers -> Nat] /\ event' \in BOOLEAN /\ fault' \in BOOLEAN
        /\ csGrab' \in Clients \cup {None} /\ stopped' \subseteq made'
        /\ frequency' \in [Timers -> Frequencies \cup {0}]
    BY <1>1 DEF Kinds
  <2>2. UNCHANGED <<clock, last_tick, slots, away_in_timer, current, tpc, timer>>
    BY <1>1 DEF away, place
  <2> QED BY <1>3, <2>1, <2>2, ListKinds
<1>5. \A u \in Timers : flags'[u].rescheduled => flags[u].rescheduled \/ delta'[u] >= 0
  <2> TAKE u \in Timers
  <2>1. CASE u = t
    <3>1. delta' = [delta EXCEPT ![t] = x] => delta'[t] >= 0
      BY <1>2, <2>1 DEF Kinds, Deltas
    <3> QED BY <1>1, <2>1, <3>1
  <2>2. CASE u # t
    <3>1. flags'[u] = flags[u]
      BY <1>1, <2>2 DEF Typed
    <3> QED BY <3>1
  <2> QED BY <2>1, <2>2
<1>6. InThread' = InThread
  BY <1>1 DEF InThread, place
<1>7. Waiting' = Waiting
  BY <1>1, <1>6 DEF Waiting
<1>8. Ready'
  BY <1>1, <1>3, <1>5, <1>7, ReadyStep DEF place
<1> QED BY <1>1, <1>4, <1>7, <1>8

LEMMA WalkKinds ==
  ASSUME Typed, Where, Kinds, Ready, NEW c \in Clients, Walk(c)
  PROVE  Kinds' /\ Ready' /\ made' = made /\ Waiting' \subseteq Waiting
<1> DEFINE t == call[c].timer
<1>1. /\ UNCHANGED <<clock, last_tick, flags, pool, made, slots, away, current, place, stopped>>
      /\ fault' = (call[c].head \notin pool)
      /\ frequency' \in {frequency, [frequency EXCEPT ![t] = call[c].frequency]}
      /\ csGrab' \in {csGrab, c}
      /\ (t \in ToSet(timers) /\ Regrab(t, call[c].delay)) \/ UNCHANGED <<timers, delta, due, event>>
  <2>1. Listed(timers, t) <=> t \in ToSet(timers)
    BY ListedIs
  <2> QED BY <2>1 DEF Walk
<1>2. call[c].delay \in Nat /\ call[c].frequency \in Frequencies \cup {0}
  BY DelayIs
<1>3. /\ delta' \in Deltas /\ due' \in [Timers -> Nat] /\ event' \in BOOLEAN
      /\ ToSet(timers') = ToSet(timers)
      /\ \A u \in Timers \ ToSet(timers) : delta'[u] = delta[u]
  <2>1. CASE t \in ToSet(timers) /\ Regrab(t, call[c].delay)
    BY <1>2, <2>1, RegrabKinds
  <2>2. CASE UNCHANGED <<timers, delta, due, event>>
    BY <2>2 DEF Kinds
  <2> QED BY <1>1, <2>1, <2>2
<1>4. frequency' \in [Timers -> Frequencies \cup {0}]
  BY <1>1, <1>2 DEF Kinds
<1>5. Kinds'
  <2>1. fault' \in BOOLEAN /\ csGrab' \in Clients \cup {None} /\ stopped' \subseteq made'
    BY <1>1 DEF Kinds
  <2>2. UNCHANGED <<clock, last_tick, slots, away_in_timer, current, tpc, timer>>
    BY <1>1 DEF away, place
  <2> QED BY <1>3, <1>4, <2>1, <2>2, ListKinds
<1>6. Ready' /\ Waiting' \subseteq Waiting
  BY <1>1, <1>3, ReadyKept DEF place
<1> QED BY <1>1, <1>5, <1>6

(***************************************************************************)
(* Steps of the timer thread                                               *)
(***************************************************************************)
\* The steps that move no timer and leave the deltas and flags alone.
LEMMA IdleThreadKinds ==
  ASSUME Typed, Where, Kinds, Ready,
         \/ Top \/ WakeForever \/ TakeDel \/ ReadTick \/ NoneDue \/ WakeUp \/ Pause \/ Tick
  PROVE  Kinds' /\ Ready' /\ made' = made /\ Waiting' = Waiting
<1>1. UNCHANGED <<timers, delta, due, records, add_timer, change, csGrab, away, current, call, seen>>
  <2>1. CASE Top \/ WakeForever \/ TakeDel \/ ReadTick
    BY <2>1 DEF Top, WakeForever, TakeDel, ReadTick, list, slots
  <2>2. CASE NoneDue \/ WakeUp \/ Pause \/ Tick
    BY <2>2 DEF NoneDue, WakeUp, Pause, Tick, list, slots
  <2> QED BY <2>1, <2>2
<1>2. word' = word /\ event' \in BOOLEAN
  <2>1. CASE Top \/ WakeForever \/ TakeDel \/ ReadTick
    BY <2>1 DEF Kinds, Top, WakeForever, TakeDel, ReadTick
  <2>2. CASE NoneDue \/ WakeUp \/ Pause \/ Tick
    BY <2>2 DEF Kinds, NoneDue, WakeUp, Pause, Tick, place
  <2> QED BY <2>1, <2>2
<1>3. IsList(timers) /\ (timers # <<>> => timers[1] \in Timers)
  BY DEF Typed, IsList
<1>4. /\ now' \in 0..MaxNow /\ newtick' \in 0..now' /\ last_tick' \in Int /\ wakeAt' \in Nat
      /\ behind' \in Nat
  <2>1. CASE Top \/ TakeDel \/ NoneDue
    BY <2>1 DEF Kinds, Top, TakeDel, NoneDue, clock, list
  <2>2. CASE WakeForever
    BY <2>2 DEF Kinds, WakeForever, clock
  <2>3. CASE ReadTick
    BY <2>3 DEF Kinds, ReadTick, list
  <2>4. CASE WakeUp
    BY <2>4 DEF Kinds, WakeUp, list
  <2>5. CASE Pause
    <3>1. delta[timer] \in Int
      BY <2>5 DEF Pause, Kinds, Deltas
    <3> DEFINE w == delta[timer] - (newtick - last_tick)
    <3>2. w \in Int
      BY <3>1 DEF Kinds
    <3>3. now' = now /\ newtick' = newtick /\ last_tick' = last_tick
          /\ wakeAt' = now + (IF w < 0 THEN 1 ELSE w) /\ behind' = now - newtick
      BY <2>5 DEF Pause, list
    <3> HIDE DEF w
    <3> QED BY <3>2, <3>3 DEF Kinds
  <2>6. CASE Tick
    BY <2>6, NumbersAssumption DEF Kinds, Tick, list
  <2> QED BY <2>1, <2>2, <2>3, <2>4, <2>5, <2>6
<1>5. {del_timer', timer'} \subseteq Timers \cup {None}
      /\ (tpc' = "pausing" => timer' \in Timers) /\ tpc' \in Places
  <2>1. CASE Top \/ WakeForever
    BY <2>1 DEF Kinds, Top, WakeForever, slots, Places
  <2>2. CASE TakeDel
    BY <2>2 DEF Kinds, TakeDel, Places
  <2>3. CASE ReadTick \/ WakeUp \/ Pause
    BY <2>3 DEF Kinds, ReadTick, WakeUp, Pause, slots, Places
  <2>4. CASE NoneDue
    BY <1>3, <2>4 DEF Kinds, NoneDue, slots, Places
  <2>5. CASE Tick
    BY <2>5 DEF Kinds, Tick, slots, place
  <2> QED BY <2>1, <2>2, <2>3, <2>4, <2>5
<1>6. Kinds'
  BY <1>1, <1>2, <1>4, <1>5 DEF Kinds, records, current, away, seen
<1>7. (tpc' = tpc /\ timer' = timer) \/ {tpc, tpc'} \cap Handling = {}
  <2>1. CASE Top \/ WakeForever \/ TakeDel \/ ReadTick
    BY <2>1 DEF Top, WakeForever, TakeDel, ReadTick, Handling
  <2>2. CASE NoneDue \/ WakeUp \/ Pause \/ Tick
    BY <2>2 DEF NoneDue, WakeUp, Pause, Tick, place, Handling
  <2> QED BY <2>1, <2>2
<1>8. InThread' = InThread
  BY <1>7 DEF InThread
<1>9. Waiting' = Waiting
  BY <1>1, <1>8 DEF Waiting, records
<1>10. Ready'
  <2>1. flags' = flags
    BY <1>1 DEF records
  <2>2. {"inserting", "putting", "leaving", "callback", "stopping", "back", "again"}
          \subseteq Handling
    BY DEF Handling
  <2>3. CASE tpc' = tpc /\ timer' = timer
    BY <1>1, <1>2, <1>9, <2>1, <2>3 DEF Ready
  <2>4. CASE {tpc, tpc'} \cap Handling = {}
    BY <1>1, <1>9, <2>2, <2>4 DEF Ready
  <2> QED BY <1>7, <2>3, <2>4
<1> QED BY <1>1, <1>6, <1>9, <1>10 DEF records

\* The steps of the timer thread with a timer it has grabbed.
LEMMA DispatchKinds ==
  ASSUME Typed, Where, Kinds, Ready, Current,
         \/ AdvanceTick \/ SetCurrent \/ Depart \/ CallbackStop \/ MarkRemoved
         \/ CallbackReturn \/ Drain \/ Again
  PROVE  Kinds' /\ Ready' /\ made' = made /\ Waiting' = Waiting
<1>1. UNCHANGED <<clock, timers, due, frequency, pool, made, slots, csGrab, event, timer, call>>
  <2>1. CASE AdvanceTick \/ SetCurrent \/ Depart \/ CallbackStop
    BY <2>1 DEF AdvanceTick, SetCurrent, Depart, CallbackStop, list, records
  <2>2. CASE MarkRemoved \/ CallbackReturn \/ Drain \/ Again
    BY <2>2 DEF MarkRemoved, CallbackReturn, Drain, Again, list, records
  <2> QED BY <2>1, <2>2
<1>2. tpc \in Handling /\ tpc' \in Handling /\ tpc' \in Places /\ tpc' # "pausing"
  <2>1. CASE AdvanceTick \/ SetCurrent \/ Depart \/ CallbackStop
    BY <2>1 DEF AdvanceTick, SetCurrent, Depart, CallbackStop, Handling, Places
  <2>2. CASE MarkRemoved \/ CallbackReturn \/ Drain \/ Again
    BY <2>2 DEF MarkRemoved, CallbackReturn, Drain, Again, Handling, Places
  <2> QED BY <2>1, <2>2
<1>3. timer \in Timers /\ timer \in pool /\ timer \notin ToSet(timers)
  BY <1>2, Handled
<1>4. InThread' = InThread
  BY <1>1, <1>2 DEF InThread
<1>5. Waiting' = Waiting /\ timer \notin Waiting
  BY <1>1, <1>2, <1>4 DEF Waiting, InThread
<1>6. delta[timer] \in Int /\ last_tick \in Int /\ newtick \in Nat
      /\ frequency[timer] \in Nat
  <2>1. newtick \in Nat
    BY DEF Kinds
  <2>2. frequency[timer] \in Nat
    <3>1. frequency[timer] \in Frequencies \cup {0} /\ Frequencies \cup {0} \subseteq Nat
      BY <1>3, NumbersAssumption DEF Kinds
    <3> QED BY <3>1
  <2> QED BY <1>3, <2>1, <2>2 DEF Kinds, Deltas
<1>7. last_tick' \in Int
  <2>1. CASE AdvanceTick
    BY <1>6, <2>1 DEF AdvanceTick
  <2>2. CASE SetCurrent \/ Depart \/ CallbackStop \/ MarkRemoved
    BY <1>6, <2>2 DEF SetCurrent, Depart, CallbackStop, MarkRemoved, list
  <2>3. CASE CallbackReturn \/ Drain \/ Again
    BY <1>6, <2>3 DEF CallbackReturn, Drain, Again, list
  <2> QED BY <2>1, <2>2, <2>3
<1>8. CASE Again
  <2>1. /\ UNCHANGED <<last_tick, away, current, word, seen>>
        /\ flags' = [flags EXCEPT ![timer].rescheduled = FALSE]
        /\ tpc = "again" /\ tpc' = "putting"
    BY <1>8 DEF Again
  <2>2. PICK n \in Nat : delta' \in {delta, [delta EXCEPT ![timer] = n]}
                         /\ (flags[timer].rescheduled \/ delta' = [delta EXCEPT ![timer] = n])
    <3>1. CASE flags[timer].rescheduled
      <4>1. delta' = delta
        BY <1>8, <3>1 DEF Again
      <4> QED BY <3>1, <4>1
    <3>2. CASE ~flags[timer].rescheduled
      <4> DEFINE n == IF Late THEN newtick - last_tick + 1 ELSE frequency[timer]
      <4>1. n \in Nat
        BY <1>6 DEF Late
      <4>2. delta' = [delta EXCEPT ![timer] = n]
        BY <1>8, <3>2 DEF Again
      <4> QED BY <4>1, <4>2
    <3> QED BY <3>1, <3>2
  <2>3. delta' \in Deltas /\ \A u \in Timers : u # timer => delta'[u] = delta[u]
    BY <1>3, <2>2 DEF Kinds, Deltas
  <2>4. delta'[timer] >= 0
    <3>1. CASE flags[timer].rescheduled
      <4>1. delta[timer] >= 0
        BY <2>1, <3>1 DEF Ready
      <4> QED BY <1>3, <2>2, <4>1 DEF Kinds, Deltas
    <3>2. CASE ~flags[timer].rescheduled
      BY <1>3, <2>2, <3>2 DEF Kinds, Deltas
    <3> QED BY <3>1, <3>2
  <2>5. Kinds'
    BY <1>1, <1>2, <2>1, <2>3 DEF Kinds, clock, slots, current, away, seen
  <2>6. \A t \in Waiting' : delta'[t] >= 0
    BY <1>5, <2>3 DEF Ready, Waiting, Typed
  <2>7. Ready'
    BY <1>1, <2>1, <2>4, <2>6 DEF Ready
  <2> QED BY <1>1, <1>5, <2>5, <2>7
<1>9. CASE ~Again
  <2>1. delta' = delta
    <3>1. CASE AdvanceTick \/ SetCurrent \/ Depart \/ CallbackStop
      BY <3>1 DEF AdvanceTick, SetCurrent, Depart, CallbackStop, list
    <3>2. CASE MarkRemoved \/ CallbackReturn \/ Drain
      BY <3>2 DEF MarkRemoved, CallbackReturn, Drain, list
    <3> QED BY <1>9, <3>1, <3>2
  <2>2. current_timer' \in Timers \cup {None} /\ CurrentTimerID' \in Timers \cup {None}
        /\ away_in_timer' \in BOOLEAN
    <3>1. CASE AdvanceTick \/ SetCurrent \/ Depart \/ CallbackStop
      BY <1>3, <3>1 DEF Kinds, AdvanceTick, SetCurrent, Depart, CallbackStop, away, current
    <3>2. CASE MarkRemoved \/ CallbackReturn \/ Drain
      BY <3>2 DEF Kinds, MarkRemoved, CallbackReturn, Drain, away, current
    <3> QED BY <1>9, <3>1, <3>2
  <2>3. stopped' \subseteq made /\ fault' \in BOOLEAN
    <3>1. CASE MarkRemoved
      <4>1. current_timer = timer
        BY <3>1 DEF MarkRemoved, Current
      <4> QED BY <1>3, <3>1, <4>1 DEF MarkRemoved, Kinds, Typed
    <3>2. CASE AdvanceTick \/ SetCurrent \/ Depart \/ CallbackStop
      BY <3>2 DEF Kinds, AdvanceTick, SetCurrent, Depart, CallbackStop, seen
    <3>3. CASE CallbackReturn \/ Drain
      BY <3>3 DEF Kinds, CallbackReturn, Drain, seen
    <3> QED BY <1>9, <3>1, <3>2, <3>3
  <2>4. Kinds'
    BY <1>1, <1>2, <1>7, <2>1, <2>2, <2>3 DEF Kinds, clock, slots
  <2>5. \A t \in Waiting' : delta'[t] >= 0
    BY <1>5, <2>1 DEF Ready
  <2>6. /\ tpc' \notin {"inserting", "putting"}
        /\ tpc' \in {"leaving", "callback", "stopping", "back", "again"} /\ flags'[timer].rescheduled
              => delta[timer] >= 0
        /\ tpc' = "stopping" /\ word'.rescheduled => delta[timer] >= 0
    <3>1. CASE AdvanceTick
      BY <3>1 DEF AdvanceTick
    <3>2. CASE SetCurrent
      BY <1>3, <3>2 DEF SetCurrent, Typed, Flags
    <3>3. CASE Depart \/ CallbackReturn \/ Drain
      BY <3>3 DEF Depart, CallbackReturn, Drain, Ready, records
    <3>4. CASE CallbackStop
      <4>1. current_timer = timer
        BY <3>4 DEF CallbackStop, Current
      <4> QED BY <3>4, <4>1 DEF CallbackStop, Ready, records
    <3>5. CASE MarkRemoved
      <4>1. current_timer = timer /\ word \in Flags
        BY <3>5 DEF MarkRemoved, Current, Typed
      <4>2. flags'[timer].rescheduled = word.rescheduled
        BY <1>3, <3>5, <4>1 DEF MarkRemoved, Typed, Flags
      <4> QED BY <3>5, <4>2 DEF MarkRemoved, Ready
    <3> QED BY <1>9, <3>1, <3>2, <3>3, <3>4, <3>5
  <2>7. Ready'
    BY <1>1, <2>1, <2>5, <2>6 DEF Ready
  <2> QED BY <1>1, <1>5, <2>4, <2>7
<1> QED BY <1>8, <1>9

\* The steps of the timer thread that move a timer.
LEMMA TakeAddKinds ==
  ASSUME Typed, Where, Kinds, Ready, TakeAdd
  PROVE  Kinds' /\ Ready' /\ made' = made /\ Waiting' \subseteq Waiting
<1>1. /\ tpc = "adding" /\ add_timer' = None /\ timer' = add_timer
      /\ tpc' = (IF add_timer = None THEN "deleting" ELSE "inserting")
      /\ UNCHANGED <<clock, list, records, del_timer, change, csGrab, away, current, event, word,
                     call, seen>>
  BY DEF TakeAdd
<1>2. Kinds'
  BY <1>1 DEF Kinds, clock, list, records, current, away, seen, Places
<1>3. InThread = {} /\ InThread' \subseteq {add_timer}
  BY <1>1 DEF InThread, Handling
<1>4. Waiting' \subseteq Waiting
  BY <1>1, <1>3 DEF Waiting, records, list
<1>5. add_timer # None => add_timer \in Waiting
  BY <1>3 DEF Where, Apart, InSlot, Waiting
<1>6. tpc' = "inserting" => delta[timer'] >= 0
  BY <1>1, <1>5 DEF Ready
<1>7. Ready'
  BY <1>1, <1>4, <1>6 DEF Ready, list
<1> QED BY <1>1, <1>2, <1>4, <1>7 DEF records

LEMMA InsertedKinds ==
  ASSUME Typed, Where, Kinds, Ready, InsertAdded \/ PutBack
  PROVE  Kinds' /\ Ready' /\ made' = made /\ Waiting' = Waiting
<1>1. /\ UNCHANGED <<clock, last_tick, records, slots, csGrab, away, current, event, word, call, seen>>
      /\ DoInsertTimer(timer) /\ tpc \in {"inserting", "putting"} /\ tpc' \in {"deleting", "looking"}
      /\ timer' \in {timer, None}
  BY DEF InsertAdded, PutBack
<1>2. timer \in Timers /\ timer \in pool /\ InThread = {timer} /\ timer \notin ToSet(timers)
      /\ delta[timer] >= 0
  BY <1>1, Handled DEF Ready, Handling
<1>3. /\ delta' \in Deltas /\ due' \in [Timers -> Nat]
      /\ ToSet(timers') = ToSet(timers) \cup {timer}
      /\ \A u \in Timers \ ToSet(timers) : u # timer => delta'[u] = delta[u]
  BY <1>1, <1>2, InsertKinds
<1>4. Kinds'
  BY <1>1, <1>3 DEF Kinds, clock, records, slots, current, away, seen, Places
<1>5. InThread' = {}
  BY <1>1 DEF InThread, Handling
<1>6. Waiting' = Waiting
  BY <1>1, <1>2, <1>3, <1>5 DEF Waiting, records
<1>7. \A t \in Waiting : t \in Timers \ ToSet(timers) /\ t # timer
  BY <1>2 DEF Waiting, Typed
<1>8. Ready'
  BY <1>1, <1>3, <1>6, <1>7 DEF Ready
<1> QED BY <1>1, <1>4, <1>6, <1>8 DEF records

LEMMA RemoveScheduledKinds ==
  ASSUME Typed, Where, Kinds, Ready, Settling, RemoveScheduled
  PROVE  Kinds' /\ Ready' /\ made' = made /\ Waiting' \subseteq Waiting
<1>1. /\ UNCHANGED <<clock, last_tick, due, frequency, flags, made, slots, csGrab, away, current,
                     event, timer, word, call, stopped>>
      /\ DoRemoveTimer(timer) /\ tpc = "removing" /\ tpc' = "ticking"
  BY DEF RemoveScheduled
<1>2. timer \in Timers
  BY <1>1 DEF Settling, Settled, Asked, Typed
<1>3. /\ delta' \in Deltas /\ fault' \in BOOLEAN
      /\ pool' = pool \ {timer} /\ ToSet(timers') = ToSet(timers) \ {timer}
      /\ \A u \in Timers \ ToSet(timers) : delta'[u] = delta[u]
  BY <1>1, <1>2, RemoveKinds
<1>4. Kinds'
  BY <1>1, <1>3 DEF Kinds, clock, slots, current, away, Places
<1>5. InThread = {} /\ InThread' = {}
  BY <1>1 DEF InThread, Handling
<1>6. Waiting' \subseteq Waiting
  BY <1>3, <1>5 DEF Waiting
<1>7. \A t \in Waiting : t \in Timers \ ToSet(timers)
  BY DEF Waiting, Typed
<1>8. Ready'
  BY <1>1, <1>3, <1>6, <1>7 DEF Ready
<1> QED BY <1>1, <1>4, <1>6, <1>8

\* What GrabDue makes of the list.
LEMMA Grabbed ==
  ASSUME Typed, Kinds, GrabDue
  PROVE  /\ timers # <<>> /\ 1 \in 1..Len(timers) /\ timer' = timers[1] /\ timers[1] \in Timers
         /\ TakenOut(timers, delta, 1, TRUE)
         /\ timers' = Unlinked(timers, delta, timers[1], TRUE).order
         /\ delta' = Unlinked(timers, delta, timers[1], TRUE).delta
         /\ ToSet(timers') = ToSet(timers) \ {timers[1]} /\ timers[1] \in ToSet(timers)
<1>0. IsList(timers) /\ delta \in Deltas
  BY DEF Typed, Kinds
<1>1. timers # <<>>
  BY DEF GrabDue, Due
<1>2. 1 \in 1..Len(timers) /\ timers[1] \in Timers /\ timers[1] \in ToSet(timers)
  BY <1>0, <1>1 DEF IsList, ToSet
<1>3. TakenOut(timers, delta, 1, TRUE)
  <2>1. TRUE \in BOOLEAN /\ (TRUE => 1 = 1)
    OBVIOUS
  <2> QED BY <1>0, <1>2, <2>1, UnlinkedDue, Zenon
<1>4. /\ timers' = Unlinked(timers, delta, timers[1], TRUE).order
      /\ delta' = Unlinked(timers, delta, timers[1], TRUE).delta
      /\ timer' = timers[1]
  BY DEF GrabDue
<1>5. ToSet(timers') = ToSet(timers) \ {timers[1]}
  <2>1. ToSet(Unlinked(timers, delta, timers[1], TRUE).order) = ToSet(timers) \ {timers[1]}
    BY <1>0, <1>2, UnlinkedOf, ZenonT(60)
  <2> QED BY <1>4, <2>1
<1> QED BY <1>1, <1>2, <1>3, <1>4, <1>5

LEMMA GrabKinds ==
  ASSUME Typed, Where, Kinds, Ready, GrabDue
  PROVE  Kinds' /\ Ready' /\ made' = made /\ Waiting' = Waiting
<1>1. /\ tpc = "looking" /\ tpc' = "grabbed"
      /\ UNCHANGED <<clock, last_tick, due, records, slots, csGrab, away, current, event, word,
                     call, seen>>
  BY DEF GrabDue
<1>2. timer' = timers[1] /\ timers[1] \in Timers /\ timers[1] \in ToSet(timers)
      /\ ToSet(timers') = ToSet(timers) \ {timers[1]}
  BY Grabbed
<1>3. delta' \in Deltas /\ \A u \in Timers \ ToSet(timers) : delta'[u] = delta[u]
  BY Grabbed DEF TakenOut
<1>4. Kinds'
  BY <1>1, <1>2, <1>3 DEF Kinds, clock, records, slots, current, away, seen, Places
<1>5. InThread = {} /\ InThread' = {timers[1]}
  BY <1>1, <1>2 DEF InThread, Handling
<1>6. Waiting' = Waiting
  BY <1>1, <1>2, <1>5 DEF Waiting, records
<1>7. \A t \in Waiting : t \in Timers \ ToSet(timers)
  BY DEF Waiting, Typed
<1>8. Ready'
  BY <1>1, <1>3, <1>6, <1>7 DEF Ready
<1> QED BY <1>1, <1>4, <1>6, <1>8 DEF records

LEMMA FreeKinds ==
  ASSUME Typed, Where, Kinds, Ready, Free
  PROVE  Kinds' /\ Ready' /\ made' = made /\ Waiting' = Waiting
<1>1. /\ tpc = "again" /\ tpc' = "looking" /\ pool' = pool \ {timer} /\ timer' = None
      /\ UNCHANGED <<clock, list, frequency, flags, made, slots, csGrab, away, current, event, word,
                     call, seen>>
  BY DEF Free
<1>2. Kinds'
  BY <1>1 DEF Kinds, clock, list, slots, current, away, seen, Places
<1>3. InThread = {timer} /\ InThread' = {}
  BY <1>1 DEF InThread, Handling
<1>4. Waiting' = Waiting
  BY <1>1, <1>3 DEF Waiting, list
<1>5. Ready'
  BY <1>1, <1>4 DEF Ready, list
<1> QED BY <1>1, <1>2, <1>4, <1>5

(***************************************************************************)
(* What callbacks do                                                       *)
(***************************************************************************)
LEMMA CallbackAddKinds ==
  ASSUME Typed, Where, Kinds, Ready, CallbackAdd
  PROVE  /\ Kinds' /\ Ready' /\ made \subseteq made'
         /\ Waiting' \subseteq Waiting
<1>1. UNCHANGED <<clock, last_tick, slots, csGrab, away, current, place, call, seen>>
  BY DEF CallbackAdd
<1>2. PICK t \in Timers, d \in Delays, f \in Frequencies :
        LET l == Linked(timers, delta, t, d + (now - last_tick)) IN
        /\ Make(t, d, f)
        /\ timers' = l.order
        /\ delta' = l.delta
        /\ due' = [due EXCEPT ![t] = now + d]
        /\ event' = (event \/ l.order[1] = t)
  BY DEF CallbackAdd
<1>3. t \notin made /\ made' = made \cup {t} /\ pool' = pool \cup {t}
      /\ frequency' = [frequency EXCEPT ![t] = f] /\ flags' = [flags EXCEPT ![t] = NoFlags]
  BY <1>2 DEF Make
<1>4. t \notin ToSet(timers) /\ t \notin pool
  BY <1>3 DEF Typed, Where, Apart
<1>5. d \in Nat /\ d + (now - last_tick) \in Int /\ IsList(timers) /\ delta \in Deltas /\ now \in Nat
  BY NumbersAssumption DEF Kinds, Typed
<1> DEFINE a == d + (now - last_tick)
           l == Linked(timers, delta, t, a)
<1>6. delta' = l.delta /\ timers' = l.order /\ due' = [due EXCEPT ![t] = now + d]
      /\ event' = (event \/ l.order[1] = t)
  BY <1>2
<1> HIDE DEF a
<1>7. a \in Int
  BY <1>5 DEF a
<1>8. l.delta \in Deltas /\ \A u \in Timers \ ToSet(timers) : u # t => l.delta[u] = delta[u]
  BY <1>4, <1>5, <1>7, LinkedDue
<1>9. ToSet(l.order) = ToSet(timers) \cup {t}
  BY <1>4, <1>5, <1>7, LinkedOf
<1> HIDE DEF l
<1>10. due' \in [Timers -> Nat] /\ event' \in BOOLEAN
       /\ frequency' \in [Timers -> Frequencies \cup {0}] /\ stopped' \subseteq made'
  BY <1>1, <1>3, <1>5, <1>6 DEF Kinds, seen
<1>11. Kinds'
  BY <1>1, <1>6, <1>8, <1>10, ListKinds DEF Kinds, away, place, seen
<1>12. InThread' = InThread
  BY <1>1 DEF InThread, place
<1>13. Waiting' \subseteq Waiting
  BY <1>3, <1>6, <1>9, <1>12 DEF Waiting
<1>14. ASSUME NEW u \in Waiting' PROVE delta'[u] >= 0
  <2>1. u \in Timers \ ToSet(timers) /\ u # t /\ u \in Waiting
    BY <1>4, <1>13 DEF Waiting, Typed
  <2> QED BY <1>6, <1>8, <2>1 DEF Ready
<1>15. timer \in Timers \ ToSet(timers) /\ timer # t /\ tpc = "callback"
  <2>1. tpc = "callback"
    BY DEF CallbackAdd
  <2>2. timer \in Timers /\ timer \in pool /\ timer \notin ToSet(timers)
    BY <2>1, Handled DEF Handling
  <2> QED BY <1>4, <2>1, <2>2
<1>16. delta'[timer] = delta[timer] /\ flags'[timer] = flags[timer]
  BY <1>3, <1>6, <1>8, <1>15 DEF Typed
<1>17. Ready'
  BY <1>1, <1>14, <1>15, <1>16 DEF Ready, place
<1> QED BY <1>3, <1>11, <1>13, <1>17

LEMMA CallbackRemoveKinds ==
  ASSUME Typed, Where, Kinds, Ready, CallbackRemove
  PROVE  Kinds' /\ Ready' /\ made' = made /\ Waiting' \subseteq Waiting
<1>1. UNCHANGED <<clock, last_tick, due, frequency, flags, made, slots, csGrab, away, current,
                  event, place, call>>
  BY DEF CallbackRemove
<1>2. PICK t \in Removable : DoRemoveTimer(t) /\ stopped' = stopped \cup {t}
  BY DEF CallbackRemove
<1>3. t \in made /\ t \in Timers
  BY DEF Removable, Known, Typed
<1>4. /\ delta' \in Deltas /\ fault' \in BOOLEAN
      /\ pool' = pool \ {t} /\ ToSet(timers') = ToSet(timers) \ {t}
      /\ \A u \in Timers \ ToSet(timers) : delta'[u] = delta[u]
  BY <1>2, <1>3, RemoveKinds
<1>5. Kinds'
  BY <1>1, <1>2, <1>3, <1>4, ListKinds DEF Kinds, away, place
<1>6. Ready' /\ Waiting' \subseteq Waiting
  BY <1>1, <1>4, ReadyKept DEF place
<1> QED BY <1>1, <1>5, <1>6

LEMMA CallbackRescheduleKinds ==
  ASSUME Typed, Where, Kinds, Ready, Current, CallbackReschedule
  PROVE  Kinds' /\ Ready' /\ made' = made /\ Waiting' \subseteq Waiting
<1>1. UNCHANGED <<clock, last_tick, frequency, pool, made, slots, csGrab, away, current, place,
                  call, seen>>
  BY DEF CallbackReschedule
<1>2. PICK d \in Delays :
        \/ /\ \E t \in Known \cap ToSet(timers) : Regrab(t, d)
           /\ UNCHANGED flags
        \/ /\ flags' = [flags EXCEPT ![current_timer].rescheduled = TRUE]
           /\ delta' = [delta EXCEPT ![current_timer] = d]
           /\ UNCHANGED <<timers, due, event>>
  BY DEF CallbackReschedule
<1>3. d \in Nat
  BY NumbersAssumption
<1>4. tpc = "callback" /\ current_timer = timer /\ timer \in Timers
  BY Handled DEF CallbackReschedule, Current, Handling
<1>5. /\ delta' \in Deltas /\ due' \in [Timers -> Nat] /\ event' \in BOOLEAN
      /\ ToSet(timers') = ToSet(timers)
      /\ \A u \in Timers \ ToSet(timers) : delta'[u] = delta[u] \/ delta'[u] >= 0
      /\ \A u \in Timers : flags'[u].rescheduled => flags[u].rescheduled \/ delta'[u] >= 0
  <2>1. CASE (\E t \in Known \cap ToSet(timers) : Regrab(t, d)) /\ UNCHANGED flags
    BY <1>3, <2>1, RegrabKinds
  <2>2. CASE /\ flags' = [flags EXCEPT ![timer].rescheduled = TRUE]
             /\ delta' = [delta EXCEPT ![timer] = d]
             /\ UNCHANGED <<timers, due, event>>
    BY <1>3, <1>4, <2>2 DEF Kinds, Deltas, Typed
  <2> QED BY <1>2, <1>4, <2>1, <2>2
<1>6. Kinds'
  BY <1>1, <1>5, ListKinds DEF Kinds, away, place, seen
<1>7. InThread' = InThread
  BY <1>1 DEF InThread, place
<1>8. Waiting' = Waiting
  BY <1>1, <1>5, <1>7 DEF Waiting
<1>9. Ready'
  BY <1>1, <1>5, <1>8, ReadyStep DEF place
<1> QED BY <1>1, <1>6, <1>8, <1>9

(***************************************************************************)
(* Types                                                                   *)
(***************************************************************************)
\* What a step asks for: nothing, or a timer that may be removed.
LEMMA AskedByClient ==
  ASSUME Typed, NEW c \in Clients, Begin(c) \/ EnterChange(c) \/ Proceed(c)
  PROVE  \A t \in Asked' : t \in Asked \/ t \in Removable
<1>1. timer' = timer /\ tpc' = tpc
  <2>1. CASE Begin(c)
    BY <2>1 DEF Begin, AddCall, RemoveCall, RescheduleCall, ChangeCall, place
  <2>2. CASE \/ EnterChange(c) \/ CheckAway(c) \/ ReadCount(c) \/ CountUp(c) \/ CountDown(c)
             \/ Recheck(c) \/ InsertAway(c)
    BY <2>2 DEF EnterChange, CheckAway, ReadCount, CountUp, CountDown, Recheck, InsertAway, place
  <2>3. CASE \/ SpinForSlot(c) \/ Put(c) \/ Schedule(c) \/ Wake(c)
             \/ FindCurrent(c) \/ Mark(c) \/ MarkRescheduled(c) \/ Walk(c)
    BY <2>3 DEF SpinForSlot, Put, Schedule, Wake, FindCurrent, Mark, MarkRescheduled, Walk, place
  <2> QED BY <2>1, <2>2, <2>3 DEF Proceed
<1>2. del_timer' = del_timer \/ del_timer' \in Asked
  <2>1. CASE Begin(c)
    BY <2>1 DEF Begin, AddCall, RemoveCall, RescheduleCall, ChangeCall, slots
  <2>2. CASE \/ EnterChange(c) \/ CheckAway(c) \/ ReadCount(c) \/ CountUp(c) \/ CountDown(c)
             \/ Recheck(c) \/ InsertAway(c)
    BY <2>2 DEF EnterChange, CheckAway, ReadCount, CountUp, CountDown, Recheck, InsertAway, slots
  <2>3. CASE Schedule(c)
    BY <2>3 DEF Schedule, Asked
  <2>4. CASE \/ SpinForSlot(c) \/ Put(c) \/ Wake(c)
             \/ FindCurrent(c) \/ Mark(c) \/ MarkRescheduled(c) \/ Walk(c)
    BY <2>4 DEF SpinForSlot, Put, Wake, FindCurrent, Mark, MarkRescheduled, Walk, slots
  <2> QED BY <2>1, <2>2, <2>3, <2>4 DEF Proceed
<1>3. PICK q : /\ call' = [call EXCEPT ![c] = q]
               /\ q.op = "remove" => q.timer \in Asked \/ q.timer \in Removable
  <2>1. CASE EnterChange(c) \/ Proceed(c)
    <3>1. PICK q : call' = [call EXCEPT ![c] = q] /\ SameCall(q, call[c])
      BY <2>1, CallOps
    <3>2. q.op = "remove" => q.timer \in Asked
      BY <3>1 DEF SameCall, Asked
    <3> QED BY <3>1, <3>2
  <2>2. CASE RemoveCall(c)
    <3>1. PICK t \in Removable :
            call' = [call EXCEPT ![c] = [NoCall EXCEPT !.at = "change", !.op = "remove",
                                                       !.timer = t]]
      BY <2>2 DEF RemoveCall
    <3>2. [NoCall EXCEPT !.at = "change", !.op = "remove", !.timer = t].timer = t
      BY DEF NoCall
    <3> QED BY <3>1, <3>2
  <2>3. CASE AddCall(c) \/ RescheduleCall(c) \/ ChangeCall(c)
    <3>1. CASE AddCall(c)
      <4>1. PICK t \in Timers :
              call' = [call EXCEPT ![c] = [NoCall EXCEPT !.at = "insert", !.op = "add", !.timer = t]]
        BY <3>1 DEF AddCall
      <4>2. [NoCall EXCEPT !.at = "insert", !.op = "add", !.timer = t].op = "add"
        BY DEF NoCall
      <4> QED BY <4>1, <4>2
    <3>2. CASE RescheduleCall(c)
      <4>1. CASE call' = call
        <5>1. call' = [call EXCEPT ![c] = call[c]] /\ (call[c].op = "remove" => call[c].timer \in Asked)
          BY <4>1 DEF Typed, Asked
        <5> QED BY <5>1
      <4>2. CASE call' # call
        <5>1. PICK t \in Known, d \in Delays :
                call' = [call EXCEPT ![c] = [NoCall EXCEPT !.at = "found", !.op = "reschedule",
                                                           !.timer = t, !.delay = d]]
          BY <3>2, <4>2 DEF RescheduleCall
        <5>2. [NoCall EXCEPT !.at = "found", !.op = "reschedule", !.timer = t,
                             !.delay = d].op = "reschedule"
          BY DEF NoCall
        <5> QED BY <5>1, <5>2
      <4> QED BY <4>1, <4>2
    <3>3. CASE ChangeCall(c)
      <4>1. PICK t \in Known, d \in Delays, f \in Frequencies :
              call' = [call EXCEPT ![c] = [NoCall EXCEPT !.at = "walk", !.op = "change", !.timer = t,
                                      !.delay = d, !.frequency = f, !.head = timers[1]]]
        BY <3>3 DEF ChangeCall
      <4>2. [NoCall EXCEPT !.at = "walk", !.op = "change", !.timer = t, !.delay = d,
                           !.frequency = f, !.head = timers[1]].op = "change"
        BY DEF NoCall
      <4> QED BY <4>1, <4>2
    <3> QED BY <2>3, <3>1, <3>2, <3>3
  <2> QED BY <2>1, <2>2, <2>3 DEF Begin
<1>4. ASSUME NEW d \in Clients, call'[d].op = "remove"
      PROVE  call'[d].timer \in Asked \/ call'[d].timer \in Removable
  <2>1. CASE d = c
    BY <1>3, <1>4, <2>1 DEF Typed
  <2>2. CASE d # c
    BY <1>3, <1>4, <2>2 DEF Typed, Asked
  <2> QED BY <2>1, <2>2
<1>5. ASSUME NEW t \in Asked' PROVE t \in Asked \/ t \in Removable
  <2>1. \/ \E d \in Clients : call'[d].op = "remove" /\ t = call'[d].timer
        \/ t = del_timer' /\ t # None
        \/ tpc = "removing" /\ t = timer
    BY <1>1 DEF Asked
  <2>2. tpc = "removing" => timer \in Asked
    BY DEF Asked
  <2>3. del_timer # None => del_timer \in Asked
    BY DEF Asked
  <2> QED BY <1>2, <1>4, <2>1, <2>2, <2>3
<1> QED BY <1>5

LEMMA AskedByThread ==
  ASSUME Process \/ Callback \/ Tick
  PROVE  \A t \in Asked' : t \in Asked
<1>1. call' = call
  BY DEF Process, Top, WakeForever, TakeAdd, InsertAdded, TakeDel, RemoveScheduled, ReadTick,
         GrabDue, NoneDue, AdvanceTick, SetCurrent, Depart, MarkRemoved, CallbackReturn, Drain,
         Again, Free, PutBack, Pause, WakeUp, Callback, CallbackAdd, CallbackRemove, CallbackStop,
         CallbackReschedule, Tick
<1>2. \/ del_timer' = del_timer /\ tpc' = tpc /\ timer' = timer
      \/ del_timer' = del_timer /\ tpc' # "removing"
      \/ del_timer' = None /\ (tpc' = "removing" => timer' = del_timer /\ timer' # None)
  <2>1. CASE Callback \/ Tick
    BY <2>1 DEF Callback, CallbackAdd, CallbackRemove, CallbackStop, CallbackReschedule, Tick,
                slots, place
  <2>2. CASE TakeDel
    BY <2>2 DEF TakeDel
  <2>3. CASE \/ Top \/ WakeForever \/ TakeAdd \/ InsertAdded \/ RemoveScheduled \/ ReadTick
             \/ GrabDue \/ NoneDue \/ AdvanceTick \/ SetCurrent
    BY <2>3 DEF Top, WakeForever, TakeAdd, InsertAdded, RemoveScheduled, ReadTick,
                GrabDue, NoneDue, AdvanceTick, SetCurrent, slots
  <2>4. CASE \/ Depart \/ MarkRemoved \/ CallbackReturn \/ Drain
             \/ Again \/ Free \/ PutBack \/ Pause \/ WakeUp
    BY <2>4 DEF Depart, MarkRemoved, CallbackReturn, Drain,
                Again, Free, PutBack, Pause, WakeUp, slots
  <2> QED BY <2>1, <2>2, <2>3, <2>4 DEF Process
<1> QED BY <1>1, <1>2 DEF Asked

\* While a timer is called back it is the one that CurrentTimerID names.
Called == tpc \in {"callback", "stopping"} => CurrentTimerID = timer

LEMMA CalledStep ==
  ASSUME Called, Process \/ Callback \/ Tick
                 \/ \E c \in Clients : Begin(c) \/ EnterChange(c) \/ Proceed(c)
  PROVE  Called'
<1>1. CASE Depart
  BY <1>1 DEF Called, Depart
<1>2. CASE MarkRemoved \/ Callback \/ Tick
  BY <1>2 DEF Called, MarkRemoved, Callback, CallbackAdd, CallbackRemove, CallbackStop,
              CallbackReschedule, Tick, current, place
<1>3. CASE Process /\ ~Depart /\ ~MarkRemoved
  <2>1. tpc' \notin {"callback", "stopping"}
    BY <1>3 DEF Process, Top, WakeForever, TakeAdd, InsertAdded, TakeDel, RemoveScheduled, ReadTick,
         GrabDue, NoneDue, AdvanceTick, SetCurrent, CallbackReturn, Drain,
         Again, Free, PutBack, Pause, WakeUp
  <2> QED BY <2>1 DEF Called
<1>4. ASSUME NEW c \in Clients, Begin(c) \/ EnterChange(c) \/ Proceed(c)
      PROVE  Called'
  <2>1. UNCHANGED <<tpc, timer, CurrentTimerID>>
    <3>1. CASE Begin(c)
      BY <3>1 DEF Begin, AddCall, RemoveCall, RescheduleCall, ChangeCall, place, current
    <3>2. CASE \/ EnterChange(c) \/ CheckAway(c) \/ ReadCount(c) \/ CountUp(c) \/ CountDown(c)
               \/ Recheck(c) \/ InsertAway(c)
      BY <3>2 DEF EnterChange, CheckAway, ReadCount, CountUp, CountDown, Recheck, InsertAway,
                  place, current
    <3>3. CASE \/ SpinForSlot(c) \/ Put(c) \/ Schedule(c) \/ Wake(c)
               \/ FindCurrent(c) \/ Mark(c) \/ MarkRescheduled(c) \/ Walk(c)
      BY <3>3 DEF SpinForSlot, Put, Schedule, Wake, FindCurrent, Mark, MarkRescheduled, Walk,
                  place, current
    <3> QED BY <1>4, <3>1, <3>2, <3>3 DEF Proceed
  <2> QED BY <2>1 DEF Called
<1> QED BY <1>1, <1>2, <1>3, <1>4

\* All of it, as long as no record that is not there has been used.
Sound == Kinds /\ Ready /\ Settling /\ Called

LEMMA InitSound == Init => Sound
<1> SUFFICES ASSUME Init PROVE Sound
  OBVIOUS
<1>1. PICK d \in Delays :
        /\ delta = [t \in Timers |-> IF timers # <<>> /\ t = timers[1] THEN d ELSE 0]
        /\ due = [t \in Timers |-> IF t \in made THEN d ELSE 0]
  BY DEF Init
<1>2. d \in Nat /\ 0 \in Nat /\ MaxNow \in Nat
  BY NumbersAssumption
<1>3. delta \in Deltas /\ due \in [Timers -> Nat]
  BY <1>1, <1>2 DEF Deltas
<1>4. tpc = "top" /\ pool = ToSet(timers)
  BY DEF Init
<1>5. Kinds
  <2>1. /\ now \in 0..MaxNow /\ newtick \in 0..now /\ last_tick \in Int /\ wakeAt \in Nat
        /\ behind \in Nat
    BY <1>2 DEF Init
  <2>2. frequency \in [Timers -> Frequencies \cup {0}]
    BY DEF Init
  <2>3. {add_timer, del_timer, current_timer, CurrentTimerID, timer} \subseteq {None}
        /\ {change, csGrab} \subseteq {None} /\ stopped = {}
    BY DEF Init
  <2>4. away_in_timer \in BOOLEAN /\ event \in BOOLEAN /\ fault \in BOOLEAN
    BY DEF Init
  <2> QED BY <1>3, <1>4, <2>1, <2>2, <2>3, <2>4 DEF Kinds, Places
<1>6. Waiting = {}
  BY <1>4 DEF Waiting
<1>7. Ready
  BY <1>4, <1>6 DEF Ready
<1>8. Asked = {}
  <2>1. \A c \in Clients : call[c].op = "none"
    BY DEF Init, NoCall
  <2>2. del_timer = None
    BY DEF Init
  <2> QED BY <1>4, <2>1, <2>2 DEF Asked
<1>9. Settling /\ Called
  BY <1>4, <1>8 DEF Settling, Called
<1> QED BY <1>5, <1>7, <1>9 DEF Sound

LEMMA StepSound ==
  ASSUME Inv, ~fault, Sound,
         Process \/ Callback \/ Tick
           \/ \E c \in Clients : Begin(c) \/ EnterChange(c) \/ Proceed(c)
  PROVE  Sound'
<1>0. Typed /\ OneHand /\ Where /\ Current /\ Kinds /\ Ready /\ Settling /\ Called
  BY DEF Inv, NoFault, Sound
<1>1. Kinds' /\ Ready' /\ made \subseteq made' /\ Waiting' \subseteq Waiting \cup (made' \ made)
  <2>1. CASE Process
    <3>1. CASE Top \/ WakeForever \/ TakeDel \/ ReadTick \/ NoneDue \/ WakeUp \/ Pause
      BY <1>0, <3>1, IdleThreadKinds
    <3>2. CASE \/ AdvanceTick \/ SetCurrent \/ Depart \/ MarkRemoved
               \/ CallbackReturn \/ Drain \/ Again
      BY <1>0, <3>2, DispatchKinds
    <3>3. CASE TakeAdd \/ InsertAdded \/ PutBack \/ RemoveScheduled \/ GrabDue \/ Free
      BY <1>0, <3>3, TakeAddKinds, InsertedKinds, RemoveScheduledKinds, GrabKinds, FreeKinds
    <3> QED BY <2>1, <3>1, <3>2, <3>3 DEF Process
  <2>2. CASE Callback
    BY <1>0, <2>2, CallbackAddKinds, CallbackRemoveKinds, CallbackRescheduleKinds, DispatchKinds
       DEF Callback
  <2>3. CASE Tick
    BY <1>0, <2>3, IdleThreadKinds
  <2>4. ASSUME NEW c \in Clients, Begin(c) \/ EnterChange(c) \/ Proceed(c)
        PROVE  /\ Kinds' /\ Ready' /\ made \subseteq made'
               /\ Waiting' \subseteq Waiting \cup (made' \ made)
    <3>1. CASE AddCall(c)
      BY <1>0, <3>1, AddKinds
    <3>2. CASE \/ InsertAway(c) \/ RescheduleCall(c) \/ Mark(c) \/ MarkRescheduled(c) \/ Walk(c)
      BY <1>0, <3>2, InsertAwayKinds, RescheduleKinds, MarkKinds, WalkKinds
    <3>3. CASE \/ CheckAway(c) \/ ReadCount(c) \/ CountUp(c) \/ CountDown(c) \/ Recheck(c)
               \/ EnterChange(c) \/ SpinForSlot(c) \/ Put(c) \/ Schedule(c) \/ Wake(c)
               \/ RemoveCall(c) \/ ChangeCall(c) \/ FindCurrent(c)
      BY <1>0, <3>3, QuietKinds
    <3> QED BY <2>4, <3>1, <3>2, <3>3 DEF Begin, Proceed
  <2> QED BY <2>1, <2>2, <2>3, <2>4
<1>2. \A t \in Asked' : t \in Asked \/ Settled(t)
  BY <1>0, AskedByClient, AskedByThread, RemovableSettled
<1>3. Settling'
  BY <1>0, <1>1, <1>2, SettlingGoesOn
<1>4. Called'
  BY <1>0, CalledStep
<1> QED BY <1>1, <1>3, <1>4 DEF Sound

LEMMA NextSound == Inv /\ (NoFault => Sound) /\ [Next]_vars => (NoFault => Sound)'
<1> SUFFICES ASSUME Inv, NoFault => Sound, [Next]_vars, NoFault' PROVE Sound'
  OBVIOUS
<1>1. CASE UNCHANGED vars
  <2>1. NoFault
    BY <1>1 DEF NoFault, vars, seen
  <2> QED BY <1>1, <2>1 DEF Sound, Kinds, Ready, Waiting, InThread, Settling, Settled, Asked,
                            Called, vars, clock, list, records, slots, away, current, place, seen
<1>2. CASE Next
  BY <1>2, StepSound DEF Next, NoFault
<1> QED BY <1>1, <1>2

LEMMA SoundAlways == Spec => [](NoFault => Sound)
<1>1. Init => (NoFault => Sound)
  BY InitSound
<1> QED BY <1>1, NextSound, InvAlways, PTL DEF Spec

LEMMA SoundTypes ==
  ASSUME Typed, Kinds
  PROVE  TypeOK
<1>1. timers \in Seq(Timers) /\ IsInjective(timers)
  BY DEF Typed, IsList, IsInjective
<1>2. call \in [Clients -> Calls]
  BY DEF Typed, GoodCalls
<1> QED BY <1>1, <1>2 DEF TypeOK, Typed, Kinds, Deltas

\* As long as no record that is not there has been used, every variable holds a value of
\* its kind and no timer is twice in the list, for any number of clients and of timers.
THEOREM TypeCorrect == Spec => [](NoFault => TypeOK)
<1>1. Inv /\ (NoFault => Sound) => (NoFault => TypeOK)
  BY SoundTypes DEF Inv, Sound
<1> QED BY <1>1, InvAlways, SoundAlways, PTL

(***************************************************************************)
(* No record is used that is not there                                     *)
(***************************************************************************)
\* No thread reschedules or changes a timer of another.  What callbacks do is free.
NoReschedule == Reschedulers = {} /\ Changers = {}

\* No call is where those of RescheduleTimerEx and ChangeTimerEx are.
Calm == \A c \in Clients : call[c].at \notin Marks

LEMMA InitCalm == Init => Calm
<1> SUFFICES ASSUME Init, NEW c \in Clients PROVE call[c].at \notin Marks
  BY DEF Calm
<1>1. call[c].at = "idle"
  BY DEF Init, NoCall
<1> QED BY <1>1 DEF Marks

LEMMA CalmStep ==
  ASSUME Typed, NoReschedule, Calm,
         Process \/ Callback \/ Tick
           \/ \E c \in Clients : Begin(c) \/ EnterChange(c) \/ Proceed(c)
  PROVE  Calm'
<1>1. CASE Process \/ Callback \/ Tick
  <2>1. call' = call
    BY <1>1 DEF Process, Top, WakeForever, TakeAdd, InsertAdded, TakeDel, RemoveScheduled,
         ReadTick, GrabDue, NoneDue, AdvanceTick, SetCurrent, Depart, MarkRemoved,
         CallbackReturn, Drain, Again, Free, PutBack, Pause, WakeUp, Callback, CallbackAdd,
         CallbackRemove, CallbackStop, CallbackReschedule, Tick
  <2> QED BY <2>1 DEF Calm
<1>2. ASSUME NEW c \in Clients, Begin(c) \/ EnterChange(c) \/ Proceed(c)
      PROVE  Calm'
  <2>1. PICK q : call' = [call EXCEPT ![c] = q] /\ q.at \notin Marks
    <3>1. CASE EnterChange(c) \/ Proceed(c)
      <4>1. PICK q : call' = [call EXCEPT ![c] = q] /\ SameCall(q, call[c])
        BY <3>1, CallOps
      <4> QED BY <4>1 DEF SameCall, Calm
    <3>2. CASE AddCall(c)
      <4>1. PICK t \in Timers :
              call' = [call EXCEPT ![c] = [NoCall EXCEPT !.at = "insert", !.op = "add", !.timer = t]]
        BY <3>2 DEF AddCall
      <4>2. [NoCall EXCEPT !.at = "insert", !.op = "add", !.timer = t].at = "insert"
        BY DEF NoCall
      <4> QED BY <4>1, <4>2 DEF Marks
    <3>3. CASE RemoveCall(c)
      <4>1. PICK t \in Removable :
              call' = [call EXCEPT ![c] = [NoCall EXCEPT !.at = "change", !.op = "remove",
                                                         !.timer = t]]
        BY <3>3 DEF RemoveCall
      <4>2. [NoCall EXCEPT !.at = "change", !.op = "remove", !.timer = t].at = "change"
        BY DEF NoCall
      <4> QED BY <4>1, <4>2 DEF Marks
    <3>4. CASE RescheduleCall(c) \/ ChangeCall(c)
      BY <3>4 DEF RescheduleCall, ChangeCall, NoReschedule
    <3> QED BY <1>2, <3>1, <3>2, <3>3, <3>4 DEF Begin
  <2>2. \A d \in Clients : call'[d] = IF d = c THEN q ELSE call[d]
    BY <2>1 DEF Typed
  <2> QED BY <2>1, <2>2 DEF Calm
<1> QED BY <1>1, <1>2

\* What is removed is in the list, or has been freed already.
LEMMA NoFaultStep ==
  ASSUME Typed, Where, Settling, Called, Calm, ~PendingRemoval, ~fault,
         Process \/ Callback \/ Tick
           \/ \E c \in Clients : Begin(c) \/ EnterChange(c) \/ Proceed(c)
  PROVE  ~fault'
<1>1. CASE RemoveScheduled
  <2>1. tpc = "removing" /\ fault' = (timer \in pool /\ ~Listed(timers, timer))
    BY <1>1 DEF RemoveScheduled, DoRemoveTimer
  <2>2. timer \notin Waiting
    BY <2>1 DEF Settling, Settled, Asked
  <2>3. InThread = {}
    BY <2>1 DEF InThread, Handling
  <2> QED BY <2>1, <2>2, <2>3, ListedIs DEF Waiting
<1>2. CASE CallbackRemove
  <2>1. PICK t \in Removable \ {CurrentTimerID} : DoRemoveTimer(t)
    BY <1>2 DEF CallbackRemove
  <2>2. fault' = (t \in pool /\ ~Listed(timers, t))
    BY <2>1 DEF DoRemoveTimer
  <2>3. t \notin Waiting
    BY RemovableSettled DEF Settled
  <2>4. tpc = "callback" /\ timer = CurrentTimerID
    BY <1>2 DEF CallbackRemove, Called
  <2>5. t \notin InThread
    BY <2>4 DEF InThread
  <2> QED BY <2>2, <2>3, <2>5, ListedIs DEF Waiting
<1>3. CASE (Process /\ ~RemoveScheduled) \/ (Callback /\ ~CallbackRemove) \/ Tick
  <2>1. fault' = fault
    BY <1>3 DEF Process, Top, WakeForever, TakeAdd, InsertAdded, TakeDel,
         ReadTick, GrabDue, NoneDue, AdvanceTick, SetCurrent, Depart, MarkRemoved,
         CallbackReturn, Drain, Again, Free, PutBack, Pause, WakeUp, Callback, CallbackAdd,
         CallbackStop, CallbackReschedule, Tick, seen
  <2> QED BY <2>1
<1>4. ASSUME NEW c \in Clients, Begin(c) \/ EnterChange(c) \/ Proceed(c)
      PROVE  ~fault'
  <2>1. ~(FindCurrent(c) \/ Mark(c) \/ MarkRescheduled(c) \/ Walk(c))
    BY DEF Calm, Marks, FindCurrent, Mark, MarkRescheduled, Walk
  <2>2. CASE Begin(c)
    BY <2>2 DEF Begin, AddCall, RemoveCall, RescheduleCall, ChangeCall, seen
  <2>3. CASE \/ EnterChange(c) \/ CheckAway(c) \/ ReadCount(c) \/ CountUp(c) \/ CountDown(c)
             \/ Recheck(c) \/ InsertAway(c) \/ SpinForSlot(c) \/ Put(c) \/ Schedule(c) \/ Wake(c)
    BY <2>3 DEF EnterChange, CheckAway, ReadCount, CountUp, CountDown, Recheck, InsertAway,
                SpinForSlot, Put, Schedule, Wake, seen
  <2> QED BY <1>4, <2>1, <2>2, <2>3 DEF Proceed
<1> QED BY <1>1, <1>2, <1>3, <1>4 DEF Process, Callback

LEMMA NextCalm == Inv /\ (NoReschedule => Calm) /\ [Next]_vars => (NoReschedule => Calm)'
<1> SUFFICES ASSUME Inv, NoReschedule, Calm, [Next]_vars PROVE Calm'
  BY DEF NoReschedule
<1>1. CASE UNCHANGED vars
  BY <1>1 DEF Calm, vars
<1>2. CASE Next
  <2>1. Typed
    BY <1>2 DEF Inv, NoFault, Next
  <2> QED BY <1>2, <2>1, CalmStep DEF Next
<1> QED BY <1>1, <1>2

LEMMA CalmAlways == Spec => [](NoReschedule => Calm)
<1>1. Init => (NoReschedule => Calm)
  BY InitCalm
<1> QED BY <1>1, NextCalm, InvAlways, PTL DEF Spec

\* When threads other than the timer thread only add and remove timers, and none removes
\* one before the timer thread has taken it, no record is used that has been freed, and no
\* link that is NULL; callbacks may do whatever they like.
THEOREM NoFaultAlways == Spec => [](NoReschedule /\ ~PendingRemoval => NoFault)
<1> DEFINE P == NoReschedule /\ ~PendingRemoval => NoFault
<1>1. Init => P
  BY DEF Init, NoFault
<1>2. Inv /\ (NoFault => Sound) /\ (NoReschedule => Calm) /\ P /\ [Next]_vars => P'
  <2> SUFFICES ASSUME Inv, NoFault => Sound, NoReschedule, Calm, ~PendingRemoval, NoFault,
                      [Next]_vars
               PROVE  NoFault'
    BY DEF NoReschedule
  <2>1. CASE UNCHANGED vars
    BY <2>1 DEF NoFault, vars, seen
  <2>2. CASE Next
    <3>1. Typed /\ Where /\ Settling /\ Called /\ ~fault
      BY DEF Inv, NoFault, Sound
    <3> QED BY <2>2, <3>1, NoFaultStep DEF Next, NoFault
  <2> QED BY <2>1, <2>2
<1> QED BY <1>1, <1>2, InvAlways, SoundAlways, CalmAlways, PTL DEF Spec

(***************************************************************************)
(* When the timers of the list are due                                     *)
(***************************************************************************)
\* The deltas of s add up to the times w, from base.
OnTime(s, d, base, w) == \A i \in 1..Len(s) : base + Offset(s, d, i) = w[s[i]]

\* The sums depend on the deltas of the list alone.
LEMMA SameOffsets ==
  ASSUME NEW s, IsList(s), NEW d \in Deltas, NEW e \in Deltas, \A u \in ToSet(s) : e[u] = d[u]
  PROVE  \A i \in 0..Len(s) : Offset(s, e, i) = Offset(s, d, i)
<1> DEFINE N == Len(s)
           g == [i \in 0..N |-> Offset(s, d, i)]
<1>1. s \in Seq(Timers) /\ N \in Nat /\ \A i \in 1..N : s[i] \in ToSet(s)
  BY DEF IsList, ToSet
<1>2. /\ Offset(s, d, 0) = 0
      /\ \A k \in 0..N : Offset(s, d, k) \in Int
      /\ \A k \in 1..N : Offset(s, d, k) = Offset(s, d, k - 1) + d[s[k]]
  BY <1>1, Offsets
<1> HIDE DEF N
<1>3. \A k \in 1..N : k - 1 \in 0..N /\ k \in 0..N
  BY <1>1
<1>4. g \in [0..N -> Int] /\ g[0] = 0 /\ \A k \in 1..N : g[k] = g[k - 1] + e[s[k]]
  <2>1. 0 \in 0..N
    BY <1>1
  <2> QED BY <1>1, <1>2, <1>3, <2>1
<1>5. \A k \in 0..N : g[k] = Offset(s, d, k)
  OBVIOUS
<1> HIDE DEF g
<1>6. \A k \in 0..N : Offset(s, e, k) = g[k]
  BY <1>1, <1>4, OffsetsAre DEF N
<1> QED BY <1>5, <1>6 DEF N

LEMMA SameOnTime ==
  ASSUME NEW s, IsList(s), NEW d \in Deltas, NEW e \in Deltas, \A u \in ToSet(s) : e[u] = d[u],
         NEW base, NEW w, NEW x, \A u \in ToSet(s) : x[u] = w[u], OnTime(s, d, base, w)
  PROVE  OnTime(s, e, base, x)
<1>1. \A i \in 0..Len(s) : Offset(s, e, i) = Offset(s, d, i)
  BY SameOffsets
<1>2. \A i \in 1..Len(s) : i \in 0..Len(s) /\ s[i] \in ToSet(s)
  BY DEF IsList, ToSet
<1> QED BY <1>1, <1>2 DEF OnTime

\* What is linked in at its time leaves the others at theirs.
LEMMA LinkOnTime ==
  ASSUME NEW s, IsList(s), NEW d \in Deltas, NEW t \in Timers, t \notin ToSet(s),
         NEW amount \in Int, NEW base \in Int, NEW w, NEW x,
         OnTime(s, d, base, w), x[t] = base + amount, \A u \in ToSet(s) : x[u] = w[u]
  PROVE  OnTime(Linked(s, d, t, amount).order, Linked(s, d, t, amount).delta, base, x)
<1> DEFINE p == Place(s, d, amount)
           l == Linked(s, d, t, amount)
           o == l.order
           e == l.delta
           n == Len(s)
<1>1. /\ p \in 1..(n + 1) /\ Len(o) = n + 1
      /\ \A i \in 1..(n + 1) : o[i] = IF i < p THEN s[i] ELSE IF i = p THEN t ELSE s[i - 1]
      /\ \A i \in 1..(n + 1) : Offset(o, e, i) = LinkedSum(s, d, p, amount, i)
  BY LinkedDue
<1>2. n \in Nat /\ \A i \in 1..n : s[i] \in ToSet(s)
  BY DEF IsList, ToSet
<1>3. \A i \in 1..n : base + Offset(s, d, i) = x[s[i]]
  BY <1>2 DEF OnTime
<1> HIDE DEF p, l, o, e, n
<1>4. ASSUME NEW i \in 1..(n + 1) PROVE base + Offset(o, e, i) = x[o[i]]
  <2>1. CASE i < p
    <3>1. i \in 1..n
      BY <1>1, <1>2, <2>1
    <3> QED BY <1>1, <1>3, <2>1, <3>1 DEF LinkedSum
  <2>2. CASE i = p
    <3>1. ~(i < p)
      BY <1>1, <2>2
    <3>2. Offset(o, e, i) = amount /\ o[i] = t
      BY <1>1, <2>2, <3>1 DEF LinkedSum
    <3> QED BY <3>2
  <2>3. CASE i > p
    <3>1. i - 1 \in 1..n /\ ~(i < p) /\ i # p
      BY <1>1, <1>2, <2>3
    <3>2. Offset(o, e, i) = Offset(s, d, i - 1) /\ o[i] = s[i - 1]
      BY <1>1, <3>1 DEF LinkedSum
    <3> QED BY <1>3, <3>1, <3>2
  <2> QED BY <1>1, <2>1, <2>2, <2>3
<1> QED BY <1>1, <1>4 DEF OnTime, o, e, l, n

\* So are they when one is taken out.
LEMMA UnlinkOnTime ==
  ASSUME NEW s, IsList(s), NEW d \in Deltas, NEW t \in ToSet(s), NEW base \in Int, NEW w,
         OnTime(s, d, base, w)
  PROVE  LET l == Unlinked(s, d, t, FALSE) IN l.delta \in Deltas /\ OnTime(l.order, l.delta, base, w)
<1> DEFINE l == Unlinked(s, d, t, FALSE)
           n == Len(s)
<1>1. PICK p \in 1..n : s[p] = t
  BY DEF IsList, ToSet
<1>2. TakenOut(s, d, p, FALSE)
  <2>1. FALSE \in BOOLEAN /\ (FALSE => p = 1)
    OBVIOUS
  <2> QED BY <2>1, UnlinkedDue, Zenon
<1>3. /\ Len(l.order) = n - 1 /\ l.delta \in Deltas
      /\ \A i \in 1..(n - 1) : l.order[i] = IF i < p THEN s[i] ELSE s[i + 1]
      /\ \A i \in 1..(n - 1) :
           Offset(l.order, l.delta, i) = IF i < p THEN Offset(s, d, i) ELSE Offset(s, d, i + 1) - 0
  BY <1>1, <1>2 DEF TakenOut
<1>4. n \in Nat /\ s \in Seq(Timers) /\ \A i \in 0..n : Offset(s, d, i) \in Int
  <2>1. s \in Seq(Timers)
    BY DEF IsList
  <2>2. n \in Nat
    BY <2>1
  <2>3. \A i \in 0..n : Offset(s, d, i) \in Int
    BY <2>1, Offsets, Zenon
  <2> QED BY <2>1, <2>2, <2>3
<1>5. \A i \in 1..n : base + Offset(s, d, i) = w[s[i]]
  BY DEF OnTime
<1> HIDE DEF l, n
<1>6. ASSUME NEW i \in 1..(n - 1) PROVE base + Offset(l.order, l.delta, i) = w[l.order[i]]
  <2>1. i \in 1..n /\ i + 1 \in 1..n /\ i \in 0..n /\ i + 1 \in 0..n
    BY <1>4
  <2>2. Offset(s, d, i + 1) - 0 = Offset(s, d, i + 1)
    BY <1>4, <2>1
  <2>3. CASE i < p
    BY <1>3, <1>5, <2>1, <2>3
  <2>4. CASE ~(i < p)
    BY <1>3, <1>5, <2>1, <2>2, <2>4
  <2> QED BY <2>3, <2>4
<1> QED BY <1>3, <1>6 DEF OnTime, l

\* When the first one is taken to be processed, its delta goes to the base.
LEMMA GrabOnTime ==
  ASSUME NEW s, IsList(s), s # <<>>, NEW d \in Deltas, NEW base \in Int, NEW w,
         OnTime(s, d, base, w)
  PROVE  LET l == Unlinked(s, d, s[1], TRUE) IN
         l.delta[s[1]] = d[s[1]] /\ OnTime(l.order, l.delta, base + d[s[1]], w)
<1> DEFINE l == Unlinked(s, d, s[1], TRUE)
           n == Len(s)
<1>1. 1 \in 1..n /\ n \in Nat /\ s \in Seq(Timers) /\ s[1] \in Timers
  BY DEF IsList
<1>2. TakenOut(s, d, 1, TRUE)
  <2>1. TRUE \in BOOLEAN /\ (TRUE => 1 = 1)
    OBVIOUS
  <2> QED BY <1>1, <2>1, UnlinkedDue, Zenon
<1>3. /\ Len(l.order) = n - 1 /\ l.delta[s[1]] = d[s[1]]
      /\ \A i \in 1..(n - 1) : l.order[i] = IF i < 1 THEN s[i] ELSE s[i + 1]
      /\ \A i \in 1..(n - 1) :
           Offset(l.order, l.delta, i) =
             IF i < 1 THEN Offset(s, d, i) ELSE Offset(s, d, i + 1) - d[s[1]]
  BY <1>2 DEF TakenOut
<1>4. (\A i \in 0..n : Offset(s, d, i) \in Int) /\ d[s[1]] \in Int
  BY <1>1, Offsets DEF Deltas
<1>5. \A i \in 1..n : base + Offset(s, d, i) = w[s[i]]
  BY DEF OnTime
<1> HIDE DEF l, n
<1>6. ASSUME NEW i \in 1..(n - 1) PROVE (base + d[s[1]]) + Offset(l.order, l.delta, i) = w[l.order[i]]
  <2>1. i + 1 \in 1..n /\ i + 1 \in 0..n /\ ~(i < 1)
    BY <1>1
  <2>2. Offset(l.order, l.delta, i) = Offset(s, d, i + 1) - d[s[1]] /\ l.order[i] = s[i + 1]
    BY <1>3, <2>1
  <2>3. base + Offset(s, d, i + 1) = w[s[i + 1]] /\ Offset(s, d, i + 1) \in Int
    BY <1>4, <1>5, <2>1
  <2> QED BY <1>4, <2>2, <2>3
<1> QED BY <1>3, <1>6 DEF OnTime, l

\* What the operations on the list do to the times.
LEMMA InsertOnTime ==
  ASSUME Typed, Kinds, NEW t \in Timers, t \notin ToSet(timers), DoInsertTimer(t),
         OnTime(timers, delta, last_tick, due)
  PROVE  /\ OnTime(timers', delta', last_tick, due')
         /\ \A u \in Timers : u # t => due'[u] = due[u]
<1> DEFINE a == delta[t] + (now - last_tick)
           l == Linked(timers, delta, t, a)
<1>0. IsList(timers) /\ delta \in Deltas /\ a \in Int /\ last_tick \in Int
  BY DEF Typed, Kinds, Deltas
<1>1. delta' = l.delta /\ timers' = l.order /\ due' = [due EXCEPT ![t] = now + delta[t]]
  BY DEF DoInsertTimer
<1>2. last_tick + a = now + delta[t]
  BY DEF Kinds, Deltas
<1>3. due'[t] = now + delta[t] /\ \A u \in Timers : u # t => due'[u] = due[u]
  BY <1>1 DEF Kinds
<1>4. \A u \in ToSet(timers) : due'[u] = due[u]
  BY <1>0, <1>3 DEF IsList, ToSet
<1> HIDE DEF a
<1>5. OnTime(l.order, l.delta, last_tick, due')
  BY <1>0, <1>2, <1>3, <1>4, LinkOnTime
<1> QED BY <1>1, <1>3, <1>5

LEMMA RegrabOnTime ==
  ASSUME Typed, Kinds, NEW t \in ToSet(timers), NEW d \in Nat, Regrab(t, d),
         OnTime(timers, delta, last_tick, due)
  PROVE  /\ OnTime(timers', delta', last_tick, due')
         /\ \A u \in Timers : u # t => due'[u] = due[u]
<1> DEFINE out == Unlinked(timers, delta, t, FALSE)
           a   == d + (now - last_tick)
           in  == Linked(out.order, out.delta, t, a)
<1>0. IsList(timers) /\ delta \in Deltas /\ a \in Int /\ last_tick \in Int /\ t \in Timers
  BY DEF Typed, Kinds, IsList, ToSet
<1>1. out.delta \in Deltas /\ OnTime(out.order, out.delta, last_tick, due)
  BY <1>0, UnlinkOnTime
<1>2. IsList(out.order) /\ ToSet(out.order) = ToSet(timers) \ {t}
  BY <1>0, UnlinkedOf, ZenonT(60)
<1>3. delta' = in.delta /\ timers' = in.order /\ due' = [due EXCEPT ![t] = now + d]
  BY DEF Regrab
<1>4. due'[t] = now + d /\ \A u \in Timers : u # t => due'[u] = due[u]
  BY <1>0, <1>3 DEF Kinds
<1>5. \A u \in ToSet(out.order) : due'[u] = due[u]
  <2>1. \A u \in ToSet(timers) : u \in Timers
    BY <1>0 DEF IsList, ToSet
  <2> HIDE DEF out
  <2> QED BY <1>2, <1>4, <2>1
<1>6. last_tick + a = now + d
  BY DEF Kinds
<1> HIDE DEF out, a
<1>7. OnTime(in.order, in.delta, last_tick, due')
  <2>1. t \notin ToSet(out.order) /\ due'[t] = last_tick + a
    BY <1>2, <1>4, <1>6
  <2> QED BY <1>0, <1>1, <1>2, <1>5, <2>1, LinkOnTime
<1> HIDE DEF in
<1> QED BY <1>3, <1>4, <1>7

LEMMA RemoveOnTime ==
  ASSUME Typed, Kinds, NEW t, DoRemoveTimer(t), OnTime(timers, delta, last_tick, due)
  PROVE  OnTime(timers', delta', last_tick, due)
<1>0. IsList(timers) /\ delta \in Deltas /\ last_tick \in Int
  BY DEF Typed, Kinds
<1>1. CASE Listed(timers, t)
  <2> DEFINE l == Unlinked(timers, delta, t, FALSE)
  <2>1. t \in ToSet(timers)
    BY <1>1, ListedIs
  <2>2. OnTime(l.order, l.delta, last_tick, due)
    BY <1>0, <2>1, UnlinkOnTime
  <2>3. delta' = l.delta /\ timers' = l.order
    BY <1>1 DEF DoRemoveTimer
  <2> HIDE DEF l
  <2> QED BY <2>2, <2>3
<1>2. CASE ~Listed(timers, t)
  BY <1>2 DEF DoRemoveTimer
<1> QED BY <1>1, <1>2

Base == last_tick + (IF tpc = "grabbed" THEN delta[timer] ELSE 0)

\* The sleep with no timer is one of an empty list.
Scheduled == OnSchedule /\ NeverEarly /\ (tpc = "forever" => timers = <<>>)

LEMMA ScheduleIs ==
  /\ OnSchedule <=> OnTime(timers, delta, Base, due)
  /\ OnSchedule' <=> OnTime(timers', delta', Base', due')
BY DEF OnSchedule, OnTime, Base

(***************************************************************************)
(* Steps of the clients                                                    *)
(***************************************************************************)
LEMMA ClientScheduled ==
  ASSUME Typed, OneHand, Where, Kinds, Ready, Calm, AwayInv, Scheduled, NoReschedule,
         NEW c \in Clients, Begin(c) \/ EnterChange(c) \/ Proceed(c)
  PROVE  Scheduled'
<1>1. CASE \/ CheckAway(c) \/ ReadCount(c) \/ CountUp(c) \/ CountDown(c) \/ Recheck(c)
           \/ EnterChange(c) \/ SpinForSlot(c) \/ Put(c) \/ Schedule(c) \/ Wake(c)
           \/ RemoveCall(c) \/ ChangeCall(c) \/ FindCurrent(c)
  <2>1. UNCHANGED <<clock, list, records, away_in_timer, current, place>>
    BY <1>1, QuietCalls
  <2> QED BY <2>1 DEF Scheduled, OnSchedule, NeverEarly, clock, list, place
<1>2. CASE AddCall(c)
  <2>1. PICK t \in Timers, d \in Delays : t \notin made /\ delta' = [delta EXCEPT ![t] = d]
    BY <1>2 DEF AddCall, Make
  <2>2. UNCHANGED <<clock, timers, last_tick, due, place>>
    BY <1>2 DEF AddCall
  <2>3. \A u \in Timers : u # t => delta'[u] = delta[u]
    BY <2>1 DEF Kinds, Deltas
  <2>4. IsList(timers) /\ delta \in Deltas /\ delta' \in Deltas
    BY <1>2, AddKinds DEF Typed, Kinds
  <2>5. \A u \in ToSet(timers) : u \in Timers /\ u # t
    BY <2>1 DEF Where, Apart, Typed
  <2>6. Base' = Base
    <3>1. tpc = "grabbed" => timer \in Timers /\ timer # t
      BY <2>1, Handled DEF Handling, Typed
    <3> QED BY <2>2, <2>3, <3>1 DEF Base, place
  <2>7. OnTime(timers, delta', Base, due)
    <3>1. OnTime(timers, delta, Base, due)
      BY ScheduleIs DEF Scheduled
    <3>2. \A u \in ToSet(timers) : delta'[u] = delta[u]
      BY <2>3, <2>5
    <3> QED BY <2>4, <3>1, <3>2, SameOnTime
  <2>8. OnSchedule'
    BY <2>2, <2>6, <2>7, ScheduleIs
  <2> QED BY <2>2, <2>8 DEF Scheduled, NeverEarly, clock, place
<1>3. CASE InsertAway(c)
  <2> DEFINE t == call[c].timer
  <2>1. /\ UNCHANGED <<clock, last_tick, place>>
        /\ DoInsertTimer(t) /\ call[c].at = "inserting"
    BY <1>3 DEF InsertAway
  <2>2. tpc \in {"callback", "stopping", "back"}
    BY <2>1 DEF AwayInv, AwayIsOver
  <2>3. t \in Timers /\ t \in InHand
    <3>1. call[c] \in GoodCalls
      BY DEF Typed
    <3>2. call[c].op = "add" /\ ~call[c].placed
      BY <2>1, <3>1 DEF GoodCalls
    <3> QED BY <3>1, <3>2 DEF GoodCalls, InHand, Hands, Holding
  <2>4. t \notin ToSet(timers)
    BY <2>3 DEF Where, Apart
  <2>5. timer \in Timers /\ timer # t
    BY <2>2, <2>3, Handled DEF Handling
  <2>6. Base = last_tick /\ Base' = last_tick
    <3>1. last_tick \in Int
      BY DEF Kinds
    <3> QED BY <2>1, <2>2, <3>1 DEF Base, place
  <2>7. OnTime(timers, delta, last_tick, due)
    BY <2>6, ScheduleIs DEF Scheduled
  <2> HIDE DEF t
  <2>8. OnTime(timers', delta', last_tick, due') /\ due'[timer] = due[timer]
    BY <2>1, <2>3, <2>4, <2>5, <2>7, InsertOnTime
  <2>9. OnSchedule'
    BY <2>6, <2>8, ScheduleIs
  <2> QED BY <2>1, <2>2, <2>8, <2>9 DEF Scheduled, NeverEarly, clock, place
<1>4. ~(RescheduleCall(c) \/ ChangeCall(c) \/ FindCurrent(c) \/ Mark(c) \/ MarkRescheduled(c)
        \/ Walk(c))
  BY DEF Calm, Marks, NoReschedule, RescheduleCall, ChangeCall, FindCurrent, Mark,
         MarkRescheduled, Walk
<1> QED BY <1>1, <1>2, <1>3, <1>4 DEF Begin, Proceed

(***************************************************************************)
(* Steps of the timer thread and of callbacks                              *)
(***************************************************************************)
LEMMA IdleScheduled ==
  ASSUME Typed, Where, Kinds, Scheduled,
         \/ Top \/ WakeForever \/ TakeAdd \/ TakeDel \/ ReadTick \/ NoneDue \/ AdvanceTick
         \/ SetCurrent \/ Depart \/ CallbackStop \/ MarkRemoved \/ CallbackReturn \/ Drain
         \/ Free \/ Pause \/ WakeUp \/ Tick
  PROVE  Scheduled'
<1>1. CASE WakeForever
  <2>1. timers' = <<>> /\ tpc' = "top"
    BY <1>1 DEF WakeForever, Scheduled
  <2> QED BY <2>1 DEF Scheduled, OnSchedule, NeverEarly, Dispatching
<1>2. CASE AdvanceTick
  <2>1. /\ tpc = "grabbed" /\ tpc' = "dispatching" /\ last_tick' = last_tick + delta[timer]
        /\ UNCHANGED <<clock, timers, delta, due, timer>>
    BY <1>2 DEF AdvanceTick
  <2>2. Base' = Base
    <3>1. Base = last_tick'
      BY <2>1 DEF Base
    <3>2. last_tick' \in Int
      <4>1. timer \in Timers
        BY <2>1, Handled DEF Handling
      <4> QED BY <2>1, <4>1 DEF Kinds, Deltas
    <3>3. Base' = last_tick'
      BY <2>1, <3>2 DEF Base
    <3> QED BY <3>1, <3>3
  <2>3. OnSchedule'
    BY <2>1, <2>2, ScheduleIs DEF Scheduled
  <2> QED BY <2>1, <2>3 DEF Scheduled, NeverEarly, Dispatching, clock
<1>3. CASE \/ Top \/ TakeAdd \/ TakeDel \/ ReadTick \/ NoneDue \/ Free \/ Pause \/ WakeUp
           \/ Tick
  <2>1. UNCHANGED <<timers, delta, last_tick, due>>
    BY <1>3 DEF Top, TakeAdd, TakeDel, ReadTick, NoneDue, Free, Pause, WakeUp, Tick, list
  <2>2. \/ tpc # "grabbed" /\ tpc' \notin Dispatching
        \/ UNCHANGED <<tpc, timer, newtick>>
    BY <1>3 DEF Top, TakeAdd, TakeDel, ReadTick, NoneDue, Free, Pause, WakeUp, Tick, clock, place,
                Dispatching
  <2>3. Base' = Base
    BY <2>1, <2>2 DEF Base, Dispatching
  <2>4. tpc' = "forever" => timers = <<>>
    BY <1>3 DEF Scheduled, Top, TakeAdd, TakeDel, ReadTick, NoneDue, Free, Pause, WakeUp, Tick, place
  <2>5. OnSchedule'
    BY <2>1, <2>3, ScheduleIs DEF Scheduled
  <2>6. NeverEarly'
    BY <2>1, <2>2 DEF Scheduled, NeverEarly
  <2> QED BY <2>1, <2>4, <2>5, <2>6 DEF Scheduled
<1>4. CASE SetCurrent \/ Depart \/ CallbackStop \/ MarkRemoved \/ CallbackReturn \/ Drain
  <2>1. /\ UNCHANGED <<timers, delta, last_tick, due, timer, newtick>>
        /\ tpc \in Dispatching /\ tpc # "grabbed" /\ tpc' # "grabbed" /\ tpc' # "forever"
    BY <1>4 DEF SetCurrent, Depart, CallbackStop, MarkRemoved, CallbackReturn, Drain, list, clock,
                Dispatching
  <2>2. Base' = Base
    BY <2>1 DEF Base
  <2>3. OnSchedule'
    BY <2>1, <2>2, ScheduleIs DEF Scheduled
  <2> QED BY <2>1, <2>3 DEF Scheduled, NeverEarly
<1> QED BY <1>1, <1>2, <1>3, <1>4

LEMMA AgainScheduled ==
  ASSUME Typed, Where, Kinds, Ready, Current, Scheduled, Again
  PROVE  Scheduled'
<1>1. /\ tpc = "again" /\ tpc' = "putting"
      /\ UNCHANGED <<timers, last_tick, due>>
      /\ \A u \in Timers : u # timer => delta'[u] = delta[u]
  BY DEF Again, Kinds, Deltas
<1>2. timer \notin ToSet(timers)
  BY <1>1, Handled DEF Handling
<1>3. \A u \in ToSet(timers) : delta'[u] = delta[u]
  BY <1>1, <1>2 DEF Typed, IsList, ToSet
<1>4. delta \in Deltas /\ delta' \in Deltas /\ IsList(timers)
  BY DispatchKinds DEF Kinds, Typed
<1>5. Base' = Base
  BY <1>1 DEF Base
<1>6. OnTime(timers, delta', Base, due)
  BY <1>3, <1>4, SameOnTime, ScheduleIs DEF Scheduled
<1>7. OnSchedule'
  BY <1>1, <1>5, <1>6, ScheduleIs
<1> QED BY <1>1, <1>7 DEF Scheduled, NeverEarly, Dispatching

LEMMA InsertedScheduled ==
  ASSUME Typed, Where, Kinds, Scheduled, InsertAdded \/ PutBack
  PROVE  Scheduled'
<1>1. /\ tpc \in {"inserting", "putting"} /\ tpc' \in {"deleting", "looking"}
      /\ last_tick' = last_tick /\ DoInsertTimer(timer)
  BY DEF InsertAdded, PutBack
<1>2. timer \in Timers /\ timer \notin ToSet(timers)
  BY <1>1, Handled DEF Handling
<1>3. Base = last_tick /\ Base' = last_tick
  <2>1. last_tick \in Int
    BY DEF Kinds
  <2> QED BY <1>1, <2>1 DEF Base
<1>4. OnTime(timers', delta', last_tick, due')
  BY <1>1, <1>2, <1>3, InsertOnTime, ScheduleIs DEF Scheduled
<1>5. OnSchedule'
  BY <1>3, <1>4, ScheduleIs
<1> QED BY <1>1, <1>5 DEF Scheduled, NeverEarly, Dispatching

LEMMA RemovedScheduled ==
  ASSUME Typed, Kinds, Scheduled, RemoveScheduled \/ CallbackRemove
  PROVE  Scheduled'
<1>1. /\ tpc \in {"removing", "callback"} /\ tpc' \in {"ticking", "callback"}
      /\ UNCHANGED <<clock, last_tick, due, timer>>
      /\ tpc' \in Dispatching => tpc \in Dispatching
      /\ \E t : DoRemoveTimer(t)
  <2>1. CASE RemoveScheduled
    BY <2>1 DEF RemoveScheduled, Dispatching
  <2>2. CASE CallbackRemove
    BY <2>2 DEF CallbackRemove, place
  <2> QED BY <2>1, <2>2
<1>2. Base = last_tick /\ Base' = last_tick
  <2>1. last_tick \in Int
    BY DEF Kinds
  <2> QED BY <1>1, <2>1 DEF Base
<1>3. OnTime(timers', delta', last_tick, due)
  BY <1>1, <1>2, RemoveOnTime, ScheduleIs DEF Scheduled
<1>4. OnSchedule'
  BY <1>1, <1>2, <1>3, ScheduleIs
<1> QED BY <1>1, <1>4 DEF Scheduled, NeverEarly, clock

LEMMA GrabScheduled ==
  ASSUME Typed, Kinds, Scheduled, GrabDue
  PROVE  Scheduled'
<1> DEFINE t == timers[1]
<1>1. /\ tpc = "looking" /\ tpc' = "grabbed" /\ newtick - last_tick >= delta[t]
      /\ UNCHANGED <<clock, last_tick, due>>
  BY DEF GrabDue, Due
<1>2. /\ timers # <<>> /\ 1 \in 1..Len(timers) /\ timer' = t /\ t \in Timers
      /\ timers' = Unlinked(timers, delta, t, TRUE).order
      /\ delta' = Unlinked(timers, delta, t, TRUE).delta
  BY Grabbed
<1>3. IsList(timers) /\ delta \in Deltas /\ last_tick \in Int /\ newtick \in Int /\ delta[t] \in Int
  BY <1>2 DEF Typed, Kinds, Deltas
<1>4. OnTime(timers, delta, last_tick, due)
  <2>1. Base = last_tick
    BY <1>1, <1>3 DEF Base
  <2> QED BY <2>1, ScheduleIs DEF Scheduled
<1>5. delta'[t] = delta[t] /\ OnTime(timers', delta', last_tick + delta[t], due)
  BY <1>2, <1>3, <1>4, GrabOnTime
<1>6. Base' = last_tick + delta[t]
  BY <1>1, <1>2, <1>5 DEF Base
<1>7. OnSchedule'
  BY <1>1, <1>5, <1>6, ScheduleIs
<1>8. due[t] = last_tick + delta[t]
  <2>1. Offset(timers, delta, 1) = delta[t]
    <3>1. /\ Offset(timers, delta, 0) = 0
          /\ \A k \in 1..Len(timers) :
               Offset(timers, delta, k) = Offset(timers, delta, k - 1) + delta[timers[k]]
      BY <1>3, Offsets DEF IsList
    <3>2. Offset(timers, delta, 1) = Offset(timers, delta, 1 - 1) + delta[t]
      BY <1>2, <3>1
    <3> QED BY <1>3, <3>1, <3>2
  <2> QED BY <1>2, <1>4, <2>1 DEF OnTime
<1> HIDE DEF t
<1>9. NeverEarly'
  <2>1. due'[timer'] = last_tick + delta[t] /\ newtick' = newtick
    BY <1>1, <1>2, <1>8 DEF clock
  <2> QED BY <1>1, <1>3, <2>1 DEF NeverEarly
<1> QED BY <1>1, <1>7, <1>9 DEF Scheduled

LEMMA CallbackScheduled ==
  ASSUME Typed, Where, Kinds, Ready, Current, Scheduled, CallbackAdd \/ CallbackReschedule
  PROVE  Scheduled'
<1>1. tpc = "callback" /\ UNCHANGED <<clock, last_tick, place>>
  BY DEF CallbackAdd, CallbackReschedule
<1>2. Base = last_tick /\ Base' = last_tick
  <2>1. last_tick \in Int
    BY DEF Kinds
  <2> QED BY <1>1, <2>1 DEF Base, place
<1>3. OnTime(timers, delta, last_tick, due)
  BY <1>2, ScheduleIs DEF Scheduled
<1>4. /\ timer \in Timers /\ timer \in pool /\ timer \notin ToSet(timers)
      /\ current_timer = timer
  BY <1>1, Handled DEF Handling, Current
<1>5. OnTime(timers', delta', last_tick, due') /\ due'[timer] = due[timer]
  <2>1. CASE CallbackAdd
    <3>1. PICK t \in Timers, d \in Delays, f \in Frequencies :
            LET l == Linked(timers, delta, t, d + (now - last_tick)) IN
            /\ Make(t, d, f) /\ timers' = l.order /\ delta' = l.delta
            /\ due' = [due EXCEPT ![t] = now + d]
      BY <2>1 DEF CallbackAdd
    <3> DEFINE a == d + (now - last_tick)
               l == Linked(timers, delta, t, a)
    <3>2. timers' = l.order /\ delta' = l.delta
      BY <3>1
    <3>3. a \in Int /\ last_tick + a = now + d /\ last_tick \in Int
      BY NumbersAssumption DEF Kinds
    <3> HIDE DEF a
    <3>4. t \notin made /\ t \notin ToSet(timers) /\ t # timer
      BY <1>4, <3>1 DEF Make, Typed, Where, Apart
    <3>5. due'[t] = now + d /\ \A u \in Timers : u # t => due'[u] = due[u]
      BY <3>1 DEF Kinds
    <3>6. IsList(timers) /\ delta \in Deltas /\ \A u \in ToSet(timers) : due'[u] = due[u]
      BY <3>4, <3>5 DEF Typed, Kinds, IsList, ToSet
    <3>7. OnTime(l.order, l.delta, last_tick, due')
      BY <1>3, <3>3, <3>4, <3>5, <3>6, LinkOnTime
    <3> HIDE DEF l
    <3> QED BY <1>4, <3>2, <3>4, <3>5, <3>7
  <2>2. CASE CallbackReschedule
    <3>1. PICK d \in Delays :
            \/ \E t \in ToSet(timers) : Regrab(t, d)
            \/ delta' = [delta EXCEPT ![timer] = d] /\ UNCHANGED <<timers, due>>
      BY <1>4, <2>2 DEF CallbackReschedule
    <3>2. d \in Nat
      BY NumbersAssumption
    <3>3. CASE \E t \in ToSet(timers) : Regrab(t, d)
      <4>1. PICK t \in ToSet(timers) : Regrab(t, d)
        BY <3>3
      <4>2. t # timer
        BY <1>4
      <4> QED BY <1>3, <1>4, <3>2, <4>1, <4>2, RegrabOnTime
    <3>4. CASE delta' = [delta EXCEPT ![timer] = d] /\ UNCHANGED <<timers, due>>
      <4>1. IsList(timers) /\ delta \in Deltas
        BY DEF Typed, Kinds
      <4>2. delta' \in Deltas /\ \A u \in Timers : u # timer => delta'[u] = delta[u]
        BY <1>4, <3>2, <3>4, <4>1 DEF Deltas
      <4>3. \A u \in ToSet(timers) : delta'[u] = delta[u]
        BY <1>4, <4>1, <4>2 DEF IsList, ToSet
      <4>4. OnTime(timers, delta', last_tick, due)
        BY <1>3, <4>1, <4>2, <4>3, SameOnTime
      <4> QED BY <3>4, <4>4
    <3> QED BY <3>1, <3>3, <3>4
  <2> QED BY <2>1, <2>2
<1>6. OnSchedule'
  BY <1>2, <1>5, ScheduleIs
<1> QED BY <1>1, <1>5, <1>6 DEF Scheduled, NeverEarly, clock, place

\* What OnSchedule and NeverEarly hold under: one thread that adds timers, so that none is
\* put into the list between GrabDue and AdvanceTick, and no thread but the timer thread
\* that moves or changes one.
Regular == OneAdder /\ NoReschedule

LEMMA InitScheduled == Init => Scheduled
<1> SUFFICES ASSUME Init PROVE Scheduled
  OBVIOUS
<1>1. tpc = "top"
  BY DEF Init
<1> DEFINE r == Resident
<1>2. timers = r /\ last_tick = 0 /\ r \in Seq(Timers) /\ made = ToSet(r)
  BY SetsAssumption DEF Init
<1>3. PICK d \in Delays :
        /\ delta = [t \in Timers |-> IF timers # <<>> /\ t = timers[1] THEN d ELSE 0]
        /\ due = [t \in Timers |-> IF t \in made THEN d ELSE 0]
  BY DEF Init
<1>4. d \in Nat /\ IsList(timers)
  <2>1. IsList(r)
    BY SetsAssumption DEF IsInjective, IsList
  <2> QED BY <1>2, <2>1, NumbersAssumption
<1> DEFINE N == Len(timers)
           g == [i \in 0..N |-> IF i = 0 THEN 0 ELSE d]
<1>5. N \in Nat /\ \A i \in 1..N : timers[i] \in Timers /\ timers[i] \in made
  BY <1>2 DEF ToSet
<1>6. delta \in Deltas
  BY <1>3, <1>4 DEF Deltas
<1>7. \A i \in 1..N : delta[timers[i]] = IF i = 1 THEN d ELSE 0
  <2> TAKE i \in 1..N
  <2>1. timers # <<>> /\ 1 \in 1..N /\ (timers[i] = timers[1] => i = 1)
    BY <1>4, <1>5 DEF IsList
  <2> HIDE DEF N
  <2> QED BY <1>3, <1>5, <2>1
<1> HIDE DEF N
<1>8. g \in [0..N -> Int] /\ g[0] = 0 /\ \A k \in 1..N : g[k] = g[k - 1] + delta[timers[k]]
  <2>1. \A k \in 1..N : k \in 0..N /\ k - 1 \in 0..N /\ k # 0
    BY <1>5
  <2>2. \A k \in 1..N : g[k] = d /\ g[k - 1] = IF k = 1 THEN 0 ELSE d
    BY <2>1, <1>5
  <2>3. g \in [0..N -> Int] /\ g[0] = 0
    BY <1>4, <1>5
  <2> HIDE DEF g
  <2> QED BY <1>4, <1>7, <2>2, <2>3
<1>9. \A k \in 0..N : Offset(timers, delta, k) = g[k]
  <2> HIDE DEF g
  <2> QED BY <1>2, <1>6, <1>8, OffsetsAre DEF N
<1>10. ASSUME NEW i \in 1..N PROVE Base + Offset(timers, delta, i) = due[timers[i]]
  <2>1. Offset(timers, delta, i) = d
    BY <1>5, <1>9
  <2>2. due[timers[i]] = d
    BY <1>3, <1>5
  <2>3. Base = 0
    BY <1>1, <1>2 DEF Base
  <2> QED BY <1>4, <2>1, <2>2, <2>3
<1>11. OnSchedule
  BY <1>10, ScheduleIs DEF OnTime, N
<1> QED BY <1>1, <1>11 DEF Scheduled, NeverEarly, Dispatching

LEMMA StepScheduled ==
  ASSUME Inv, ~fault, Sound, Calm, AwayInv, NoReschedule, Scheduled,
         Process \/ Callback \/ Tick
           \/ \E c \in Clients : Begin(c) \/ EnterChange(c) \/ Proceed(c)
  PROVE  Scheduled'
<1>0. Typed /\ OneHand /\ Where /\ Current /\ Kinds /\ Ready
  BY DEF Inv, NoFault, Sound
<1>1. CASE Process
  <2>1. CASE \/ Top \/ WakeForever \/ TakeAdd \/ TakeDel \/ ReadTick \/ NoneDue \/ AdvanceTick
             \/ SetCurrent \/ Depart \/ MarkRemoved \/ CallbackReturn \/ Drain
             \/ Free \/ Pause \/ WakeUp
    BY <1>0, <2>1, IdleScheduled
  <2>2. CASE Again \/ InsertAdded \/ PutBack \/ RemoveScheduled \/ GrabDue
    BY <1>0, <2>2, AgainScheduled, InsertedScheduled, RemovedScheduled, GrabScheduled
  <2> QED BY <1>1, <2>1, <2>2 DEF Process
<1>2. CASE Callback
  BY <1>0, <1>2, IdleScheduled, RemovedScheduled, CallbackScheduled DEF Callback
<1>3. CASE Tick
  BY <1>0, <1>3, IdleScheduled
<1>4. ASSUME NEW c \in Clients, Begin(c) \/ EnterChange(c) \/ Proceed(c)
      PROVE  Scheduled'
  BY <1>0, <1>4, ClientScheduled
<1> QED BY <1>1, <1>2, <1>3, <1>4

LEMMA ScheduledAlways == Spec => [](Regular /\ NoFault => Scheduled)
<1> DEFINE P == Regular /\ NoFault => Scheduled
           Q == OneAdder => AwayInv
           S == NoFault => Sound
           C == NoReschedule => Calm
<1>1. Init => P
  BY InitScheduled
<1>2. Inv /\ S /\ C /\ Q /\ P /\ [Next]_vars => P'
  <2> SUFFICES ASSUME Inv, S, C, Q, P, Regular, NoFault', [Next]_vars
               PROVE  Scheduled'
    BY DEF Regular, OneAdder, NoReschedule
  <2>1. CASE UNCHANGED vars
    <3>1. NoFault
      BY <2>1 DEF NoFault, vars, seen
    <3> QED BY <2>1, <3>1 DEF Scheduled, OnSchedule, NeverEarly, vars, clock, list, place, seen
  <2>2. CASE Next
    <3>1. Inv /\ ~fault /\ Sound /\ Calm /\ AwayInv /\ NoReschedule /\ Scheduled
      BY <2>2 DEF Next, NoFault, Regular
    <3> QED BY <2>2, <3>1, StepScheduled DEF Next
  <2> QED BY <2>1, <2>2
<1> QED BY <1>1, <1>2, AwayAlways, InvAlways, SoundAlways, CalmAlways, PTL DEF Spec

\* With one thread that adds timers and none that reschedules or changes them, the deltas
\* of the list add up to the times the timers are to run, however many there are, whatever
\* callbacks do, and between any two steps of the timer thread.
THEOREM OnScheduleAlways == Spec => [](Regular /\ NoFault => OnSchedule)
BY ScheduledAlways, PTL DEF Scheduled

\* And none is called back before its time.
THEOREM NeverEarlyAlways == Spec => [](Regular /\ NoFault => NeverEarly)
BY ScheduledAlways, PTL DEF Scheduled

(***************************************************************************)
(* The sleep                                                               *)
(***************************************************************************)
\* It pauses for the first timer, which was not due at the tick it has read, and sleeps
\* beyond the time of it by no more than that tick was old.
Paced ==
  /\ tpc = "pausing" => /\ timers # <<>> /\ timer = timers[1]
                        /\ newtick - last_tick < delta[timer]
  /\ tpc = "asleep" => timers # <<>> /\ wakeAt <= due[timers[1]] + behind

LEMMA ClientPaced ==
  ASSUME Typed, Where, Kinds, Calm, AwayInv, NoReschedule, Paced,
         NEW c \in Clients, Begin(c) \/ EnterChange(c) \/ Proceed(c)
  PROVE  Paced'
<1>1. CASE \/ CheckAway(c) \/ ReadCount(c) \/ CountUp(c) \/ CountDown(c) \/ Recheck(c)
           \/ EnterChange(c) \/ SpinForSlot(c) \/ Put(c) \/ Schedule(c) \/ Wake(c)
           \/ RemoveCall(c) \/ ChangeCall(c) \/ FindCurrent(c)
  <2>1. UNCHANGED <<clock, list, records, away_in_timer, current, place>>
    BY <1>1, QuietCalls
  <2> QED BY <2>1 DEF Paced, clock, list, place
<1>2. CASE AddCall(c)
  <2>1. PICK t \in Timers, d \in Delays : t \notin made /\ delta' = [delta EXCEPT ![t] = d]
    BY <1>2 DEF AddCall, Make
  <2>2. UNCHANGED <<clock, timers, last_tick, due, place>>
    BY <1>2 DEF AddCall
  <2>3. \A u \in Timers : u # t => delta'[u] = delta[u]
    BY <2>1 DEF Kinds, Deltas
  <2>4. timers # <<>> => timers[1] \in Timers /\ timers[1] # t
    <3>1. timers # <<>> => timers[1] \in ToSet(timers)
      BY DEF Typed, IsList, ToSet
    <3> QED BY <2>1, <3>1 DEF Where, Apart, Typed
  <2>5. tpc = "pausing" => delta'[timer] = delta[timer]
    BY <2>3, <2>4 DEF Paced
  <2> QED BY <2>2, <2>5 DEF Paced, clock, place
<1>3. CASE InsertAway(c)
  <2>1. UNCHANGED <<clock, place>> /\ call[c].at = "inserting"
    BY <1>3 DEF InsertAway
  <2>2. tpc \in {"callback", "stopping", "back"}
    BY <2>1 DEF AwayInv, AwayIsOver
  <2> QED BY <2>1, <2>2 DEF Paced, clock, place
<1>4. ~(RescheduleCall(c) \/ ChangeCall(c) \/ FindCurrent(c) \/ Mark(c) \/ MarkRescheduled(c)
        \/ Walk(c))
  BY DEF Calm, Marks, NoReschedule, RescheduleCall, ChangeCall, FindCurrent, Mark,
         MarkRescheduled, Walk
<1> QED BY <1>1, <1>2, <1>3, <1>4 DEF Begin, Proceed

LEMMA ThreadPaced ==
  ASSUME Typed, Kinds, Scheduled, Paced, Process \/ Callback \/ Tick
  PROVE  Paced'
<1>1. CASE ReadTick
  BY <1>1 DEF Paced, ReadTick
<1>2. CASE NoneDue
  <2>1. timers # <<>> => timers[1] \in Timers
    BY DEF Typed, IsList
  <2>2. timers # <<>> => delta[timers[1]] \in Int /\ newtick \in Int /\ last_tick \in Int
    BY <2>1 DEF Kinds, Deltas
  <2>3. /\ tpc = "looking" /\ ~Due
        /\ timer' = (IF timers = <<>> THEN None ELSE timers[1])
        /\ tpc' = IF timers = <<>> THEN "top" ELSE "pausing"
        /\ UNCHANGED <<clock, list>>
    BY <1>2 DEF NoneDue
  <2>4. timers # <<>> => newtick - last_tick < delta[timers[1]]
    BY <2>2, <2>3 DEF Due
  <2>5. /\ newtick' = newtick /\ timers' = timers
        /\ last_tick' = last_tick /\ delta' = delta
    BY <2>3 DEF clock, list
  <2> QED BY <2>3, <2>4, <2>5 DEF Paced
<1>3. CASE Pause
  <2> DEFINE w == delta[timer] - (newtick - last_tick)
  <2>1. /\ tpc = "pausing" /\ wakeAt' = now + (IF w < 0 THEN 1 ELSE w)
        /\ tpc' = IF w = 0 THEN "top" ELSE "asleep"
        /\ behind' = now - newtick /\ UNCHANGED list
    BY <1>3 DEF Pause
  <2>2. timers # <<>> /\ timer = timers[1] /\ newtick - last_tick < delta[timer]
    BY <2>1 DEF Paced
  <2>3. timer \in Timers /\ delta[timer] \in Int /\ now \in Int /\ newtick \in Int
        /\ last_tick \in Int /\ 1 \in 1..Len(timers)
    BY <2>1, <2>2 DEF Kinds, Deltas, Typed, IsList
  <2>4. w > 0 /\ now + w = (last_tick + delta[timer]) + (now - newtick)
    BY <2>2, <2>3
  <2>5. due[timer] = last_tick + delta[timer]
    <3>1. OnTime(timers, delta, Base, due)
      BY ScheduleIs DEF Scheduled
    <3>2. Base = last_tick
      BY <2>1, <2>3 DEF Base
    <3>3. Offset(timers, delta, 1) = delta[timer]
      <4>1. timers \in Seq(Timers) /\ delta \in Deltas
        BY DEF Typed, IsList, Kinds
      <4>2. /\ Offset(timers, delta, 0) = 0
            /\ \A k \in 1..Len(timers) :
                 Offset(timers, delta, k) = Offset(timers, delta, k - 1) + delta[timers[k]]
        BY <4>1, Offsets
      <4>3. Offset(timers, delta, 1) = Offset(timers, delta, 1 - 1) + delta[timers[1]]
        BY <2>3, <4>2
      <4> QED BY <2>2, <2>3, <4>2, <4>3
    <3> QED BY <2>2, <2>3, <3>1, <3>2, <3>3 DEF OnTime
  <2> HIDE DEF w
  <2>6. wakeAt' = due[timer] + behind' /\ tpc' = "asleep"
    <3>1. ~(w < 0) /\ w # 0
      BY <2>2, <2>3, <2>4 DEF w
    <3> QED BY <2>1, <2>4, <2>5, <3>1
  <2>7. wakeAt' <= due[timers[1]] + behind'
    <3>1. due[timer] \in Nat /\ behind' \in Int
      BY <2>1, <2>3 DEF Kinds
    <3> QED BY <2>2, <2>6, <3>1
  <2> QED BY <2>1, <2>2, <2>6, <2>7 DEF Paced, list
<1>4. CASE Tick
  <2>1. UNCHANGED <<newtick, wakeAt, behind, list, place>>
    BY <1>4 DEF Tick
  <2> QED BY <2>1 DEF Paced, list, place
<1>5. CASE Top \/ WakeForever \/ TakeAdd \/ InsertAdded \/ TakeDel \/ RemoveScheduled \/ WakeUp
  <2>1. tpc' # "pausing" /\ tpc' # "asleep"
    BY <1>5 DEF Top, WakeForever, TakeAdd, InsertAdded, TakeDel, RemoveScheduled, WakeUp
  <2> QED BY <2>1 DEF Paced
<1>6. CASE \/ GrabDue \/ AdvanceTick \/ SetCurrent \/ Depart \/ MarkRemoved \/ CallbackReturn
           \/ Drain \/ Again \/ Free \/ PutBack \/ Callback
  <2>1. tpc' # "pausing" /\ tpc' # "asleep"
    <3>1. CASE \/ GrabDue \/ AdvanceTick \/ SetCurrent \/ Depart \/ MarkRemoved \/ CallbackReturn
               \/ Drain
      BY <3>1 DEF GrabDue, AdvanceTick, SetCurrent, Depart, MarkRemoved, CallbackReturn, Drain
    <3>2. CASE Again \/ Free \/ PutBack
      BY <3>2 DEF Again, Free, PutBack
    <3>3. CASE Callback
      BY <3>3 DEF Callback, CallbackAdd, CallbackRemove, CallbackStop, CallbackReschedule,
                  place
    <3> QED BY <1>6, <3>1, <3>2, <3>3
  <2> QED BY <2>1 DEF Paced
<1> QED BY <1>1, <1>2, <1>3, <1>4, <1>5, <1>6 DEF Process

\* With one thread that adds timers and none that reschedules or changes them, wherever
\* time passes - in callbacks, or between any two steps of the timer thread - it sleeps
\* beyond the time its first timer is to run by no more than its tick was old when the
\* sleep was computed, if it is not about to be woken.
THEOREM BoundedOversleepAlways == Spec => [](Regular /\ NoFault => BoundedOversleep)
<1> DEFINE P == Regular /\ NoFault => Paced
           Q == OneAdder => AwayInv
           S == NoFault => Sound
           C == NoReschedule => Calm
           T == Regular /\ NoFault => Scheduled
<1>1. Init => P
  <2>1. Init => tpc = "top"
    BY DEF Init
  <2> QED BY <2>1 DEF Paced
<1>2. Inv /\ S /\ C /\ Q /\ T /\ P /\ [Next]_vars => P'
  <2> SUFFICES ASSUME Inv, S, C, Q, T, P, Regular, NoFault', [Next]_vars
               PROVE  Paced'
    BY DEF Regular, OneAdder, NoReschedule
  <2>1. CASE UNCHANGED vars
    <3>1. NoFault
      BY <2>1 DEF NoFault, vars, seen
    <3> QED BY <2>1, <3>1 DEF Paced, vars, clock, list, place, seen
  <2>2. CASE Next
    <3>1. NoFault /\ NoReschedule /\ OneAdder
      BY <2>2 DEF Next, NoFault, Regular
    <3>2. Typed /\ Where /\ Kinds /\ Calm /\ AwayInv /\ Scheduled /\ Paced
      BY <3>1 DEF Inv, Sound
    <3> QED BY <2>2, <3>1, <3>2, ClientPaced, ThreadPaced DEF Next
  <2> QED BY <2>1, <2>2
<1>3. P => (Regular /\ NoFault => BoundedOversleep)
  BY DEF Paced, BoundedOversleep
<1> QED BY <1>1, <1>2, <1>3, AwayAlways, InvAlways, SoundAlways, CalmAlways,
           ScheduledAlways, PTL DEF Spec

(***************************************************************************)
(* Timers that have been removed                                           *)
(***************************************************************************)
\* Threads other than the timer thread only add timers.  What callbacks do is free.
OnlyAdding == Removers = {} /\ NoReschedule

\* A timer whose RemoveTimer has returned is freed, or is the one that is called back, or
\* has been, and is marked.
StoppedKept ==
  \A t \in stopped :
    \/ t \notin pool
    \/ tpc \in {"callback", "stopping", "back", "again"} /\ timer = t /\ flags[t].removed

NoRemoval == \A c \in Clients : call[c].op # "remove"

StopInv == NoRemoval /\ StoppedKept

LEMMA RemovalStep ==
  ASSUME Typed, OnlyAdding, NoRemoval,
         Process \/ Callback \/ Tick
           \/ \E c \in Clients : Begin(c) \/ EnterChange(c) \/ Proceed(c)
  PROVE  NoRemoval'
<1>1. CASE Process \/ Callback \/ Tick
  <2>1. call' = call
    BY <1>1 DEF Process, Top, WakeForever, TakeAdd, InsertAdded, TakeDel, RemoveScheduled,
         ReadTick, GrabDue, NoneDue, AdvanceTick, SetCurrent, Depart, MarkRemoved,
         CallbackReturn, Drain, Again, Free, PutBack, Pause, WakeUp, Callback, CallbackAdd,
         CallbackRemove, CallbackStop, CallbackReschedule, Tick
  <2> QED BY <2>1 DEF NoRemoval
<1>2. ASSUME NEW c \in Clients, Begin(c) \/ EnterChange(c) \/ Proceed(c)
      PROVE  NoRemoval'
  <2>1. PICK q : call' = [call EXCEPT ![c] = q] /\ q.op # "remove"
    <3>1. CASE EnterChange(c) \/ Proceed(c)
      <4>1. PICK q : call' = [call EXCEPT ![c] = q] /\ SameCall(q, call[c])
        BY <3>1, CallOps
      <4> QED BY <4>1 DEF SameCall, NoRemoval
    <3>2. CASE AddCall(c)
      <4>1. PICK t \in Timers :
              call' = [call EXCEPT ![c] = [NoCall EXCEPT !.at = "insert", !.op = "add", !.timer = t]]
        BY <3>2 DEF AddCall
      <4>2. [NoCall EXCEPT !.at = "insert", !.op = "add", !.timer = t].op = "add"
        BY DEF NoCall
      <4> QED BY <4>1, <4>2
    <3>3. ~(RemoveCall(c) \/ RescheduleCall(c) \/ ChangeCall(c))
      BY DEF RemoveCall, RescheduleCall, ChangeCall, OnlyAdding, NoReschedule
    <3> QED BY <1>2, <3>1, <3>2, <3>3 DEF Begin
  <2>2. \A d \in Clients : call'[d] = IF d = c THEN q ELSE call[d]
    BY <2>1 DEF Typed
  <2> QED BY <2>1, <2>2 DEF NoRemoval
<1> QED BY <1>1, <1>2

\* The step of a client frees no timer, marks none and says of none that it has been removed.
LEMMA ClientStops ==
  ASSUME Typed, Kinds, Calm, OnlyAdding, NoRemoval, StoppedKept,
         NEW c \in Clients, Begin(c) \/ EnterChange(c) \/ Proceed(c)
  PROVE  StoppedKept'
<1>0. stopped \subseteq made /\ flags \in [Timers -> Flags] /\ made \subseteq Timers
  BY DEF Kinds, Typed
<1>1. ~(FindCurrent(c) \/ Mark(c) \/ MarkRescheduled(c) \/ Walk(c))
  BY DEF Calm, Marks, FindCurrent, Mark, MarkRescheduled, Walk
<1>2. ~(RemoveCall(c) \/ RescheduleCall(c) \/ ChangeCall(c))
  BY DEF RemoveCall, RescheduleCall, ChangeCall, OnlyAdding, NoReschedule
<1>3. CASE AddCall(c)
  <2>1. PICK t \in Timers : t \notin made /\ pool' = pool \cup {t} /\ flags' = [flags EXCEPT ![t] = NoFlags]
    BY <1>3 DEF AddCall, Make
  <2>2. stopped' = stopped /\ tpc' = tpc /\ timer' = timer
    BY <1>3 DEF AddCall, place, seen
  <2>3. \A s \in stopped : flags'[s] = flags[s] /\ (s \notin pool => s \notin pool')
    BY <1>0, <2>1
  <2> QED BY <2>2, <2>3 DEF StoppedKept
<1>4. CASE Wake(c)
  <2>1. call[c].op # "remove"
    BY DEF NoRemoval
  <2>2. stopped' = stopped /\ tpc' = tpc /\ timer' = timer /\ pool' = pool /\ flags' = flags
    BY <1>4, <2>1 DEF Wake, place, records
  <2> QED BY <2>2 DEF StoppedKept
<1>5. CASE \/ EnterChange(c) \/ CheckAway(c) \/ ReadCount(c) \/ CountUp(c) \/ CountDown(c)
           \/ Recheck(c) \/ InsertAway(c) \/ SpinForSlot(c) \/ Put(c) \/ Schedule(c)
  <2>1. stopped' = stopped /\ tpc' = tpc /\ timer' = timer /\ pool' = pool /\ flags' = flags
    BY <1>5 DEF EnterChange, CheckAway, ReadCount, CountUp, CountDown, Recheck, InsertAway,
                SpinForSlot, Put, Schedule, place, records, seen
  <2> QED BY <2>1 DEF StoppedKept
<1> QED BY <1>1, <1>2, <1>3, <1>4, <1>5 DEF Begin, Proceed

\* What callbacks remove is freed, or marked and then freed instead of put back.
LEMMA ThreadStops ==
  ASSUME Typed, Kinds, Current, StoppedKept, Process \/ Callback \/ Tick
  PROVE  StoppedKept'
<1>0. /\ stopped \subseteq made /\ flags \in [Timers -> Flags] /\ word \in Flags
      /\ made \subseteq Timers
  BY DEF Kinds, Typed
<1>1. CASE CallbackAdd
  <2>1. PICK t \in Timers : t \notin made /\ pool' = pool \cup {t} /\ flags' = [flags EXCEPT ![t] = NoFlags]
    BY <1>1 DEF CallbackAdd, Make
  <2>2. stopped' = stopped /\ tpc' = tpc /\ timer' = timer
    BY <1>1 DEF CallbackAdd, place, seen
  <2>3. \A s \in stopped : flags'[s] = flags[s] /\ (s \notin pool => s \notin pool')
    BY <1>0, <2>1
  <2> QED BY <2>2, <2>3 DEF StoppedKept
<1>2. CASE CallbackRemove
  <2>1. PICK t \in Removable : DoRemoveTimer(t) /\ stopped' = stopped \cup {t}
    BY <1>2 DEF CallbackRemove
  <2>2. pool' = pool \ {t}
    BY <2>1 DEF DoRemoveTimer
  <2>3. tpc' = tpc /\ timer' = timer /\ flags' = flags
    BY <1>2 DEF CallbackRemove, place
  <2> QED BY <2>1, <2>2, <2>3 DEF StoppedKept
<1>3. CASE RemoveScheduled
  <2>1. pool' \subseteq pool /\ stopped' = stopped /\ tpc = "removing"
    BY <1>3 DEF RemoveScheduled, DoRemoveTimer
  <2> QED BY <2>1 DEF StoppedKept
<1>4. CASE MarkRemoved
  <2>1. /\ flags' = [flags EXCEPT ![current_timer] = [word EXCEPT !.removed = TRUE]]
        /\ stopped' = stopped \cup {current_timer} /\ tpc' = "callback" /\ tpc = "stopping"
        /\ timer' = timer /\ pool' = pool /\ current_timer = timer
    BY <1>4 DEF MarkRemoved, Current
  <2>2. ASSUME NEW t \in stopped', t \in pool' PROVE t = timer /\ t \in Timers
    <3>1. t \in stopped => t = timer
      BY <2>1, <2>2 DEF StoppedKept
    <3>2. pool \subseteq Timers
      BY DEF Typed
    <3> QED BY <2>1, <2>2, <3>1, <3>2
  <2>3. timer \in Timers => flags'[timer].removed
    BY <1>0, <2>1 DEF Flags
  <2> QED BY <2>1, <2>2, <2>3 DEF StoppedKept
<1>5. CASE CallbackReschedule
  <2>1. stopped' = stopped /\ tpc' = tpc /\ timer' = timer /\ pool' = pool
    BY <1>5 DEF CallbackReschedule, place, seen
  <2>2. flags' = flags \/ flags' = [flags EXCEPT ![current_timer].rescheduled = TRUE]
    BY <1>5 DEF CallbackReschedule
  <2>3. \A t \in Timers : flags'[t].removed = flags[t].removed
    BY <1>0, <2>2 DEF Flags
  <2>4. stopped \subseteq Timers
    BY <1>0
  <2> QED BY <2>1, <2>3, <2>4 DEF StoppedKept
<1>6. CASE CallbackStop \/ CallbackReturn \/ Drain
  <2>1. /\ stopped' = stopped /\ timer' = timer /\ pool' = pool /\ flags' = flags
        /\ tpc' \in {"stopping", "back", "again"}
    BY <1>6 DEF CallbackStop, CallbackReturn, Drain, records, seen
  <2> QED BY <2>1 DEF StoppedKept
<1>7. CASE Again
  <2>1. /\ stopped' = stopped /\ pool' = pool /\ ~flags[timer].removed
    BY <1>7 DEF Again, seen
  <2> QED BY <2>1 DEF StoppedKept
<1>8. CASE Free
  <2>1. stopped' = stopped /\ pool' = pool \ {timer}
    BY <1>8 DEF Free, seen
  <2> QED BY <2>1 DEF StoppedKept
<1>9. CASE \/ Top \/ WakeForever \/ TakeAdd \/ InsertAdded \/ TakeDel \/ ReadTick
           \/ GrabDue \/ NoneDue \/ AdvanceTick \/ SetCurrent \/ Depart
           \/ PutBack \/ Pause \/ WakeUp
  <2>1. /\ stopped' = stopped /\ pool' = pool
        /\ tpc \notin {"callback", "stopping", "back", "again"}
    BY <1>9 DEF Top, WakeForever, TakeAdd, InsertAdded, TakeDel, ReadTick, GrabDue, NoneDue,
                AdvanceTick, SetCurrent, Depart, PutBack, Pause, WakeUp, records, seen
  <2> QED BY <2>1 DEF StoppedKept
<1>10. CASE Tick
  BY <1>10 DEF Tick, StoppedKept, records, place, seen
<1> QED BY <1>1, <1>2, <1>3, <1>4, <1>5, <1>6, <1>7, <1>8, <1>9, <1>10 DEF Process, Callback

\* Where threads other than the timer thread only add timers, no callback of a timer starts
\* after its RemoveTimer has returned: callbacks may remove it, themselves or one another,
\* and reschedule it before or after.
THEOREM StopsFiringAlways ==
  ASSUME OnlyAdding
  PROVE  Spec => StopsFiring
<1> DEFINE P == NoFault => StopInv
           A == tpc = "leaving" /\ tpc' = "callback" => timer \notin stopped
<1>1. Init => P
  <2> SUFFICES ASSUME Init PROVE NoRemoval /\ StoppedKept
    BY DEF StopInv
  <2>1. \A c \in Clients : call[c] = NoCall
    BY DEF Init
  <2> QED BY <2>1 DEF Init, NoRemoval, StoppedKept, NoCall
<1>2. Inv /\ (NoFault => Sound) /\ (NoReschedule => Calm) /\ P /\ [Next]_vars => P'
  <2> SUFFICES ASSUME Inv, NoFault => Sound, NoReschedule => Calm, P, [Next]_vars, NoFault'
               PROVE  StopInv'
    OBVIOUS
  <2>1. CASE UNCHANGED vars
    <3>1. NoFault
      BY <2>1 DEF NoFault, vars, seen
    <3> QED BY <2>1, <3>1 DEF StopInv, NoRemoval, StoppedKept, vars, records, place, seen
  <2>2. CASE Next
    <3>1. NoFault
      BY <2>2 DEF Next, NoFault
    <3>2. Typed /\ Kinds /\ Current /\ Calm /\ NoRemoval /\ StoppedKept
      BY <3>1 DEF Inv, Sound, OnlyAdding, StopInv
    <3>3. NoRemoval'
      BY <2>2, <3>2, RemovalStep DEF Next
    <3>4. StoppedKept'
      BY <2>2, <3>2, ClientStops, ThreadStops DEF Next
    <3> QED BY <3>3, <3>4 DEF StopInv
  <2> QED BY <2>1, <2>2
<1>3. Inv /\ P /\ [Next]_vars => [A]_vars
  <2> SUFFICES ASSUME Inv, P, Next, tpc = "leaving" PROVE timer \notin stopped
    OBVIOUS
  <2>1. StoppedKept /\ Where
    BY DEF Next, NoFault, Inv, StopInv
  <2>2. timer \in pool
    BY <2>1 DEF Where, Apart, InThread, Handling
  <2> QED BY <2>1, <2>2 DEF StoppedKept
<1> QED BY <1>1, <1>2, <1>3, InvAlways, SoundAlways, CalmAlways, PTL DEF Spec, StopsFiring
=============================================================================
